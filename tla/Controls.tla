------------------------------ MODULE Controls ------------------------------
(***************************************************************************)
(* The controls of the user interface that edit values: the note editor    *)
(* and, further down, the knob.                                            *)
(*                                                                         *)
(* The note editor is ui/b/piano-ctrl.js: keyboard commands, menu actions  *)
(* and the drag tools put modifiers into a queue; one asynchronous handler *)
(* takes them in order, applies each to a copy of the clip's notes and     *)
(* commits the difference with Clip.change_batch().                        *)
(* The notes come from a property cache that is refetched when the server  *)
(* notifies (jsonipc/jsonipc.js); notifications arrive before the reply of *)
(* the call that caused them.  The server side is ClipImpl::change_batch   *)
(* of ase/clip.cc, with keys and selection but without undo.               *)
(***************************************************************************)
EXTENDS Integers, FiniteSets, Sequences, SequencesExt, FiniteSetsExt

CONSTANTS Commands,     \* commands the user gives besides drags
          Spots,        \* <<tick, key>> positions of the pointer
          MaxKey,       \* 127, the highest key
          Quant,        \* quantization(): ticks of a grid step
          MinLength,    \* PPQN / 16, the shortest duration resizing allows
          StartNotes,   \* notes of the clip at the start
          MaxRequests,  \* bound: modifiers put into the queue
          MaxDrags,     \* bound: drags
          MaxOther,     \* bound: changes made by others, an undo for example
          GridTicks       \* bound: ticks of notes

VARIABLES
  notes,        \* server: notes of the clip, a set of records
  nextid,       \* server: next_noteid
  pr_calls,        \* messages to the server, in order
  wire,         \* messages to the client, in order
  cache,        \* client: all_notes as last fetched, in playback order
  fetches,      \* client: fetches that were not answered yet
  requests,     \* queue_modify_notes.requests_
  handler,      \* place in modify_notes_handler
  last,         \* its last: the fetched notes, the pending notes
  drags,        \* state of each drag, the `this` of its tool; the last one may be active
  dragging,     \* the pointer is held
  clipboard,    \* piano_clipboard
  ver, mine,    \* ghost: number of changes of notes, and the last one made here
  before,       \* ghost: number of notes at the start of a move without other changes, or -1
  made          \* number of requests and of changes by others
prVars == <<notes, nextid, pr_calls, wire, cache, fetches, requests, handler, last, drags, dragging, clipboard, ver, mine, before, made>>

None == <<>>
NoLast == [clip |-> FALSE, all |-> None, notes |-> None, pending |-> FALSE, ver |-> 0]
NewDrag(kind, id, spot) ==
  [kind |-> kind, id |-> id, spot |-> spot, ok |-> FALSE, ctrl |-> FALSE,
   started |-> FALSE, orig |-> {}, reltick |-> 0, relkey |-> 0, grid |-> 0, offset |-> 0,  \* move
   alive |-> TRUE, deltas |-> <<>>,                                                        \* resize
   ids |-> {}]                                                                             \* erase
Sorted(set) == SetToSortSeq(set, LAMBDA a, b : a.tick < b.tick \/ (a.tick = b.tick /\ a.id < b.id))
AtSpot(n, spot) == n.key = spot[2] /\ n.tick <= spot[1] /\ spot[1] < n.tick + n.dur

-----------------------------------------------------------------------------
(* The modifiers.  Each yields the kind of its result and a list: "no" for   *)
(* false or null, "select" for the frozen list that replaces all notes,      *)
(* "change" for a list of notes to change, "throw" for a TypeError.          *)
Throw == [kind |-> "throw", list |-> None]
NoChange == [kind |-> "no", list |-> None]
Change(list) == [kind |-> "change", list |-> list]
Select(all, P(_)) ==                            \* modify_selection
  LET list == [i \in DOMAIN all |-> [all[i] EXCEPT !.sel = P(all[i])]]
  IN IF list = all THEN NoChange ELSE [kind |-> "select", list |-> list]
Selected(all) == SelectSeq(all, LAMBDA n : n.sel)
Patched(all, F(_)) == Change([i \in DOMAIN Selected(all) |-> F(Selected(all)[i])])
Deleted(list) == [i \in DOMAIN list |-> [list[i] EXCEPT !.dur = 0]]
Fresh(list) == [i \in DOMAIN list |-> [list[i] EXCEPT !.id = 0]]
Nearest(t) == ((2 * t + Quant) \div (2 * Quant)) * Quant        \* quantize (t)
Below(t) == (t \div Quant) * Quant                              \* quantize (t, false)

\* A shift that would leave the keyboard or the time line is not done at all.
InRange(n) == n.tick >= 0 /\ n.key \in 0..MaxKey
ShiftAll(all, dt, dk) == Patched(all, LAMBDA n : [n EXCEPT !.tick = @ + dt, !.key = @ + dk])
Shift(all, dt, dk) ==
  IF \A n \in Range(ShiftAll(all, dt, dk).list) : InRange(n) THEN ShiftAll(all, dt, dk) ELSE NoChange

QuantizeDuration(n) ==
  LET end == Nearest(n.tick + n.dur)
  IN [n EXCEPT !.dur = (IF end <= n.tick THEN end + Quant ELSE end) - n.tick]

\* ALT + cursor: the note behind or before the selection in the order of tick and key.
Advanced(all, goright) ==
  LET x == SetToSortSeq(Range(all), LAMBDA a, b : a.tick * 1000 - a.key < b.tick * 1000 - b.key)
      sel == {i \in DOMAIN x : x[i].sel}
      right == {i \in DOMAIN x : sel # {} /\ i > Max(sel)}
      left == {i \in DOMAIN x : \A j \in sel : i < j}
      i == IF goright THEN IF right # {} THEN Min(right) ELSE Len(x)
           ELSE IF left # {} THEN Max(left) ELSE 1
  IN x[i].id

KeyCommand(c, all) ==
  CASE c = "all" -> Select(all, LAMBDA n : TRUE)
    [] c = "none" -> Select(all, LAMBDA n : FALSE)
    [] c = "invert" -> Select(all, LAMBDA n : ~n.sel)
    [] c \in {"next", "prev"} -> Select(all, LAMBDA n : n.id = Advanced(all, c = "next"))
    [] c \in {"delete", "cut"} -> Change(Deleted(Selected(all)))
    [] c = "quantize" -> Patched(all, LAMBDA n : [n EXCEPT !.tick = Nearest(@)])
    [] c = "quantdur" -> Patched(all, QuantizeDuration)
    [] c = "lengthen" -> Patched(all, LAMBDA n : [n EXCEPT !.dur = @ + Quant])
    [] c = "shorten" -> Patched(all, LAMBDA n : [n EXCEPT !.dur = IF Quant < @ THEN @ - Quant ELSE @])
    [] c = "right" -> ShiftAll(all, Quant, 0)
    [] c = "left" -> Shift(all, -Quant, 0)
    [] c = "up" -> Shift(all, 0, 1)
    [] c = "down" -> Shift(all, 0, -1)
    [] c = "copy" -> NoChange
    [] c = "paste" -> Change(Fresh(clipboard) \o Patched(all, LAMBDA n : [n EXCEPT !.sel = FALSE]).list)

\* Select tool with its modes, paint tool and erase tool.
InRect(n, a, b) ==
  LET t0 == Min({a[1], b[1]})  t1 == Max({a[1], b[1]})
  IN /\ n.key \in Min({a[2], b[2]})..Max({a[2], b[2]})
     /\ (t0 < n.tick /\ t1 >= n.tick) \/ (t0 >= n.tick /\ t0 < n.tick + n.dur)
Painted(all, spot, length) ==
  IF \E n \in Range(all) : AtSpot(n, spot) THEN NoChange
  ELSE Change(<<[id |-> 0, tick |-> Below(spot[1]), key |-> spot[2], dur |-> length, sel |-> TRUE]>>)

-----------------------------------------------------------------------------
(* The move tool: the dragged notes stay in place, unselected, and copies of *)
(* them follow the pointer until the end of the drag deletes the originals.  *)
ById(all, id) == SelectSeq(all, LAMBDA n : n.id = id)
Preselect(all, d) ==
  IF ById(all, d.id) = None \/ ById(all, d.id)[1].sel THEN NoChange
  ELSE Patched([i \in DOMAIN all |-> [all[i] EXCEPT !.sel = TRUE]], LAMBDA n : [n EXCEPT !.sel = n.id = d.id])
MinTick(all) == Min({n.tick : n \in Range(Selected(all))})
Keys(all) == {n.key : n \in Range(Selected(all))}
StartMove(all, d) ==
  LET sel == Selected(all)
  IN IF ~d.ok \/ ById(all, d.id) = None THEN NoChange
     ELSE Change([i \in DOMAIN sel |-> [sel[i] EXCEPT !.sel = FALSE]] \o Fresh(sel))
StartedMove(all, d) ==          \* what start_move_notes remembers
  IF ~d.ok \/ ById(all, d.id) = None THEN d
  ELSE LET n == ById(all, d.id)[1]
       IN [d EXCEPT !.started = TRUE, !.orig = {x.id : x \in Range(Selected(all))},
                    !.reltick = n.tick - MinTick(all), !.relkey = d.spot[2] - Min(Keys(all)),
                    !.grid = n.tick - Below(n.tick), !.offset = d.spot[1] - n.tick]
\* The candidate closest to the pointer, the first one of equals.
Snapped(start, d) ==
  LET near(t) == <<t - Quant, t, t + Quant>>
      dist(t) == IF t >= start THEN t - start ELSE start - t
  IN FoldLeft(LAMBDA best, t : IF dist(t) < dist(best) THEN t ELSE best, 0,
              near(Nearest(start)) \o near(Nearest(start - d.grid) + d.grid))
MoveNotes(all, d) ==
  LET dk == d.spot[2] - Min(Keys(all)) - d.relkey
      dt == Snapped(d.spot[1] - d.offset, d) - MinTick(all) - d.reltick
      low == IF MinTick(all) + dt < 0 THEN -MinTick(all) ELSE dt
      lowkey == IF Min(Keys(all)) + dk < 0 THEN -Min(Keys(all)) ELSE dk
      key == IF Max(Keys(all)) + lowkey > MaxKey THEN MaxKey - Max(Keys(all)) ELSE lowkey
  IN IF ~d.ok THEN NoChange
     ELSE IF Selected(all) = None THEN Change(None) ELSE ShiftAll(all, low, key)
EndMove(all, d) ==
  IF ~d.ok THEN NoChange
  ELSE IF ~d.ctrl /\ ~d.started /\ all # None THEN Throw       \* original_note_ids is undefined
  ELSE Change(IF d.ctrl THEN None ELSE Deleted(SelectSeq(all, LAMBDA n : n.id \in d.orig)))

\* The resize tool keeps the differences between the durations.
Deltas(all, d) ==
  LET n == ById(all, d.id)[1]
  IN [id \in {x.id : x \in Range(Selected(all))} \cup {d.id} |-> ById(all, id)[1].dur - n.dur]
Resize(all, d) ==
  LET n == ById(all, d.id)[1]
      picked == [i \in DOMAIN all |-> IF n.sel THEN all[i] ELSE [all[i] EXCEPT !.sel = all[i].id = d.id]]
      length == Nearest(d.spot[1] - n.tick)
      deltas == IF d.deltas = <<>> THEN Deltas(all, d) ELSE d.deltas
      sized(x) == IF ~x.sel THEN x              \* NaN for a note that is not in the table
                  ELSE [x EXCEPT !.dur = IF x.id \in DOMAIN deltas
                                         THEN Max({MinLength, length + deltas[x.id]}) ELSE 0]
  IN IF ById(all, d.id) = None THEN NoChange
     ELSE IF ~d.alive THEN Throw                \* note_duration_delta is undefined
     ELSE Change(SelectSeq([i \in DOMAIN picked |-> sized(picked[i])], LAMBDA x : x.sel \/ ~n.sel))

Modifier(r, all) ==
  LET d == drags[r.d]
  IN CASE r.op = "key" -> KeyCommand(r.arg, all)
       [] r.op = "unselect" -> Select(all, LAMBDA n : FALSE)
       [] r.op = "rect" ->
            Select(all, LAMBDA n : CASE r.arg = "assign" -> InRect(n, d.spot, r.to)
                                     [] r.arg = "add" -> n.sel \/ InRect(n, d.spot, r.to)
                                     [] r.arg = "sub" -> n.sel /\ ~InRect(n, d.spot, r.to))
       [] r.op = "paint" -> Painted(all, r.to, Quant)
       [] r.op = "mark" -> Select(all, LAMBDA n : n.id \in d.ids \/ AtSpot(n, r.to))
       [] r.op = "erase" -> Change(Deleted(SelectSeq(all, LAMBDA n : n.id \in d.ids)))
       [] r.op = "preselect" -> Preselect(all, d)
       [] r.op = "startmove" -> StartMove(all, d)
       [] r.op = "move" -> MoveNotes(all, d)
       [] r.op = "endmove" -> EndMove(all, d)
       [] r.op = "resize" -> Resize(all, d)
\* What a modifier leaves in the state of its drag.
DragAfter(r, all) ==
  LET d == drags[r.d]
  IN CASE r.op = "mark" -> [d EXCEPT !.ids = @ \cup {n.id : n \in {x \in Range(all) : AtSpot(x, r.to)}}]
       [] r.op = "preselect" -> [d EXCEPT !.ok = ById(all, d.id) # None]
       [] r.op = "startmove" -> StartedMove(all, d)
       [] r.op = "resize" -> IF d.alive /\ d.deltas = <<>> /\ ById(all, d.id) # None
                             THEN [d EXCEPT !.deltas = Deltas(all, d)] ELSE d
       [] OTHER -> d

-----------------------------------------------------------------------------
(* The user.  queue_modify_notes appends a request and starts the handler.   *)
Request(op, arg, d, to, undo) == [op |-> op, arg |-> arg, d |-> d, to |-> to, undo |-> undo]
Enqueue(list) ==
  /\ made.requests + Len(list) <= MaxRequests
  /\ requests' = requests \o list
  /\ made' = [made EXCEPT !.requests = @ + Len(list)]
  /\ handler' = IF handler = "idle" THEN "next" ELSE handler
  /\ UNCHANGED <<notes, nextid, pr_calls, wire, cache, fetches, last, clipboard, ver, mine>>

Selects(c) == c \in {"all", "none", "invert", "next", "prev"}
Command ==
  \E c \in Commands :
    /\ Enqueue(<<Request("key", c, 0, <<0, 0>>, ~Selects(c))>>)
    /\ before' = -1
    /\ UNCHANGED <<drags, dragging>>

\* pointerdown: a tool for the spot, hovering over a note or not, starts a drag.
Tools(spot) ==
  LET hit == {n.id : n \in {x \in Range(cache.list) : AtSpot(x, spot)}}
  IN {<<tool, 0>> : tool \in {"rect", "paint", "erase"}} \cup ({"move", "resize"} \X hit)
DragStart ==
  \E spot \in Spots : \E tool \in Tools(spot) :
    LET d == Len(drags) + 1
    IN /\ ~dragging /\ d <= MaxDrags
       /\ dragging' = TRUE
       /\ drags' = Append(drags, NewDrag(tool[1], tool[2], spot))
       /\ before' = IF tool[1] = "move" /\ handler = "idle" /\ wire = <<>> /\ pr_calls = <<>>
                    THEN Cardinality(notes) ELSE -1
       /\ Enqueue(CASE tool[1] = "rect" -> <<Request("rect", "assign", d, spot, FALSE)>>
                    [] tool[1] = "paint" -> <<Request("unselect", "", d, spot, FALSE),
                                              Request("paint", "", d, spot, TRUE)>>
                    [] tool[1] = "erase" -> <<Request("mark", "", d, spot, FALSE)>>
                    [] tool[1] = "move" -> <<Request("preselect", "", d, spot, TRUE),
                                             Request("startmove", "", d, spot, TRUE)>>
                    [] tool[1] = "resize" -> <<>>)

\* pointermove: the position is kept in the drag's state and read by the modifier later.
DragMove ==
  \E spot \in Spots :
    LET d == Len(drags)
        tool == drags[d].kind
    IN /\ dragging
       /\ drags' = IF tool \in {"move", "resize"} THEN [drags EXCEPT ![d].spot = spot] ELSE drags
       /\ Enqueue(CASE tool = "rect" -> <<Request("rect", "add", d, spot, FALSE)>>
                    [] tool = "paint" -> <<Request("paint", "", d, spot, TRUE)>>
                    [] tool = "erase" -> <<Request("mark", "", d, spot, FALSE)>>
                    [] tool = "move" -> <<Request("move", "", d, spot, TRUE)>>
                    [] tool = "resize" -> <<Request("resize", "", d, spot, TRUE)>>)
       /\ UNCHANGED <<dragging, before>>

\* pointerup; the resize tool drops its table at once.
DragStop ==
  \E ctrl \in BOOLEAN :
    LET d == Len(drags)
        tool == drags[d].kind
        spot == drags[d].spot
    IN /\ dragging
       /\ dragging' = FALSE
       /\ drags' = [drags EXCEPT ![d].ctrl = ctrl, ![d].alive = FALSE]
       /\ Enqueue(CASE tool \in {"rect", "paint", "resize"} -> <<>>
                    [] tool = "erase" -> <<Request("erase", "", d, spot, TRUE),
                                           Request("unselect", "", d, spot, FALSE)>>
                    [] tool = "move" -> <<Request("endmove", "", d, spot, TRUE)>>)
       /\ UNCHANGED before

\* pointercancel, for example Escape.
DragCancel ==
  LET d == Len(drags)
      tool == drags[d].kind
      spot == drags[d].spot
  IN /\ dragging
     /\ dragging' = FALSE
     /\ drags' = [drags EXCEPT ![d].alive = FALSE]
     /\ Enqueue(CASE tool \in {"rect", "paint", "resize"} -> <<>>
                  [] tool = "erase" -> <<Request("unselect", "", d, spot, FALSE)>>
                  [] tool = "move" -> <<Request("endmove", "", d, spot, TRUE)>>)
     /\ UNCHANGED before

-----------------------------------------------------------------------------
(* modify_notes_handler *)
\* Notes of the list that differ from the fetched ones; the two lists are walked in step.
Modified(list, all) ==
  FoldLeft(LAMBDA acc, n :
             IF acc.j <= Len(all) /\ n.id = all[acc.j].id
             THEN [j |-> acc.j + 1, out |-> IF n = all[acc.j] THEN acc.out ELSE Append(acc.out, n)]
             ELSE [acc EXCEPT !.out = Append(@, n)],
           [j |-> 1, out |-> None], list).out

\* Fetch the notes for the next request, waiting for the fetches in progress.
Fetch ==
  /\ handler = "next" /\ requests # <<>> /\ ~last.clip
  /\ fetches = 0
  /\ last' = [NoLast EXCEPT !.clip = TRUE, !.all = cache.list, !.ver = cache.ver]
  /\ UNCHANGED <<notes, nextid, pr_calls, wire, cache, fetches, requests, handler, drags, dragging, clipboard, ver, mine, before, made>>

AfterCommitKeeps(l) == [l EXCEPT !.pending = FALSE, !.notes = None]     \* mutant
AfterCommit(l) == NoLast                \* last.clip = null
\* Apply the next modifier; commit unless it only adds to a pending selection.
Modify ==
  LET r == requests[1]
      base == IF last.pending THEN last.notes ELSE last.all
      res == Modifier(r, base)
      merged == CASE res.kind = "select" -> res.list
                  [] res.kind = "change" /\ res.list # None ->
                       (IF last.pending THEN last.notes ELSE None) \o res.list
                  [] OTHER -> last.notes
      pending == last.pending \/ res.kind = "select" \/ (res.kind = "change" /\ res.list # None)
      commit == r.undo \/ res.kind = "change" \/ Len(requests) = 1
      batch == Modified(merged, last.all)
  IN /\ handler = "next" /\ requests # <<>> /\ last.clip
     /\ requests' = Tail(requests)
     /\ drags' = IF r.d > 0 THEN [drags EXCEPT ![r.d] = DragAfter(r, base)] ELSE drags
     /\ clipboard' = IF r.op = "key" /\ r.arg \in {"cut", "copy"} THEN Selected(base) ELSE clipboard
     /\ IF res.kind = "throw"
        THEN handler' = "dead" /\ UNCHANGED <<last, pr_calls>>
        ELSE IF commit /\ pending
        THEN /\ last' = AfterCommit(last)
             /\ pr_calls' = IF batch # None THEN Append(pr_calls, [t |-> "batch", list |-> batch]) ELSE pr_calls
             /\ handler' = IF batch # None THEN "commit" ELSE "next"
        ELSE /\ last' = [last EXCEPT !.notes = merged, !.pending = pending]
             /\ UNCHANGED <<pr_calls, handler>>
     /\ UNCHANGED <<notes, nextid, wire, cache, fetches, dragging, ver, mine, before, made>>

\* All requests handled: the handler ends.
HandlerEnds ==
  /\ handler = "next" /\ requests = <<>>
  /\ handler' = "idle" /\ last' = NoLast
  /\ UNCHANGED <<notes, nextid, pr_calls, wire, cache, fetches, requests, drags, dragging, clipboard, ver, mine, before, made>>

-----------------------------------------------------------------------------
(* ClipImpl::change_batch and the property cache.                            *)
PrCollapsed(set) == {n \in set : ~\E m \in set :
                     m.id > n.id /\ m.tick = n.tick /\ m.key = n.key /\ m.sel = n.sel}
Batched(set, list) ==
  LET deleted == {n.id : n \in {x \in Range(list) : x.dur = 0}}
      replaced(old) == FoldLeft(LAMBDA o, n : IF n.id = old.id /\ n.dur > 0 THEN n ELSE o, old, list)
      new == SelectSeq(list, LAMBDA n : n.id = 0 /\ n.dur > 0)
  IN PrCollapsed({replaced(n) : n \in {x \in set : x.id \notin deleted}}
               \cup {[new[i] EXCEPT !.id = nextid + i - 1] : i \in DOMAIN new})
ServerStep ==
  LET c == pr_calls[1]
      after == Batched(notes, c.list)
      changed == after # notes
  IN /\ pr_calls # <<>>
     /\ pr_calls' = Tail(pr_calls)
     /\ IF c.t = "get"
        THEN /\ wire' = Append(wire, [t |-> "value", list |-> Sorted(notes), ver |-> ver])
             /\ UNCHANGED <<notes, nextid, ver, mine>>
        ELSE /\ \A n \in after : n.tick + n.dur <= GridTicks
             /\ notes' = after
             /\ nextid' = nextid + Len(SelectSeq(c.list, LAMBDA n : n.id = 0 /\ n.dur > 0))
             /\ ver' = IF changed THEN ver + 1 ELSE ver
             /\ mine' = IF changed THEN ver + 1 ELSE mine
             /\ wire' = (IF changed THEN Append(wire, [t |-> "notify"]) ELSE wire) \o <<[t |-> "reply"]>>
     /\ UNCHANGED <<cache, fetches, requests, handler, last, drags, dragging, clipboard, before, made>>

\* Somebody else deletes a note.
OtherEdit ==
  /\ made.other < MaxOther
  /\ \E n \in notes : notes' = notes \ {n}
  /\ ver' = ver + 1 /\ wire' = Append(wire, [t |-> "notify"])
  /\ made' = [made EXCEPT !.other = @ + 1] /\ before' = -1
  /\ UNCHANGED <<nextid, pr_calls, cache, fetches, requests, handler, last, drags, dragging, clipboard, mine>>

\* A message arrives: refetch_prop(), the value of a fetch, or the reply of change_batch.
ClientStep ==
  LET m == wire[1]
  IN /\ wire # <<>>
     /\ wire' = Tail(wire)
     /\ CASE m.t = "notify" -> /\ pr_calls' = Append(pr_calls, [t |-> "get"]) /\ fetches' = fetches + 1
                               /\ UNCHANGED <<cache, handler>>
          [] m.t = "value" -> /\ cache' = [list |-> m.list, ver |-> m.ver] /\ fetches' = fetches - 1
                              /\ UNCHANGED <<pr_calls, handler>>
          [] m.t = "reply" -> handler' = "next" /\ UNCHANGED <<pr_calls, cache, fetches>>
     /\ UNCHANGED <<notes, nextid, requests, last, drags, dragging, clipboard, ver, mine, before, made>>

PrInit ==
  /\ notes = StartNotes /\ nextid = Max({n.id : n \in StartNotes}) + 1
  /\ pr_calls = <<>> /\ wire = <<>> /\ fetches = 0
  /\ cache = [list |-> Sorted(StartNotes), ver |-> 1]
  /\ requests = <<>> /\ handler = "idle" /\ last = NoLast
  /\ drags = <<>> /\ dragging = FALSE /\ clipboard = None
  /\ ver = 1 /\ mine = 0 /\ before = -1 /\ made = [requests |-> 0, other |-> 0]
PrNext ==
  \/ Command \/ DragStart \/ DragMove \/ DragStop \/ DragCancel
  \/ Fetch \/ Modify \/ HandlerEnds
  \/ ServerStep \/ OtherEdit \/ ClientStep
PrSpec == PrInit /\ [][PrNext]_prVars

-----------------------------------------------------------------------------
(* A modifier works on notes that contain everything this queue committed    *)
(* before it, because the notification of a commit is delivered before its   *)
(* reply and the handler waits for the refetch (commit_last,                 *)
(* modify_notes_handler).                                                    *)
SeesOwnCommits == last.clip => last.ver >= mine

(* Moving and shifting never commits a note that is off the keyboard or      *)
(* before the start of the clip (the bounced checks, move_notes).            *)
NotesInRange == \A n \in notes : InRange(n)

Quiet == handler = "idle" /\ requests = <<>> /\ pr_calls = <<>> /\ ~dragging
(* A drag with the move tool keeps every note: it ends with as many notes as *)
(* before and without the originals, or when it copies (Ctrl) with one note  *)
(* more for each original.                                                   *)
MoveKeepsNotes ==
  (Quiet /\ before >= 0) =>
    LET d == drags[Len(drags)]
    IN IF d.ctrl THEN Cardinality(notes) = before + Cardinality(d.orig)
       ELSE Cardinality(notes) = before /\ d.orig \cap {n.id : n \in notes} = {}

-----------------------------------------------------------------------------
(***************************************************************************)
(* A knob of the user interface (ui/b/knob.js) and the property it edits.  *)
(* The knob changes its own position at once, commits it debounced to one  *)
(* call per animation frame (util.js debounce()), ignores notifications    *)
(* while calls are in flight, and holds the pointer lock during a drag     *)
(* (util.js request_pointer_lock()).  The calls travel through one web     *)
(* socket: requests in order, and answers and notifications in the order   *)
(* they are sent.                                                          *)
(*                                                                         *)
(* Positions are the integers 0..Top; pointer motion is vertical.          *)
(***************************************************************************)

CONSTANTS Top,          \* highest position of the knob, 1.0 in the code
          MaxGestures,  \* bound: events the user generates
          MaxOutside    \* bound: changes of the property by others

VARIABLES
  prop_value,      \* the server's value of the property
  writer,     \* who set it last: "knob" or "outside"
  changed,    \* the server has a notification to send
  answer,     \* answer of the call done last that the socket thread still has to send, or <<>>
  up, down,   \* requests and answers or notifications on the wire
  last_shown,     \* xprop.value_, the property's value as extend_property() keeps it
  shown,      \* BKnob.last_
  sending,   \* BKnob.setters_inflight
  commit,     \* queue_commit has requested an animation frame
  drag,       \* element[SPIN_DRAG]: {} or one drag
  pointer,    \* vertical pointer position
  lock,       \* the lock: element has it, is pending, has [unrequestpointerlock]
  asked,      \* lock requests the browser has not answered
  lockevents, \* pointerlockchange and pointerlockerror events to dispatch
  gestures, outside

knobVars == <<prop_value, writer, changed, answer, up, down, last_shown, shown, sending,
              commit, drag, pointer, lock, asked, lockevents, gestures, outside>>
serverVars == <<prop_value, writer, changed, answer>>
knob_wire == <<up, down>>
painted == <<last_shown, shown, sending, commit>>
lockVars == <<lock, asked, lockevents>>
dragVars == <<drag, pointer>>
bounds == <<gestures, outside>>

Positions == 0..Top
Unlocked == [held |-> FALSE, pending |-> FALSE, member |-> FALSE]

KnobTypeOK ==
  /\ prop_value \in Positions /\ last_shown \in Positions /\ shown \in Positions
  /\ writer \in {"knob", "outside"} /\ changed \in BOOLEAN /\ commit \in BOOLEAN
  /\ sending \in Nat /\ lockevents \in Nat
  /\ lock \in [held : BOOLEAN, pending : BOOLEAN, member : BOOLEAN]

Clamped(v) == IF v < 0 THEN 0 ELSE IF v > Top THEN Top ELSE v

(***************************************************************************)
(* The pointer lock.                                                       *)
(***************************************************************************)

\* has_pointer_lock(): a pending lock counts as well.
has_pointer_lock == lock.held \/ lock.pending

\* request_pointer_lock(): nothing is asked of the browser if the element
\* has the lock, only the member is restored.
request_pointer_lock ==
  IF has_pointer_lock /\ lock.member
  THEN UNCHANGED <<lock, asked>>
  ELSE /\ lock' = [lock EXCEPT !.pending = TRUE, !.member = TRUE]
       /\ asked' = IF lock.held THEN asked ELSE Append(asked, "lock")

\* The lock state after unrequest_pointer_lock(): the member is gone, so
\* the lock is no longer maintained.
Unrequested == [lock EXCEPT !.pending = FALSE, !.member = FALSE]

unrequest_pointer_lock ==
  IF lock.member
  THEN /\ lock' = Unrequested
       /\ asked' = IF lock.held THEN Append(asked, "exit") ELSE asked
  ELSE UNCHANGED <<lock, asked>>

\* The browser grants or refuses the lock or ends it; the event is
\* dispatched later.
BrowserAnswers ==
  /\ asked # <<>>
  /\ asked' = Tail(asked)
  /\ \E granted \in BOOLEAN :
       lock' = [lock EXCEPT !.held = CASE Head(asked) = "exit" -> FALSE
                                       [] granted -> TRUE
                                       [] OTHER -> @]
  /\ lockevents' = lockevents + 1
  /\ UNCHANGED <<serverVars, knob_wire, painted, dragVars, bounds>>

\* pointer_lock_changed(): if the holder is not the element waiting, nobody
\* waits any longer and a maintained holder loses the lock.
pointer_lock_changed ==
  /\ lockevents > 0
  /\ lockevents' = lockevents - 1
  /\ IF lock.held = lock.pending THEN UNCHANGED <<lock, asked>>
     ELSE IF lock.held /\ lock.member
          THEN lock' = Unrequested /\ asked' = Append(asked, "exit")
          ELSE lock' = [lock EXCEPT !.pending = FALSE] /\ UNCHANGED asked
  /\ UNCHANGED <<serverVars, knob_wire, painted, dragVars, bounds>>

(***************************************************************************)
(* Gestures.                                                               *)
(***************************************************************************)

Gesture == gestures < MaxGestures /\ gestures' = gestures + 1

\* The effect of queue_commit(): one frame is requested, whatever the calls.
queue_commit == commit' = TRUE

\* spin_drag_stop(): the lock is given back and the pending frame cancelled.
spin_drag_stop == drag' = {} /\ unrequest_pointer_lock

\* spin_drag_start(): with the lock pending the motion is accumulated from
\* 0, otherwise positions of the page are compared.  Capturing the pointer
\* may fail, then there is no drag.
spin_drag_start ==
  \/ UNCHANGED <<drag, lock, asked>>
  \/ /\ request_pointer_lock
     /\ drag' = {[last |-> pointer, moved |-> IF lock'.held \/ lock'.pending THEN 0 ELSE pointer,
                  frame |-> FALSE]}

\* pointerdown(): a second press within 500 ms stops the drag and resets
\* the property, a press during a drag stops it.
pointerdown ==
  /\ Gesture
  /\ \/ spin_drag_stop /\ up' = Append(up, [op |-> "reset", v |-> 0])
     \/ IF drag # {} THEN spin_drag_stop /\ UNCHANGED up ELSE spin_drag_start /\ UNCHANGED up
  /\ UNCHANGED <<serverVars, down, painted, pointer, lockevents, outside>>

\* spin_drag_pointermove(): accumulate the motion and ask for a frame.
spin_drag_pointermove ==
  /\ Gesture
  /\ \E d \in drag, to \in Positions \ {pointer} :
       /\ pointer' = to
       /\ drag' = {[d EXCEPT !.moved = IF has_pointer_lock THEN @ + to - pointer ELSE to,
                             !.frame = TRUE]}
  /\ UNCHANGED <<serverVars, knob_wire, painted, lockVars, outside>>

\* spin_drag_change() in the requested frame: moving down decreases.
spin_drag_change ==
  /\ \E d \in drag :
       /\ d.frame
       /\ LET dy == IF has_pointer_lock THEN d.moved ELSE d.moved - d.last
          IN shown' = Clamped(shown - dy)
       /\ drag' = {IF has_pointer_lock THEN [d EXCEPT !.frame = FALSE, !.moved = 0]
                   ELSE [d EXCEPT !.frame = FALSE, !.last = d.moved]}
  /\ queue_commit
  /\ UNCHANGED <<serverVars, knob_wire, last_shown, sending, pointer, lockVars, bounds>>

\* The pointer button is released.
pointerup ==
  /\ Gesture /\ drag # {}
  /\ spin_drag_stop
  /\ UNCHANGED <<serverVars, knob_wire, painted, pointer, lockevents, outside>>

\* wheel_event(): the position changes unless the knob is at its end.
wheel_event ==
  /\ Gesture
  /\ \E delta \in {-1, 1} :
       /\ IF delta > 0 THEN shown < Top ELSE shown > 0
       /\ shown' = Clamped(shown + delta)
  /\ queue_commit
  /\ UNCHANGED <<serverVars, knob_wire, last_shown, sending, dragVars, lockVars, outside>>

(***************************************************************************)
(* The knob and its property.                                              *)
(***************************************************************************)

\* commit_value() in the frame: the position at this time is sent.
commit_value ==
  /\ commit /\ commit' = FALSE
  /\ sending' = sending + 1
  /\ up' = Append(up, [op |-> "set", v |-> shown])
  /\ UNCHANGED <<serverVars, down, last_shown, shown, dragVars, lockVars, bounds>>

\* update_(): fetch the value for the property's cache.
update_ == [op |-> "fetch", v |-> 0]

\* The rest of commit_value() after the setter returned.
SetterReturned ==
  /\ sending' = IF sending > 0 THEN sending - 1 ELSE 0
  /\ up' = IF sending = 1 THEN Append(up, update_) ELSE up
  /\ UNCHANGED <<last_shown, shown>>

\* notify_() of the property updates the cache; notify_value() of the knob
\* fetches the value unless setters are in flight.
notify_value ==
  /\ up' = up \o <<update_>> \o (IF sending > 0 THEN <<>> ELSE <<[op |-> "get", v |-> 0]>>)
  /\ UNCHANGED <<last_shown, shown, sending>>

\* The position after notify_value() got the value v: setters that were
\* started meanwhile take precedence.
Repainted(v) == IF sending > 0 THEN shown ELSE v

Receive ==
  /\ down # <<>> /\ down' = Tail(down)
  /\ LET msg == Head(down)
     IN CASE msg.op = "set" -> SetterReturned
          [] msg.op = "notify" -> notify_value
          [] msg.op = "fetch" -> last_shown' = msg.v /\ UNCHANGED <<up, shown, sending>>
          [] msg.op = "get" -> shown' = Repainted(msg.v) /\ UNCHANGED <<up, last_shown, sending>>
          [] OTHER -> UNCHANGED <<up, last_shown, shown, sending>>
  /\ UNCHANGED <<serverVars, commit, dragVars, lockVars, bounds>>

\* prop_changed(): the knob is given its property anew, starts from the
\* cached value and fetches the current one.
prop_changed ==
  /\ Gesture
  /\ sending' = 0
  /\ shown' = last_shown
  /\ up' = Append(up, [op |-> "get", v |-> 0])
  /\ UNCHANGED <<serverVars, down, last_shown, commit, dragVars, lockVars, outside>>

(***************************************************************************)
(* The server: the socket thread hands a request to the main thread and    *)
(* sends the answer afterwards, while the main thread may go on and send   *)
(* notifications (jsonapi.cc).                                             *)
(***************************************************************************)

ServerCall ==
  /\ up # <<>> /\ answer = <<>>
  /\ LET msg == Head(up)
         new == CASE msg.op = "set" -> msg.v [] msg.op = "reset" -> 0 [] OTHER -> prop_value
     IN /\ prop_value' = new
        /\ writer' = IF msg.op = "set" \/ new # prop_value THEN "knob" ELSE writer
        /\ changed' = (changed \/ new # prop_value)
        /\ answer' = <<[op |-> msg.op, v |-> new]>>
  /\ up' = Tail(up)
  /\ UNCHANGED <<down, painted, dragVars, lockVars, bounds>>

ServerAnswer ==
  /\ answer # <<>>
  /\ down' = down \o answer /\ answer' = <<>>
  /\ UNCHANGED <<prop_value, writer, changed, up, painted, dragVars, lockVars, bounds>>

ServerNotify ==
  /\ changed /\ changed' = FALSE
  /\ down' = Append(down, [op |-> "notify", v |-> 0])
  /\ UNCHANGED <<prop_value, writer, answer, up, painted, dragVars, lockVars, bounds>>

\* Automation, undo or another window changes the property.
OutsideChange ==
  /\ outside < MaxOutside /\ outside' = outside + 1
  /\ \E v \in Positions \ {prop_value} : prop_value' = v
  /\ writer' = "outside" /\ changed' = TRUE
  /\ UNCHANGED <<answer, knob_wire, painted, dragVars, lockVars, gestures>>

KnobInit ==
  /\ prop_value \in Positions /\ last_shown = prop_value /\ shown = prop_value
  /\ writer = "knob" /\ changed = FALSE /\ answer = <<>> /\ up = <<>> /\ down = <<>>
  /\ sending = 0 /\ commit = FALSE
  /\ drag = {} /\ pointer \in Positions
  /\ lock = Unlocked /\ asked = <<>> /\ lockevents = 0
  /\ gestures = 0 /\ outside = 0

KnobNext ==
  \/ BrowserAnswers \/ pointer_lock_changed
  \/ pointerdown \/ spin_drag_pointermove \/ spin_drag_change \/ pointerup \/ wheel_event
  \/ commit_value \/ Receive \/ prop_changed
  \/ ServerCall \/ ServerAnswer \/ ServerNotify \/ OutsideChange

KnobSpec == KnobInit /\ [][KnobNext]_knobVars

(***************************************************************************)
(* Properties.                                                             *)
(***************************************************************************)

\* Nothing is on its way between the knob and the server.
KnobQuiet == ~commit /\ up = <<>> /\ down = <<>> /\ answer = <<>> /\ ~changed

\* A value the knob itself has set is the one it shows once all calls and
\* notifications are through, although notifications that arrive while
\* setters are in flight are dropped (knob.js notify_value(),
\* commit_value()) and values fetched earlier arrive late.
OwnValueShown == KnobQuiet /\ writer = "knob" => shown = prop_value
=============================================================================
