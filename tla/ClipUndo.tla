------------------------------ MODULE ClipUndo ------------------------------
(***************************************************************************)
(* Note editing with undo: the notes of ClipImpl (ase/clip.cc), kept in an *)
(* EventList (ase/eventlist.hh), and the undo and redo stacks of their     *)
(* ProjectImpl (ase/project.cc).  All calls are made in the main thread,   *)
(* each is one step here.                                                  *)
(*                                                                         *)
(* A note is [id, tick, sel, dur]; ticks also stand for keys and channels. *)
(* Undo functions are closures over an image of one clip's notes.  Scope   *)
(* names matter only in so far as an entry of the stacks is a name.        *)
(***************************************************************************)
EXTENDS Naturals, Sequences, SequencesExt, FiniteSets

CONSTANTS Clips,
          Ticks,        \* positions of notes
          MaxId,        \* bound: note ids that can be allocated
          MaxUndo,      \* bound: entries of undostack_ and redostack_
          MaxGroups,    \* bound: nested undo groups
          Batches       \* arguments of change_batch

ASSUME ClipAssumption ==
  /\ Ticks \subseteq Nat /\ MaxId \in Nat /\ MaxUndo \in Nat /\ MaxGroups \in Nat

Note(id, t, s, d) == [id |-> id, tick |-> t, sel |-> s, dur |-> d]
Notes == [id : 1..MaxId, tick : Ticks, sel : BOOLEAN, dur : {1}]
NoCache == <<Note(0, 0, FALSE, 0)>>                      \* an empty std::any
Scope == [scope |-> TRUE]                               \* an UndoFunc that is a name
Func(c, image) == [scope |-> FALSE, clip |-> c, image |-> image]

VARIABLES
  clip_notes,          \* notes_ of each clip
  ordered,        \* ordered_, the cached notes in playback order
  next_noteid,
  undostack, redostack,
  groups_open,    \* undo_groups_open_
  group_named,    \* undo_group_name_ is not empty
  past, future    \* history: all notes at the start of each scope of the stacks
undo_state == <<undostack, redostack, groups_open, group_named>>
clipVars == <<clip_notes, ordered, next_noteid, undo_state, past, future>>

NoteSeqs == UNION {[1..n -> Notes] : n \in 0..MaxId}
Entries == {Scope} \cup [scope : {FALSE}, clip : Clips, image : NoteSeqs]
ClipTypeOK ==
  /\ \A c \in Clips : clip_notes[c] \in NoteSeqs /\ ordered[c] \in NoteSeqs \cup {NoCache}
  /\ next_noteid \in 1..MaxId + 1
  /\ groups_open \in 0..MaxGroups /\ group_named \in BOOLEAN
  /\ \A i \in DOMAIN undostack : undostack[i] \in Entries
  /\ \A i \in DOMAIN redostack : redostack[i] \in Entries

ClipInit ==
  /\ clip_notes = [c \in Clips |-> <<>>] /\ ordered = [c \in Clips |-> NoCache]
  /\ next_noteid = 1
  /\ undostack = <<>> /\ redostack = <<>> /\ groups_open = 0 /\ group_named = FALSE
  /\ past = <<>> /\ future = <<>>

-----------------------------------------------------------------------------
(* EventList<ClipNote,CmpNoteIds> *)

\* binary_lookup_fuzzy over the first n elements: the position (from 0) of
\* the match, or where to insert.
Bisect(s, n, id) ==
  LET go[offs \in 0..n, end \in 0..n] ==
        IF offs >= end THEN [pos |-> offs, found |-> FALSE]
        ELSE LET i == (offs + end) \div 2
             IN IF s[i + 1].id = id THEN [pos |-> i, found |-> TRUE]
                ELSE IF id < s[i + 1].id THEN go[offs, i] ELSE go[i + 1, end]
  IN go[0, n]

\* EventList::insert
Inserted(s, note) ==
  IF s # <<>> /\ note.id > Last(s).id
    THEN Append(s, note)
    ELSE LET m == Bisect(s, Len(s), note.id)
         IN IF m.found THEN ReplaceAt(s, m.pos + 1, note) ELSE InsertAt(s, m.pos + 1, note)

\* EventList::remove: the tail is the fast path; the others are searched in
\* [begin, end-1), where `not found' yields end-1, which is not end.
Found(s, note) == s # <<>> /\ note.id <= Last(s).id
Removed(s, note) ==
  IF ~Found(s, note) THEN s
  ELSE IF note.id = Last(s).id THEN Front(s)
  ELSE LET m == Bisect(s, Len(s) - 1, note.id)
       IN RemoveAt(s, (IF m.found THEN m.pos ELSE Len(s) - 1) + 1)

\* OrderedEventList, sorted by CmpNoteTicks
PlaybackOrder(a, b) ==
  \/ a.tick < b.tick
  \/ a.tick = b.tick /\ ~a.sel /\ b.sel
  \/ a.tick = b.tick /\ a.sel = b.sel /\ a.id < b.id
Ordered(s) == SetToSortSeq(Range(s), PlaybackOrder)

\* tick_events: ordered_events() creates and caches the sorted copy.
TickEvents(c) ==
  /\ ordered[c] = NoCache
  /\ ordered' = [ordered EXCEPT ![c] = Ordered(clip_notes[c])]
  /\ UNCHANGED <<clip_notes, next_noteid, undo_state, past, future>>

-----------------------------------------------------------------------------
(* ClipImpl::change_batch *)

\* collapse_notes: each note is removed once per later note of the same tick
\* (and selection), in the order of the copies sorted by tick.
ByTick(a, b) == a.tick < b.tick \/ (a.tick = b.tick /\ a.id < b.id)
Collapsed(s) ==
  LET copies == SetToSortSeq(Range(s), ByTick)
      Successors(i) == {j \in i + 1..Len(copies) : /\ copies[j].tick = copies[i].tick
                                                   /\ copies[j].sel = copies[i].sel}
      RemoveNote(l, i) == FoldLeft(LAMBDA m, k : Removed(m, copies[i]), l,
                                   [k \in 1..Cardinality(Successors(i)) |-> k])
  IN FoldLeft(RemoveNote, s, [i \in 1..Len(copies) |-> i])

IsDelete(n) == n.id > 0 /\ n.dur = 0
IsModify(n) == n.id > 0 /\ n.dur > 0
IsInsert(n) == n.id = 0 /\ n.dur > 0

\* The state of change_batch: notes_, `changes', `selections', and whether
\* notes_ was uncached.
DeleteNote(st, n) ==
  [st EXCEPT !.notes = Removed(@, n), !.changes = @ \/ Found(st.notes, n), !.uncached = TRUE]

\* EventList::replace only affects existing notes
ReplaceNoteCached(st, n) ==                                \* mutant
  LET m == Bisect(st.notes, Len(st.notes), n.id)
      old == st.notes[m.pos + 1]
  IN IF ~m.found THEN st
     ELSE [st EXCEPT !.notes = ReplaceAt(@, m.pos + 1, n),
                     !.changes = @ \/ [old EXCEPT !.sel = n.sel] # n,
                     !.selections = @ \/ (old # n /\ [old EXCEPT !.sel = n.sel] = n)]
ReplaceNote(st, n) ==
  LET m == Bisect(st.notes, Len(st.notes), n.id)
      old == st.notes[m.pos + 1]
  IN IF ~m.found THEN st
     ELSE [st EXCEPT !.notes = ReplaceAt(@, m.pos + 1, n),
                     !.changes = @ \/ [old EXCEPT !.sel = n.sel] # n,
                     !.selections = @ \/ (old # n /\ [old EXCEPT !.sel = n.sel] = n),
                     !.uncached = TRUE]

InsertNote(st, n) ==
  [st EXCEPT !.notes = Inserted(@, [n EXCEPT !.id = st.nextid]), !.nextid = @ + 1,
             !.changes = TRUE, !.uncached = TRUE]

\* delete, then modify, then insert notes
Edited(c, batch) ==
  LET start == [notes |-> clip_notes[c], nextid |-> next_noteid, changes |-> FALSE,
                selections |-> FALSE, uncached |-> FALSE]
  IN FoldLeft(InsertNote,
              FoldLeft(ReplaceNote,
                       FoldLeft(DeleteNote, start, SelectSeq(batch, IsDelete)),
                       SelectSeq(batch, IsModify)),
              SelectSeq(batch, IsInsert))

\* add_undo_scope: within a group only the first scope gets a name
NewScope == groups_open = 0 \/ group_named

\* push_undo of ClipImpl: undo_scope() += apply_undo of the image
PushUndoKeepRedo(c, image) ==                              \* mutant
  /\ undostack' = (IF NewScope THEN Append(undostack, Scope) ELSE undostack) \o <<Func(c, image)>>
  /\ group_named' = (group_named /\ ~NewScope)
  /\ past' = IF NewScope THEN Append(past, clip_notes) ELSE past
  /\ UNCHANGED <<groups_open, redostack, future>>
PushUndo(c, image) ==
  /\ undostack' = (IF NewScope THEN Append(undostack, Scope) ELSE undostack) \o <<Func(c, image)>>
  /\ redostack' = IF NewScope THEN <<>> ELSE redostack
  /\ group_named' = (group_named /\ ~NewScope)
  /\ past' = IF NewScope THEN Append(past, clip_notes) ELSE past
  /\ future' = IF NewScope THEN <<>> ELSE future
  /\ UNCHANGED groups_open

ChangeBatch(c, batch) ==
  /\ Len(undostack) + Len(redostack) <= MaxUndo - 2
  /\ \E e \in {Edited(c, batch)} :
       /\ e.nextid <= MaxId + 1
       /\ \E after \in {IF e.changes \/ e.selections THEN Collapsed(e.notes) ELSE e.notes} :
            /\ clip_notes' = [clip_notes EXCEPT ![c] = after]
            /\ IF after # clip_notes[c] /\ (e.changes \/ Len(after) # Len(e.notes))
                 THEN PushUndo(c, clip_notes[c])
                 ELSE UNCHANGED <<undo_state, past, future>>
       /\ ordered' = [ordered EXCEPT ![c] = IF e.uncached THEN NoCache ELSE @]
       /\ next_noteid' = e.nextid

-----------------------------------------------------------------------------
(* ProjectImpl: undo, redo and undo groups *)

\* Position of the topmost scope name, 0 if there is none.
TopScope(stack) == SelectLastInSeq(stack, LAMBDA e : e.scope)

\* Run the functions of the topmost scope, last one first.  Each apply_undo
\* pushes the present notes of its clip onto the `other' stack (no further
\* scope is opened) and restores its image.
RunScope(stack, other) ==
  LET fs == SubSeq(stack, TopScope(stack) + 1, Len(stack))
      Apply(f, st) ==
        [notes |-> [st.notes EXCEPT ![f.clip] = FoldLeft(Inserted, <<>>, f.image)],
         other |-> Append(st.other, Func(f.clip, st.notes[f.clip])),
         touched |-> st.touched \cup {f.clip}]
  IN FoldRight(LAMBDA f, st : Apply(f, st), fs,
               [notes |-> clip_notes, other |-> Append(other, Scope), touched |-> {}])
Uncache(touched) == [c \in Clips |-> IF c \in touched THEN NoCache ELSE ordered[c]]

Undo ==
  /\ groups_open = 0 /\ undostack # <<>>
  /\ IF TopScope(undostack) = 0
       THEN \* assert_return: the functions are lost
            /\ undostack' = <<>>
            /\ UNCHANGED <<clip_notes, ordered, redostack, past, future>>
       ELSE LET r == RunScope(undostack, redostack)
            IN /\ undostack' = SubSeq(undostack, 1, TopScope(undostack) - 1)
               /\ redostack' = r.other /\ clip_notes' = r.notes /\ ordered' = Uncache(r.touched)
               /\ past' = Front(past) /\ future' = Append(future, clip_notes)
  /\ UNCHANGED <<next_noteid, groups_open, group_named>>

Redo ==
  /\ groups_open = 0 /\ redostack # <<>>
  /\ LET r == RunScope(redostack, undostack)
     IN /\ redostack' = SubSeq(redostack, 1, TopScope(redostack) - 1)
        /\ undostack' = r.other /\ clip_notes' = r.notes /\ ordered' = Uncache(r.touched)
        /\ future' = Front(future) /\ past' = Append(past, clip_notes)
  /\ UNCHANGED <<next_noteid, groups_open, group_named>>

GroupUndo ==
  /\ groups_open < MaxGroups
  /\ groups_open' = groups_open + 1 /\ group_named' = (group_named \/ groups_open = 0)
  /\ UNCHANGED <<clip_notes, ordered, next_noteid, undostack, redostack, past, future>>

UngroupUndo ==
  /\ groups_open > 0
  /\ groups_open' = groups_open - 1 /\ group_named' = (group_named /\ groups_open > 1)
  /\ UNCHANGED <<clip_notes, ordered, next_noteid, undostack, redostack, past, future>>

\* clear_undo, called by remove_track; callers have to close their undo
\* groups before, clear_undo warns otherwise.
ClearUndo ==
  /\ groups_open = 0
  /\ undostack' = <<>> /\ redostack' = <<>> /\ past' = <<>> /\ future' = <<>>
  /\ UNCHANGED <<clip_notes, ordered, next_noteid, groups_open, group_named>>

-----------------------------------------------------------------------------
ClipNext ==
  \/ \E c \in Clips : TickEvents(c) \/ \E batch \in Batches : ChangeBatch(c, batch)
  \/ Undo \/ Redo \/ GroupUndo \/ UngroupUndo \/ ClearUndo

ClipSpec == ClipInit /\ [][ClipNext]_clipVars

-----------------------------------------------------------------------------
(* Properties *)

(* The cached playback order is that of the present notes: no edit, undo or *)
(* redo leaves a stale copy for the clip's generators.                      *)
CacheFresh == \A c \in Clips : ordered[c] # NoCache => ordered[c] = Ordered(clip_notes[c])

\* Selections are not subject to undo.
Plain(s) == [i \in DOMAIN s |-> [s[i] EXCEPT !.sel = FALSE]]

(* undo() brings back the notes of all clips as they were when the scope on *)
(* top of the stack was opened, also for groups of changes to several clips *)
(* and regardless of selection changes in between.                          *)
UndoRestores == [][Undo => \A c \in Clips : Plain(clip_notes'[c]) = Plain(Last(past)[c])]_clipVars

(* redo() brings back the notes as they were when undo() was called.        *)
RedoRestores == [][Redo => \A c \in Clips : Plain(clip_notes'[c]) = Plain(Last(future)[c])]_clipVars

(* A non-empty stack starts with a scope name, so undo() and redo() always  *)
(* find the scope of the functions on top ("must contain scope name").      *)
StacksNamed ==
  /\ undostack # <<>> => undostack[1].scope
  /\ redostack # <<>> => redostack[1].scope

(* Generators never play a stale copy of a clip's notes, and both undo      *)
(* stacks can be unwound.                                                   *)
ClipSound == ClipTypeOK /\ CacheFresh /\ StacksNamed

(* Undo and redo go back and forth between the states of all clips.         *)
HistoryRestores == UndoRestores /\ RedoRestores

(* change_batch collapses overlapping notes into the newest: "delete from   *)
(* lhs, preserve newer entries on rhs", so a tick that had notes after the  *)
(* edits has one after the call.                                            *)
CollapsePreservesNewest ==
  [][\A c \in Clips, b \in Batches : ChangeBatch(c, b) =>
       \A n \in Range(Edited(c, b).notes) : \E m \in Range(clip_notes'[c]) : m.tick = n.tick]_clipVars
-----------------------------------------------------------------------------
(* Values of Batches: single notes and pairs of inserts, and a change of    *)
(* one note together with an insertion.                                     *)
Deletes  == {Note(id, 0, FALSE, 0) : id \in 1..MaxId}
Modifies == {Note(id, t, s, 1) : id \in 1..MaxId, t \in Ticks, s \in BOOLEAN}
Inserts  == {Note(0, t, FALSE, 1) : t \in Ticks}
MixedBatches ==
  {<<n>> : n \in Deletes \cup Modifies \cup Inserts} \cup {<<a, b>> : a, b \in Inserts}
    \cup {<<a, b>> : a \in Deletes \cup Modifies, b \in Inserts}
=============================================================================
