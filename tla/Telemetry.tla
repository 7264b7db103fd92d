------------------------------ MODULE Telemetry ------------------------------
(***************************************************************************)
(* Telemetry from engine memory to widgets: widgets subscribe fields of    *)
(* the server's telemetry arena (ui/util.js telemetry_subscribe()), the    *)
(* client merges all fields into aligned segments, requests them, and      *)
(* translates every field into an index of the binary messages; the server *)
(* (ase/server.cc TelemetryPlan) sends the segments' bytes periodically.   *)
(* The layout changes with every subscription while messages of the old    *)
(* layout are under way.                                                   *)
(*                                                                         *)
(* A byte is represented by its address in the arena.                      *)
(***************************************************************************)
EXTENDS Integers, Sequences, SequencesExt

CONSTANTS Widgets,         \* subscribers
          FieldsOf,        \* [Widgets -> set of fields [offset, length, width]]
          MaxSubscriptions \* bound: calls of telemetry_subscribe()

ASSUME FieldsAligned ==
  \A w \in Widgets : \A f \in FieldsOf[w] :
    /\ f.width \in {1, 4, 8} /\ f.length > 0
    /\ f.offset % f.width = 0 /\ f.length % f.width = 0

VARIABLES
  objects,    \* telemetry_objects: the subscribed widgets, in order
  index,      \* [objects' fields -> element index into the messages]
  segments,   \* telemetry_segments, the segments requested last
  blocked,    \* telemetry_blocked, calls without an answer
  tele_calls,      \* requests under way to the server
  plan,       \* TelemetryPlan.segments_ and whether its timer runs
  unsent,     \* the socket thread has an answer to send
  arriving,   \* messages under way to the client: an answer or bytes
  read,       \* [Widgets -> what the widget's callback read last, by field]
  subscriptions

telemetryVars == <<objects, index, segments, blocked, tele_calls, plan, unsent, arriving, read,
                   subscriptions>>

align8(i) == (i \div 8) * 8

\* The order of fragments: by offset, longer ones first.
Before(f, g) == f.offset < g.offset \/ (f.offset = g.offset /\ f.length > g.length)

Fragments(objs) == SetToSortSeq(UNION {FieldsOf[objs[i]] : i \in DOMAIN objs}, Before)

\* The layout after one more fragment f: `segs' are the segments and `base'
\* the number of bytes before the last of them.  A fragment that starts
\* less than 8 bytes behind the last segment extends it.
\* Mutant: a segment is not extended to the end of its fragment.
AddFragmentShort(layout, f) ==
  LET n == Len(layout.segs)
      new == n = 0 \/ f.offset >= layout.segs[n].offset + layout.segs[n].length + 8
      base == layout.base + (IF new /\ n > 0 THEN layout.segs[n].length ELSE 0)
      segs == IF new THEN Append(layout.segs, [offset |-> align8(f.offset), length |-> align8(f.length + 7)])
                     ELSE layout.segs
      seg == segs[Len(segs)]
  IN [segs |-> segs, base |-> base,
      index |-> [g \in DOMAIN layout.index \union {f} |->
                   IF g = f THEN (base + f.offset - seg.offset) \div f.width ELSE layout.index[g]]]

AddFragment(layout, f) ==
  LET n == Len(layout.segs)
      new == n = 0 \/ f.offset >= layout.segs[n].offset + layout.segs[n].length + 8
      base == layout.base + (IF new /\ n > 0 THEN layout.segs[n].length ELSE 0)
      segs == IF new THEN Append(layout.segs, [offset |-> align8(f.offset), length |-> align8(f.length + 7)])
                     ELSE layout.segs
      seg == segs[Len(segs)]
      need == f.offset + f.length - seg.offset
  IN [segs |-> [segs EXCEPT ![Len(segs)].length = IF need > @ THEN align8(need + 7) ELSE @],
      base |-> base,
      index |-> [g \in DOMAIN layout.index \union {f} |->
                   IF g = f THEN (base + f.offset - seg.offset) \div f.width ELSE layout.index[g]]]

Layout(objs) ==
  FoldLeft(AddFragment, [segs |-> <<>>, base |-> 0, index |-> <<>>], Fragments(objs))

\* telemetry_reschedule(): the fields get their indices at once; only other
\* segments than the last ones are requested, and until the answer arrives
\* messages are ignored.
telemetry_reschedule(objs) ==
  LET layout == Layout(objs)
  IN /\ index' = layout.index
     /\ IF layout.segs = segments THEN UNCHANGED <<segments, blocked, tele_calls>>
        ELSE /\ segments' = layout.segs
             /\ blocked' = blocked + 1
             /\ tele_calls' = Append(tele_calls, layout.segs)

telemetry_subscribe(w) ==
  /\ subscriptions < MaxSubscriptions /\ subscriptions' = subscriptions + 1
  /\ ~Contains(objects, w)
  /\ objects' = Append(objects, w)
  /\ telemetry_reschedule(objects')
  /\ UNCHANGED <<plan, unsent, arriving, read>>

telemetry_unsubscribe(w) ==
  /\ Contains(objects, w)
  /\ objects' = SelectSeq(objects, LAMBDA o : o # w)
  /\ telemetry_reschedule(objects')
  /\ read' = [read EXCEPT ![w] = <<>>]
  /\ UNCHANGED <<plan, unsent, arriving, subscriptions>>

\* validate_telemetry_segments(): sorted, disjoint, not empty, multiples of 4.
validate_telemetry_segments(segs) ==
  \A i \in DOMAIN segs :
    /\ segs[i].offset >= 0 /\ segs[i].offset % 4 = 0
    /\ segs[i].length > 0 /\ segs[i].length % 4 = 0
    /\ i > 1 => segs[i].offset >= segs[i-1].offset + segs[i-1].length

\* TelemetryPlan::setup(): the timer is started with the first segments and
\* goes on from then, without segments it sends nothing but empty messages.
setup(segs) ==
  LET timer == plan.timer \/ segs # <<>>
  IN [timer |-> timer, segs |-> IF timer THEN segs ELSE <<>>]

\* broadcast_telemetry() in the main thread.
broadcast_telemetry ==
  /\ tele_calls # <<>> /\ ~unsent.some
  /\ tele_calls' = Tail(tele_calls)
  /\ LET valid == validate_telemetry_segments(Head(tele_calls))
     IN /\ plan' = IF valid THEN setup(Head(tele_calls)) ELSE plan
        /\ unsent' = [some |-> TRUE, valid |-> valid]
  /\ UNCHANGED <<objects, index, segments, blocked, arriving, read, subscriptions>>

\* The socket thread sends the answer after the call has returned.
Answer ==
  /\ unsent.some
  /\ arriving' = Append(arriving, [answer |-> TRUE, bytes |-> <<>>])
  /\ unsent' = [unsent EXCEPT !.some = FALSE]
  /\ UNCHANGED <<objects, index, segments, blocked, tele_calls, plan, read, subscriptions>>

\* The bytes of all segments, one after the other.
Payload(segs) ==
  FlattenSeq([i \in DOMAIN segs |-> [k \in 1..segs[i].length |-> segs[i].offset + k - 1]])

\* send_telemetry(), the timer's callback.  One message at a time suffices:
\* later messages of the same plan are equal.
send_telemetry ==
  /\ plan.timer
  /\ \A i \in DOMAIN arriving : arriving[i] # [answer |-> FALSE, bytes |-> Payload(plan.segs)]
  /\ arriving' = Append(arriving, [answer |-> FALSE, bytes |-> Payload(plan.segs)])
  /\ UNCHANGED <<objects, index, segments, blocked, tele_calls, plan, unsent, read, subscriptions>>

\* The bytes of field f in a message, as the callback reads them from the
\* array of its type; elements behind the end of the array are undefined.
Bytes(bytes, f) ==
  [k \in 1..f.length |->
     LET at == index[f] * f.width + k
     IN IF at <= (Len(bytes) \div f.width) * f.width THEN bytes[at] ELSE -1]

\* jsonipc_binary_handler_(): every widget's callback reads its fields.
Ignored == blocked > 0

Arrives ==
  /\ arriving # <<>> /\ arriving' = Tail(arriving)
  /\ LET msg == Head(arriving)
     IN IF msg.answer
        THEN blocked' = blocked - 1 /\ UNCHANGED read
        ELSE /\ read' = IF Ignored THEN read
                        ELSE [w \in Widgets |-> IF Contains(objects, w)
                                                THEN [f \in FieldsOf[w] |-> Bytes(msg.bytes, f)]
                                                ELSE read[w]]
             /\ UNCHANGED blocked
  /\ UNCHANGED <<objects, index, segments, tele_calls, plan, unsent, subscriptions>>

TelemetryInit ==
  /\ objects = <<>> /\ index = <<>> /\ segments = <<>> /\ blocked = 0
  /\ tele_calls = <<>> /\ plan = [timer |-> FALSE, segs |-> <<>>]
  /\ unsent = [some |-> FALSE, valid |-> FALSE] /\ arriving = <<>>
  /\ read = [w \in Widgets |-> <<>>]
  /\ subscriptions = 0

TelemetryNext ==
  \/ \E w \in Widgets : telemetry_subscribe(w)
  \/ \E w \in Widgets : telemetry_unsubscribe(w)
  \/ broadcast_telemetry \/ Answer \/ send_telemetry \/ Arrives

TelemetrySpec == TelemetryInit /\ [][TelemetryNext]_telemetryVars

(***************************************************************************)
(* Properties.                                                             *)
(***************************************************************************)

\* A widget only ever reads the memory of its own fields: never bytes of a
\* layout requested earlier or later, never beyond the message (util.js
\* telemetry_reschedule(), telemetry_blocked), and the server accepts every
\* request.
TelemetryFaithful ==
  /\ unsent.some => unsent.valid
  /\ \A w \in Widgets :
       read[w] # <<>> => \A f \in FieldsOf[w] : read[w][f] = [k \in 1..f.length |-> f.offset + k - 1]
==============================================================================
