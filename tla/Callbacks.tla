----------------------------- MODULE Callbacks -----------------------------
(***************************************************************************)
(* The two reentrant notification lists of the main thread: the events of  *)
(* EmittableImpl with coalesced notifications (ase/object.cc), and the     *)
(* CallbackList template (ase/callback.hh).  A handler that is being       *)
(* called may itself connect, disconnect, emit or open a coalescing scope; *)
(* the call stack is the variable frames, its last element runs.           *)
(***************************************************************************)
EXTENDS Naturals, FiniteSets, Sequences, SequencesExt

CONSTANTS MaxHandlers,  \* bound: event connections and callbacks, numbered as they are added
          Details,      \* details of "notify" events
          MaxDepth      \* bound: length of the call stack

VARIABLES
  connections,  \* EventDispatcher::connections
  connected,    \* connections whose handler_ is set: selector of each
  alive,        \* connections whose shared pointer has an owner
  needs_purging,
  scopes,       \* CoalesceNotifies instances, the last is coalesce_notifies_head
  funcs,        \* CallbackList::funcs_
  frames,       \* the call stack
  added,        \* number of handlers added so far
  cb_owed          \* ghost: details of emit_notify calls that were not emitted since
cbVars == <<connections, connected, alive, needs_purging, scopes, funcs, frames, added, cb_owed>>

AnyDetail == "notify"         \* the selector without a detail
Selectors == {AnyDetail} \cup Details
Top == frames[Len(frames)]
\* Code of the program runs: the main loop, or a handler of the innermost emission.
CanRun == IF frames = <<>> THEN TRUE ELSE Top.kind = "handler"
Emission(detail) ==
  [kind |-> "emit", i |-> 1, detail |-> detail, got |-> {},
   must |-> {c \in DOMAIN connected \cap alive : connected[c] \in {AnyDetail, detail}}]
CallFrame == [kind |-> "call", i |-> 1, got |-> {}, must |-> Range(funcs)]
HandlerFrame == [kind |-> "handler"]
Emissions == {k \in DOMAIN frames : frames[k].kind = "emit"}
Calls == {k \in DOMAIN frames : frames[k].kind = "call"}
Dropped(f, c) == [x \in DOMAIN f \ {c} |-> f[x]]

-----------------------------------------------------------------------------
\* EmittableImpl::on_event
OnEvent ==
  \E c \in {added + 1}, s \in Selectors :
    /\ CanRun /\ c <= MaxHandlers
    /\ added' = c /\ alive' = alive \cup {c}
    /\ connected' = [x \in DOMAIN connected \cup {c} |-> IF x = c THEN s ELSE connected[x]]
    /\ connections' = Append(connections, c)
    /\ UNCHANGED <<needs_purging, scopes, funcs, frames, cb_owed>>

Purged(on) == SelectSeq(connections, LAMBDA c : c \in on \cap alive)
\* EventConnection::disconnect with purge_connections: the list stays as it is
\* during an emission.
InEmissionIgnored == FALSE              \* mutant: purges at once
InEmission == Emissions # {}
Disconnect ==
  \E c \in DOMAIN connected \cap alive :
    /\ CanRun
    /\ connected' = Dropped(connected, c)
    /\ IF InEmission
       THEN needs_purging' = TRUE /\ UNCHANGED connections
       ELSE needs_purging' = FALSE /\ connections' = Purged(DOMAIN connected \ {c})
    /\ UNCHANGED <<alive, scopes, funcs, frames, added, cb_owed>>

\* The owner of a Connection drops it, the list keeps an expired weak pointer.
DropConnection ==
  \E c \in alive :
    /\ CanRun
    /\ alive' = alive \ {c} /\ connected' = Dropped(connected, c)
    /\ UNCHANGED <<connections, needs_purging, scopes, funcs, frames, added, cb_owed>>

\* EmittableImpl::emit_event, from the program or for a notification.
Emit(detail) ==
  /\ Len(frames) < MaxDepth
  /\ frames' = Append(frames, Emission(detail))
  /\ cb_owed' = cb_owed \ {detail}
  /\ UNCHANGED <<connections, connected, alive, needs_purging, scopes, funcs, added>>

\* EmittableImpl::emit_notify: the innermost scope collects it if there is one.
EmitNotify ==
  \E d \in Details :
    /\ CanRun
    /\ IF scopes # <<>>
       THEN /\ scopes' = [scopes EXCEPT ![Len(scopes)].notifications = @ \cup {d}]
            /\ cb_owed' = cb_owed \cup {d}
            /\ UNCHANGED <<connections, connected, alive, needs_purging, funcs, frames, added>>
       ELSE Emit(d)

\* One turn of the loop in EventDispatcher::emit.
NextConnection ==
  LET k == Len(frames)
      c == connections[Top.i]
      calls == c \in DOMAIN connected \cap alive /\ connected[c] \in {AnyDetail, Top.detail}
  IN /\ frames # <<>> /\ Top.kind = "emit" /\ Top.i <= Len(connections)
     /\ Len(frames) <= MaxDepth
     /\ frames' = IF calls
                  THEN Append([frames EXCEPT ![k].i = @ + 1, ![k].got = @ \cup {c}], HandlerFrame)
                  ELSE [frames EXCEPT ![k].i = @ + 1]
     /\ UNCHANGED <<connections, connected, alive, needs_purging, scopes, funcs, added, cb_owed>>

\* The outermost emission purges what was disconnected meanwhile.
EmitEnds ==
  LET purge == needs_purging /\ Cardinality(Emissions) = 1
  IN /\ frames # <<>> /\ Top.kind = "emit" /\ Top.i > Len(connections)
     /\ frames' = Front(frames)
     /\ needs_purging' = (needs_purging /\ ~purge)
     /\ connections' = IF purge THEN Purged(DOMAIN connected) ELSE connections
     /\ UNCHANGED <<connected, alive, scopes, funcs, added, cb_owed>>

-----------------------------------------------------------------------------
\* A CoalesceNotifies on the stack of the running handler.
OpenScope ==
  /\ CanRun /\ Len(scopes) < 2
  /\ scopes' = Append(scopes, [depth |-> Len(frames), notifications |-> {}])
  /\ UNCHANGED <<connections, connected, alive, needs_purging, funcs, frames, added, cb_owed>>

FlushedNone(scope) == {}                \* mutant: the destructor does not flush
Flushed(scope) == scope.notifications
\* ~CoalesceNotifies: unlink, then emit what was collected, in any order.
CloseScope ==
  LET scope == scopes[Len(scopes)]
  IN /\ CanRun /\ scopes # <<>> /\ scope.depth = Len(frames) /\ Len(frames) < MaxDepth
     /\ scopes' = Front(scopes)
     /\ frames' = Append(frames, [kind |-> "flush", todo |-> Flushed(scope)])
     /\ UNCHANGED <<connections, connected, alive, needs_purging, funcs, added, cb_owed>>
FlushNext ==
  /\ frames # <<>> /\ Top.kind = "flush" /\ Len(frames) < MaxDepth
  /\ \E d \in Top.todo :
       /\ frames' = Append([frames EXCEPT ![Len(frames)].todo = @ \ {d}], Emission(d))
       /\ cb_owed' = cb_owed \ {d}
  /\ UNCHANGED <<connections, connected, alive, needs_purging, scopes, funcs, added>>

-----------------------------------------------------------------------------
\* CallbackList::add, del and call
Add ==
  /\ CanRun /\ added < MaxHandlers
  /\ added' = added + 1 /\ funcs' = Append(funcs, added')
  /\ UNCHANGED <<connections, connected, alive, needs_purging, scopes, frames, cb_owed>>

\* del_id moves back the iterations that are past the deleted callback.
Adjusted(i, j) == IF j < i THEN i - 1 ELSE i
Del ==
  \E j \in DOMAIN funcs :
    /\ CanRun
    /\ funcs' = RemoveAt(funcs, j)
    /\ frames' = [k \in DOMAIN frames |->
         IF k \in Calls THEN [frames[k] EXCEPT !.i = Adjusted(@, j)] ELSE frames[k]]
    /\ UNCHANGED <<connections, connected, alive, needs_purging, scopes, added, cb_owed>>
Call ==
  /\ CanRun /\ Len(frames) < MaxDepth
  /\ frames' = Append(frames, CallFrame)
  /\ UNCHANGED <<connections, connected, alive, needs_purging, scopes, funcs, added, cb_owed>>
NextCallback ==
  /\ frames # <<>> /\ Top.kind = "call" /\ Top.i <= Len(funcs)
  /\ Len(frames) <= MaxDepth
  /\ frames' = Append([frames EXCEPT ![Len(frames)].i = @ + 1,
                                     ![Len(frames)].got = @ \cup {funcs[Top.i]}], HandlerFrame)
  /\ UNCHANGED <<connections, connected, alive, needs_purging, scopes, funcs, added, cb_owed>>

\* A handler, a flush or a call returns; the scopes of a handler end before it does.
Return ==
  /\ frames # <<>>
  /\ \/ Top.kind = "handler" /\ \A s \in Range(scopes) : s.depth < Len(frames)
     \/ Top.kind = "flush" /\ Top.todo = {}
     \/ Top.kind = "call" /\ Top.i > Len(funcs)
  /\ frames' = Front(frames)
  /\ UNCHANGED <<connections, connected, alive, needs_purging, scopes, funcs, added, cb_owed>>

CbInit ==
  /\ connections = <<>> /\ connected = [x \in {} |-> AnyDetail] /\ alive = {} /\ needs_purging = FALSE
  /\ scopes = <<>> /\ funcs = <<>> /\ frames = <<>> /\ added = 0 /\ cb_owed = {}
CbNext ==
  \/ OnEvent \/ Disconnect \/ DropConnection \/ EmitNotify
  \/ \E d \in Details : CanRun /\ Emit(d)
  \/ NextConnection \/ EmitEnds \/ OpenScope \/ CloseScope \/ FlushNext
  \/ Add \/ Del \/ Call \/ NextCallback \/ Return
CbSpec == CbInit /\ [][CbNext]_cbVars

-----------------------------------------------------------------------------
Rest(list, i) == {list[k] : k \in i..Len(list)}
(* A handler that stays connected during an emission of an event it selects  *)
(* is called exactly once by it, whatever the handlers before it connect,    *)
(* disconnect or emit: what is still to come of the list has not been called *)
(* and misses nobody (EventDispatcher::emit, purge_connections).             *)
EventsDeliveredOnce ==
  \A k \in Emissions :
    LET rest == Rest(connections, frames[k].i)
    IN /\ rest \cap frames[k].got = {}
       /\ frames[k].must \cap DOMAIN connected \cap alive \subseteq frames[k].got \cup rest

(* The same for CallbackList::call, whose iterations are adjusted by del_id  *)
(* instead of deferring the removal.                                         *)
CallbacksCalledOnce ==
  \A k \in Calls :
    LET rest == Rest(funcs, frames[k].i)
    IN /\ rest \cap frames[k].got = {}
       /\ frames[k].must \cap Range(funcs) \subseteq frames[k].got \cup rest

(* A coalesced notification is emitted by the end of its outermost scope,    *)
(* nested scopes and notifications of handlers included (~CoalesceNotifies). *)
NotifiesFlushed ==
  cb_owed \subseteq UNION ({s.notifications : s \in Range(scopes)}
                        \cup {frames[k].todo : k \in {n \in DOMAIN frames : frames[n].kind = "flush"}})
=============================================================================
