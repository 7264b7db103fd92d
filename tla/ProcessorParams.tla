--------------------------- MODULE ProcessorParams ---------------------------
(* Parameters of an AudioProcessor (processor.cc, processor.hh): the main      *)
(* thread sends values in a vector of events that is swapped in and out of     *)
(* t0events_, the engine swaps it out to render a block, and Property handles  *)
(* bridge the delay for the user interface.  Parameters are their indices; a   *)
(* vector is a sequence of events, 0 stands for a null pointer.                *)
EXTENDS Integers, Sequences, SequencesExt

CONSTANTS NProcParams,       \* params_.count
          SentValues,    \* values a client sets
          MaxParamValue,      \* the parameters' range is 0..MaxValue
          MaxParamSets        \* bound: calls of set_value()

ASSUME ProcParamsAssumption ==
  /\ NProcParams \in Nat /\ MaxParamValue \in Nat /\ SentValues \subseteq Int

ParamIndex == 1..NProcParams
INFLIGHT_BLOCKS == 2     \* inflight_stamp_ is this many blocks ahead

VARIABLES t0events,      \* t0events_: <<vector>> or <<>> for a null pointer
          setter,        \* the main thread's set_value(): step, parameter, value, vector
          engine,        \* render_block(): "idle" or the events to apply, in order
          values,        \* params_.values
          dirty,         \* params_.bits
          changed,       \* params_.changed
          notify,        \* PARAMCHANGE is queued
          props,         \* parameters with a live Property
          inflight,      \* per Property: inflight_value_ and blocks until inflight_stamp_
          told,          \* Properties whose listeners were notified and have not read yet
          shown,         \* what the listeners of a Property have read
          sent,          \* the value set last
          sets           \* calls of set_value() so far

paramVars == <<t0events, setter, engine, values, dirty, changed, notify, props, inflight, told, shown, sent, sets>>

ParamEvent(p, v) == [param |-> p, pvalue |-> v]
Constrained(v) == IF v > MaxParamValue THEN MaxParamValue ELSE IF v < 0 THEN 0 ELSE v
NoSetter == [step |-> "idle", param |-> 0, value |-> 0, events |-> <<>>]
NotRendering == [busy |-> FALSE, events |-> <<>>]
NotInflight == [value |-> 0, left |-> 0]
MainIdle == setter.step = "idle"

\* install_params(): every value is sent once, as an event.
ParamInit ==
  /\ t0events = <<[p \in ParamIndex |-> ParamEvent(p, 0)]>>
  /\ setter = NoSetter /\ engine = NotRendering
  /\ values = [p \in ParamIndex |-> 0]
  /\ dirty = {} /\ changed = FALSE /\ notify = FALSE
  /\ props = {} /\ inflight = [p \in ParamIndex |-> NotInflight]
  /\ told = {} /\ shown = [p \in ParamIndex |-> 0]
  /\ sent = [p \in ParamIndex |-> 0] /\ sets = 0

-----------------------------------------------------------------------------
(* The main thread                                                            *)

\* access_properties() creates the handle, its user reads the value.
get_value(p) == IF inflight[p].left > 0 THEN inflight[p].value ELSE values[p]
access_properties(p) ==
  /\ MainIdle /\ p \notin props
  /\ props' = props \cup {p}
  /\ inflight' = [inflight EXCEPT ![p] = NotInflight]
  /\ shown' = [shown EXCEPT ![p] = values[p]]
  /\ UNCHANGED <<t0events, setter, engine, values, dirty, changed, notify, told, sent, sets>>
\* The last reference to the handle goes away.
ReleaseProperty(p) ==
  /\ MainIdle /\ p \in props
  /\ props' = props \ {p} /\ told' = told \ {p}
  /\ UNCHANGED <<t0events, setter, engine, values, dirty, changed, notify, inflight, shown, sent, sets>>
FetchValue(p) ==
  /\ MainIdle /\ p \in told
  /\ shown' = [shown EXCEPT ![p] = get_value(p)]
  /\ told' = told \ {p}
  /\ UNCHANGED <<t0events, setter, engine, values, dirty, changed, notify, props, inflight, sent, sets>>

\* modify_t0events(): the vector is taken, or a new one made.
TakenBlind(q) == <<>>
Taken(q) == IF q = <<>> THEN <<>> ELSE q[1]
\* send_param(): an event of the parameter is reassigned, or one is appended.
Sent(events, p, v) ==
  LET of == {i \in DOMAIN events : events[i].param = p}
      first == CHOOSE i \in of : \A j \in of : i <= j
  IN  IF of = {} THEN Append(events, ParamEvent(p, v)) ELSE [events EXCEPT ![first].pvalue = v]
SetTake(p, v) ==
  /\ MainIdle /\ p \in props /\ sets < MaxParamSets
  /\ sets' = sets + 1
  /\ sent' = [sent EXCEPT ![p] = v]
  /\ setter' = [step |-> "put", param |-> p, value |-> v, events |-> Sent(Taken(t0events), p, Constrained(v))]
  /\ t0events' = <<>>
  /\ UNCHANGED <<engine, values, dirty, changed, notify, props, inflight, told, shown>>
\* The vector is put back; what is there meanwhile is deleted.
SetPut ==
  /\ setter.step = "put"
  /\ t0events' = <<setter.events>>
  /\ setter' = [setter EXCEPT !.step = "stamp", !.events = <<>>]
  /\ UNCHANGED <<engine, values, dirty, changed, notify, props, inflight, told, shown, sent, sets>>
\* set_value() remembers the value while the event is in flight, and notifies.
SetStamp ==
  /\ setter.step = "stamp"
  /\ inflight' = [inflight EXCEPT ![setter.param] = [value |-> setter.value, left |-> INFLIGHT_BLOCKS]]
  /\ told' = told \cup {setter.param}
  /\ setter' = NoSetter
  /\ UNCHANGED <<t0events, engine, values, dirty, changed, notify, props, shown, sent, sets>>

\* enotify_dispatch() reports the dirty parameters that have a Property.
ParamDispatch ==
  /\ MainIdle /\ notify
  /\ notify' = FALSE /\ dirty' = {}
  /\ told' = told \cup (dirty \cap props)
  /\ UNCHANGED <<t0events, setter, engine, values, changed, props, inflight, shown, sent, sets>>

-----------------------------------------------------------------------------
(* The engine thread: render_block()                                          *)

RenderFetch ==
  /\ ~engine.busy
  /\ engine' = [busy |-> TRUE, events |-> Taken(t0events)]
  /\ t0events' = <<>>
  /\ UNCHANGED <<setter, values, dirty, changed, notify, props, inflight, told, shown, sent, sets>>
\* apply_event(): a parameter nobody has a Property of is not marked.
Marked(p) == {p} \cap props
apply_event ==
  /\ engine.busy /\ engine.events # <<>>
  /\ LET ev == Head(engine.events) IN
       /\ values' = [values EXCEPT ![ev.param] = ev.pvalue]
       /\ dirty' = dirty \cup Marked(ev.param)
       /\ changed' = (changed \/ Marked(ev.param) # {})
  /\ engine' = [engine EXCEPT !.events = Tail(@)]
  /\ UNCHANGED <<t0events, setter, notify, props, inflight, told, shown, sent, sets>>
\* The vector is deleted, changes are queued, and the frame counter advances.
RenderDone ==
  /\ engine.busy /\ engine.events = <<>>
  /\ engine' = NotRendering
  /\ notify' = (notify \/ changed) /\ changed' = FALSE
  /\ inflight' = [p \in ParamIndex |-> [inflight[p] EXCEPT !.left = IF @ > 0 THEN @ - 1 ELSE 0]]
  /\ UNCHANGED <<t0events, setter, values, dirty, props, told, shown, sent, sets>>

\* The main loop dispatches, the engine renders block after block.
ParamMain == SetPut \/ SetStamp \/ ParamDispatch \/ (\E p \in ParamIndex : FetchValue(p))
ParamEngine == RenderFetch \/ apply_event \/ RenderDone
ParamNext ==
  \/ SetPut \/ SetStamp \/ ParamDispatch
  \/ \E p \in ParamIndex : FetchValue(p)
  \/ RenderFetch \/ apply_event \/ RenderDone
  \/ \E p \in ParamIndex : access_properties(p) \/ ReleaseProperty(p) \/ \E v \in SentValues : SetTake(p, v)
ParamSpec == ParamInit /\ [][ParamNext]_paramVars /\ WF_paramVars(ParamMain) /\ WF_paramVars(ParamEngine)

-----------------------------------------------------------------------------
(* Properties                                                                 *)

\* The value of a parameter that has the value v, once a vector's events are applied.
After(events, p, v) ==
  LET of == {i \in DOMAIN events : events[i].param = p}
  IN  IF of = {} THEN v ELSE events[CHOOSE i \in of : \A j \in of : j <= i].pvalue

\* The swaps lose nothing: every parameter ends up with the value set last when
\* the engine has applied the events it has taken, those that wait in t0events_
\* and those the main thread is about to put there.
SetsArrive ==
  \A p \in ParamIndex :
    After(setter.events, p, After(Taken(t0events), p, After(engine.events, p, values[p])))
      = Constrained(sent[p])

\* Listeners end up with the parameter's value, however notifications, blocks and
\* reads interleave; only of a value out of range they may keep the one sent.
ShownSettles ==
  <>[](\A p \in props : shown[p] = values[p] \/ (sent[p] # Constrained(sent[p]) /\ shown[p] = sent[p]))
=============================================================================
