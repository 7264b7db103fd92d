--------------------------- MODULE ClapHost_proofs ---------------------------
(***************************************************************************)
(* Theorems about ClapHost for any number of parameters, values, windows   *)
(* and updates under way.                                                  *)
(***************************************************************************)
EXTENDS ClapHost, NatLemmas, TLAPS

Updates == [param : Params, value : Values]
Jobs == [op : {"start", "stop", "insert", "remove"}] \cup [op : {"enqueue"}, event : Updates]

PluginType ==
  /\ lib \in BOOLEAN /\ main \in BOOLEAN /\ processing \in BOOLEAN /\ audio \in BOOLEAN /\ gui \in BOOLEAN
  /\ life \in {"none", "initialized", "active", "destroyed"}
  /\ value \in [Params -> Values]
  /\ gui_windowid \in BOOLEAN /\ gui_visible_ \in BOOLEAN /\ windows \in Int

HandleType ==
  /\ plugin_ \in BOOLEAN /\ plugin_activated \in BOOLEAN /\ param_infos_ \in BOOLEAN
  /\ current_value \in [Params -> Values \cup {NAN}]
  /\ loader_updates_ \in [Params -> Values] \cup {None}
  /\ sources \subseteq Sources
  /\ scan \in Nat /\ slot \in Params
  /\ callbacks \subseteq {"callback", "delete"}
  /\ device \in {"none", "new", "parented", "removing", "gone", "freed"} /\ parent_active \in BOOLEAN
  /\ pc \in {"idle", "create", "load", "insert", "append", "starting", "call", "changed", "read",
             "reset", "trash", "stopping", "destroy", "undefined"}

ProcType ==
  /\ next_value_ \in [Params -> Values \cup {NAN}]
  /\ can_process_ \in BOOLEAN /\ enqueued_events_ \in Seq(Updates) /\ todo \in Seq(Updates)
  /\ bits \subseteq Params /\ lost \subseteq Params
  /\ epc \in {"idle", "process", "store", "bit", "notify"} /\ (epc \in {"store", "bit"} <=> todo # <<>>)
  /\ inserted \in BOOLEAN /\ trash \in BOOLEAN /\ notified \in BOOLEAN
  /\ sem \in BOOLEAN /\ jobs \in Seq(Jobs)

ClapTypeOK == PluginType /\ HandleType /\ ProcType

\* The life of the plugin follows the creation and removal of the device.
LifeInv ==
  /\ device = "none" => ~lib /\ ~param_infos_
  /\ device = "none" \/ pc = "create" => life = "none" /\ ~plugin_
  /\ pc \in {"create", "load", "insert", "append"} => device = "new"
  /\ pc \in {"load", "insert", "create"} => ~param_infos_
  /\ device \in {"gone", "freed"} => ~plugin_
  /\ plugin_ <=> life \in {"initialized", "active"}
  /\ plugin_activated <=> life = "active"
  /\ plugin_activated => parent_active /\ param_infos_
  /\ plugin_ => lib
  /\ pc = "destroy" => ~plugin_activated
  /\ pc \in {"starting", "stopping"} => plugin_activated

\* Whatever calls the plugin, or shows it, is gone when the plugin is.
RefInv ==
  /\ sources # {} => plugin_
  /\ main <=> pc = "call"
  /\ main => plugin_
  /\ gui => plugin_
  /\ gui <=> gui_windowid
  /\ pc \in {"stopping", "destroy"} => ~gui

\* One of clap_activate() and clap_deactivate() is waiting for its job.
WaitInv ==
  /\ can_process_ <=> processing
  /\ processing => plugin_activated
  /\ sem => pc \in {"starting", "stopping"}
  /\ pc = "starting" /\ ~sem => ~processing
  /\ pc = "stopping" /\ sem => ~processing
  /\ audio <=> epc = "process"
  /\ epc # "idle" => can_process_
QueueInv ==
  /\ \A i \in DOMAIN jobs : jobs[i].op = "start" => pc = "starting" /\ ~sem
  /\ \A i \in DOMAIN jobs : jobs[i].op = "stop" => pc = "stopping" /\ ~sem
  /\ \A i, j \in DOMAIN jobs :
       jobs[i].op \in {"start", "stop"} /\ jobs[j].op \in {"start", "stop"} => i = j
HandshakeInv == WaitInv /\ QueueInv

\* The updates of `todo' that are not in next_value_ yet.
Unstored == {i \in DOMAIN todo : epc = "store" \/ i # 1}

\* The host shows the plugin's value of p, or is going to.
Shown(p) ==
  \/ p \in lost
  \/ \E i \in Unstored : todo[i].param = p
  \/ /\ pc = "reset" /\ slot = p
     /\ current_value[p] = value[p]
  \/ /\ ~(pc = "reset" /\ slot = p)
     /\ \/ next_value_[p] = NAN /\ current_value[p] = value[p]
        \/ /\ next_value_[p] = value[p]
           /\ p \in bits \/ (epc = "bit" /\ todo[1].param = p) \/ (pc = "read" /\ slot = p)

\* The last update of a parameter carries the value the plugin has.
TodoInv ==
  \A i \in DOMAIN todo :
    (\A j \in DOMAIN todo : j > i => todo[j].param # todo[i].param)
      => todo[i].value = value[todo[i].param]

ShownInv ==
  /\ pc \in {"read", "reset"} => param_infos_
  /\ pc = "starting" /\ ~sem => \A p \in Params : next_value_[p] = NAN /\ current_value[p] = value[p]
  /\ param_infos_ => \A p \in Params : Shown(p)

ParamInv == TodoInv /\ ShownInv

ClapInv == ClapTypeOK /\ LifeInv /\ RefInv /\ HandshakeInv

-----------------------------------------------------------------------------
LEMMA ParamFacts ==
  /\ \A p \in Params : p \in Nat /\ position(p) \in Params
  /\ \A v \in MinValue - 1..MaxValue + 1 : Clamp(v) \in Values
  /\ \A v \in Values : v # NAN
  /\ 0 \in Params /\ MinValue \in Values
  BY ClapAssumption DEF Params, position, Clamp, Values, NAN

LEMMA JobFacts ==
  /\ \A op \in {"start", "stop", "insert", "remove"} : [op |-> op] \in Jobs
  /\ \A e \in Updates : [op |-> "enqueue", event |-> e] \in Jobs
  /\ \A j \in Jobs : /\ j.op \in {"start", "stop", "insert", "remove", "enqueue"}
                     /\ j.op = "enqueue" => j.event \in Updates
  BY DEF Jobs

LEMMA FlushedType == ClapTypeOK => FlushedValues \in [Params -> Values]
  BY DEF ClapTypeOK, PluginType, HandleType, FlushedValues

LEMMA MinBit == ASSUME NEW S, S \subseteq Params, S # {} PROVE Min(S) \in S
<1>1. PICK n \in S : \A m \in S : n <= m
  BY ParamFacts, LeastNat
<1> QED
  BY <1>1 DEF Min

\* A parameter has the value of the last event for it.
LEMMA Appended == ASSUME NEW S, NEW s \in Seq(S), NEW e \in S PROVE Append(s, e) \in Seq(S)
  OBVIOUS

LEMMA LastEvent ==
  ASSUME NEW events \in Seq(Updates), NEW p \in Params
  PROVE  LET changes == {i \in DOMAIN events : events[i].param = p}
         IN  changes # {} => /\ Max(changes) \in changes
                             /\ \A i \in changes : i <= Max(changes)
<1> DEFINE changes == {i \in DOMAIN events : events[i].param = p}
<1> SUFFICES ASSUME changes # {}
             PROVE  Max(changes) \in changes /\ \A i \in changes : i <= Max(changes)
  OBVIOUS
<1>1. changes \subseteq Nat /\ Len(events) \in Nat /\ \A i \in changes : i <= Len(events)
  OBVIOUS
<1>2. PICK n \in changes : \A m \in changes : m <= n
  BY <1>1, GreatestNat
<1>3. n \in Nat /\ \A m \in changes : m \in Nat /\ n >= m
  BY <1>1, <1>2
<1>4. Max(changes) \in changes /\ \A m \in changes : Max(changes) >= m
  BY <1>3 DEF Max
<1> QED
  BY <1>1, <1>4

LEMMA EventValue ==
  ASSUME NEW events \in Seq(Updates), NEW i \in DOMAIN events
  PROVE  events[i].param \in Params /\ events[i].value \in Values
<1>1. events[i] \in Updates
  OBVIOUS
<1> QED
  BY <1>1 DEF Updates

OutputEvents == {<<>>} \cup {<<[param |-> p, value |-> v]>> : p \in Params, v \in Values}

LEMMA OutputType == \A output \in OutputEvents : output \in Seq(Updates)
<1>1. \A p \in Params, v \in Values : [param |-> p, value |-> v] \in Updates
  BY DEF Updates
<1>2. ASSUME NEW output \in OutputEvents PROVE output = <<>> \/ \E e \in Updates : output = <<e>>
  BY <1>1, <1>2 DEF OutputEvents
<1>3. <<>> \in Seq(Updates) /\ \A e \in Updates : <<e>> \in Seq(Updates)
  OBVIOUS
<1> QED
  BY <1>2, <1>3

LEMMA AfterEventsType ==
  ASSUME NEW values \in [Params -> Values], NEW events \in Seq(Updates)
  PROVE  AfterEvents(values, events) \in [Params -> Values]
  BY LastEvent, EventValue DEF AfterEvents

LEMMA InitInv == ClapInit => ClapTypeOK /\ LifeInv /\ RefInv /\ HandshakeInv /\ ParamInv
<1> SUFFICES ASSUME ClapInit PROVE ClapTypeOK /\ LifeInv /\ RefInv /\ HandshakeInv /\ ParamInv
  OBVIOUS
<1> USE ParamFacts DEF ClapInit
<1>1. PluginType
  BY DEF PluginType
<1>2. HandleType
  BY DEF HandleType
<1>3. ProcType
  BY DEF ProcType
<1>4. LifeInv /\ RefInv
  BY DEF LifeInv, RefInv
<1>5. HandshakeInv
  BY DEF HandshakeInv, WaitInv, QueueInv
<1>6. ParamInv
  BY DEF ParamInv, TodoInv, ShownInv
<1> QED
  BY <1>1, <1>2, <1>3, <1>4, <1>5, <1>6 DEF ClapTypeOK


-----------------------------------------------------------------------------
(* Types                                                                   *)

LEMMA ActivateType ==
  ASSUME ClapTypeOK, NEW continue \in {"append", "idle"}, clap_activate(continue), parent_active' \in BOOLEAN
  PROVE  ClapTypeOK'
<1>1. FlushedValues \in [Params -> Values]
  BY FlushedType
<1> USE ParamFacts DEF ClapTypeOK, plugin, editor, handle, shared, proc, tree, clap_activate
<1>2. PluginType'
  BY <1>1 DEF PluginType
<1>3. HandleType'
  BY <1>1 DEF HandleType
<1>4. ProcType'
  <2>1. jobs' \in Seq(Jobs)
    BY JobFacts DEF ProcType
  <2>2. next_value_' \in [Params -> Values \cup {NAN}]
    OBVIOUS
  <2> QED
    BY <2>1, <2>2 DEF ProcType
<1> QED
  BY <1>2, <1>3, <1>4 DEF ClapTypeOK

LEMMA TypeStep == ClapTypeOK /\ [ClapNext]_clapVars => ClapTypeOK'
<1> SUFFICES ASSUME ClapTypeOK, [ClapNext]_clapVars
             PROVE  ClapTypeOK'
  OBVIOUS
<1> USE DEF ClapTypeOK, plugin, editor, handle, shared, proc, tree
<1>1. CASE OpenLibrary
  <2>1. PluginType'
    BY <1>1 DEF PluginType, OpenLibrary
  <2>2. HandleType'
    BY <1>1 DEF HandleType, OpenLibrary
  <2>3. ProcType'
    BY <1>1 DEF ProcType, OpenLibrary
  <2> QED
    BY <2>1, <2>2, <2>3 DEF ClapTypeOK
<1>2. CASE init_plugin
  <2>1. PluginType'
    BY <1>2 DEF PluginType, init_plugin
  <2>2. HandleType'
    BY <1>2 DEF HandleType, init_plugin
  <2>3. ProcType'
    BY <1>2 DEF ProcType, init_plugin
  <2> QED
    BY <2>1, <2>2, <2>3 DEF ClapTypeOK
<1>3. CASE load_state
  <2>1. PluginType'
    BY <1>3 DEF PluginType, load_state
  <2>2. HandleType'
    BY <1>3 DEF HandleType, load_state
  <2>3. ProcType'
    BY <1>3 DEF ProcType, load_state
  <2> QED
    BY <2>1, <2>2, <2>3 DEF ClapTypeOK
<1>4. CASE ActivateNew
  <2>1. CASE parent_active /\ plugin_
    BY <1>4, <2>1, ActivateType DEF ActivateNew, HandleType
  <2>2. CASE ~(parent_active /\ plugin_)
    <3>1. PluginType'
      BY <1>4, <2>2 DEF ActivateNew, PluginType
    <3>2. HandleType'
      BY <1>4, <2>2 DEF ActivateNew, HandleType
    <3>3. ProcType'
      BY <1>4, <2>2 DEF ActivateNew, ProcType
    <3> QED
      BY <3>1, <3>2, <3>3 DEF ClapTypeOK
  <2> QED
    BY <2>1, <2>2
<1>5. CASE Started
  <2>1. PluginType'
    BY <1>5 DEF PluginType, Started
  <2>2. HandleType'
    BY <1>5 DEF HandleType, Started
  <2>3. ProcType'
    BY <1>5 DEF ProcType, Started
  <2> QED
    BY <2>1, <2>2, <2>3 DEF ClapTypeOK
<1>6. CASE AppendInsertJob
  <2>1. PluginType'
    BY <1>6 DEF PluginType, AppendInsertJob
  <2>2. HandleType'
    BY <1>6 DEF HandleType, AppendInsertJob
  <2>3. ProcType'
    BY <1>6, JobFacts DEF ProcType, AppendInsertJob
  <2> QED
    BY <2>1, <2>2, <2>3 DEF ClapTypeOK
<1>7. CASE ipc_dispatch
  <2>1. PluginType'
    BY <1>7 DEF PluginType, ipc_dispatch
  <2>2. HandleType'
    BY <1>7 DEF HandleType, ipc_dispatch
  <2>3. ProcType'
    BY <1>7 DEF ProcType, ipc_dispatch
  <2> QED
    BY <2>1, <2>2, <2>3 DEF ClapTypeOK
<1>8. CASE ClearBit
  <2>1. PluginType'
    BY <1>8 DEF PluginType, ClearBit
  <2>2. HandleType'
    <3> DEFINE ahead == {i \in bits : i >= scan}
    <3>1. CASE ahead = {}
      BY <1>8, <3>1, ParamFacts DEF HandleType, ClearBit
    <3>2. CASE ahead # {}
      <4>1. Min(ahead) \in Params
        BY <3>2, MinBit DEF ProcType
      <4> QED
        BY <1>8, <3>2, <4>1, ParamFacts DEF HandleType, ClearBit
    <3> QED
      BY <3>1, <3>2
  <2>3. ProcType'
    BY <1>8 DEF ProcType, ClearBit
  <2> QED
    BY <2>1, <2>2, <2>3 DEF ClapTypeOK
<1>9. CASE ReadNext
  <2>1. PluginType'
    BY <1>9 DEF PluginType, ReadNext
  <2>2. HandleType'
    <3>1. current_value' \in [Params -> Values \cup {NAN}]
      BY <1>9 DEF HandleType, ProcType, ReadNext
    <3> QED
      BY <1>9, <3>1 DEF HandleType, ReadNext
  <2>3. ProcType'
    BY <1>9 DEF ProcType, ReadNext
  <2> QED
    BY <2>1, <2>2, <2>3 DEF ClapTypeOK
<1>10. CASE ResetNext
  <2>1. PluginType'
    BY <1>10 DEF PluginType, ResetNext
  <2>2. HandleType'
    BY <1>10 DEF HandleType, ResetNext
  <2>3. ProcType'
    BY <1>10 DEF ProcType, ResetNext
  <2> QED
    BY <2>1, <2>2, <2>3 DEF ClapTypeOK
<1>11. CASE DeleteJobs
  <2>1. PluginType'
    <3>1. CASE trash
      <4>1. windows' \in Int
        BY <1>11, <3>1 DEF PluginType, DeleteJobs, destroy_gui
      <4>2. gui' \in BOOLEAN /\ gui_windowid' \in BOOLEAN /\ gui_visible_' \in BOOLEAN
        BY <1>11, <3>1 DEF PluginType, DeleteJobs, destroy_gui
      <4> QED
        BY <1>11, <3>1, <4>1, <4>2 DEF PluginType, DeleteJobs, destroy_gui
    <3>2. CASE ~trash
      BY <1>11, <3>2 DEF PluginType, DeleteJobs
    <3> QED
      BY <3>1, <3>2
  <2>2. HandleType'
    BY <1>11 DEF HandleType, DeleteJobs, destroy_gui
  <2>3. ProcType'
    <3>1. jobs' \in Seq(Jobs)
      <4>1. jobs' = jobs \/ jobs' = Append(jobs, [op |-> "stop"])
        BY <1>11 DEF DeleteJobs
      <4>2. [op |-> "stop"] \in Jobs
        BY JobFacts
      <4> QED
        BY <4>1, <4>2, Appended DEF ProcType
    <3> QED
      BY <1>11, <3>1 DEF ProcType, DeleteJobs
  <2> QED
    BY <2>1, <2>2, <2>3 DEF ClapTypeOK
<1>12. CASE clap_deactivate
  <2>1. PluginType'
    BY <1>12 DEF PluginType, clap_deactivate
  <2>2. HandleType'
    BY <1>12 DEF HandleType, clap_deactivate
  <2>3. ProcType'
    BY <1>12 DEF ProcType, clap_deactivate
  <2> QED
    BY <2>1, <2>2, <2>3 DEF ClapTypeOK
<1>13. CASE destroy
  <2>1. PluginType'
    BY <1>13, ParamFacts DEF PluginType, destroy, UnregisterAll
  <2>2. HandleType'
    BY <1>13, ParamFacts DEF HandleType, destroy, UnregisterAll
  <2>3. ProcType'
    BY <1>13, ParamFacts DEF ProcType, destroy, UnregisterAll
  <2> QED
    BY <2>1, <2>2, <2>3 DEF ClapTypeOK
<1>14. CASE MainThreadReturn
  <2>1. PluginType'
    BY <1>14 DEF PluginType, MainThreadReturn
  <2>2. HandleType'
    BY <1>14 DEF HandleType, MainThreadReturn
  <2>3. ProcType'
    BY <1>14 DEF ProcType, MainThreadReturn
  <2> QED
    BY <2>1, <2>2, <2>3 DEF ClapTypeOK
<1>15. CASE EngineJob
  <2>1. PluginType'
    <3>1. Head(jobs).op \in {"start", "stop", "insert", "remove", "enqueue"}
      BY <1>15, JobFacts DEF EngineJob, ProcType
    <3> QED
      BY <1>15, <3>1
      DEF PluginType, EngineJob, start_processing, stop_processing, enqueue_events, ComboJob
  <2>2. HandleType'
    BY <1>15 DEF HandleType, EngineJob, start_processing, stop_processing, enqueue_events, ComboJob
  <2>3. ProcType'
    <3>1. /\ Head(jobs).op \in {"start", "stop", "insert", "remove", "enqueue"}
          /\ Head(jobs).op = "enqueue" => Head(jobs).event \in Updates
      BY <1>15, JobFacts DEF EngineJob, ProcType
    <3>2. jobs' \in Seq(Jobs)
      BY <1>15 DEF EngineJob, ProcType
    <3>3. enqueued_events_' \in Seq(Updates)
      <4>1. CASE Head(jobs).op = "enqueue"
        BY <1>15, <3>1, <4>1, Appended DEF ProcType, EngineJob, enqueue_events
      <4>2. CASE Head(jobs).op # "enqueue"
        BY <1>15, <3>1, <4>2
        DEF ProcType, EngineJob, start_processing, stop_processing, enqueue_events, ComboJob
      <4> QED
        BY <4>1, <4>2
    <3>4. bits' \subseteq Params
      BY <1>15, <3>1 DEF ProcType, EngineJob, start_processing, stop_processing, enqueue_events, ComboJob
    <3>7. sem' \in BOOLEAN
      BY <1>15, <3>1 DEF ProcType, EngineJob, start_processing, stop_processing, enqueue_events, ComboJob
    <3>8. can_process_' \in BOOLEAN
      BY <1>15, <3>1 DEF ProcType, EngineJob, start_processing, stop_processing, enqueue_events, ComboJob
    <3>5. inserted' \in BOOLEAN /\ trash' \in BOOLEAN
      BY <1>15, <3>1 DEF ProcType, EngineJob, start_processing, stop_processing, enqueue_events, ComboJob
    <3>6. UNCHANGED <<next_value_, lost, notified, todo, epc>>
      BY <1>15 DEF EngineJob
    <3> QED
      BY <3>2, <3>3, <3>4, <3>5, <3>6, <3>7, <3>8 DEF ProcType
  <2> QED
    BY <2>1, <2>2, <2>3 DEF ClapTypeOK
<1>16. CASE render
  <2>1. PluginType'
    BY <1>16 DEF PluginType, render
  <2>2. HandleType'
    BY <1>16 DEF HandleType, render
  <2>3. ProcType'
    BY <1>16 DEF ProcType, render
  <2> QED
    BY <2>1, <2>2, <2>3 DEF ClapTypeOK
<1>17. CASE process
  <2>2. enqueued_events_ \in Seq(Updates)
    BY DEF ProcType
  <2>1. PICK output \in Seq(Updates) :
          /\ value' = AfterEvents(AfterEvents(value, enqueued_events_), output)
          /\ todo' = enqueued_events_ \o output
    BY <1>17, OutputType DEF process, AppliedEvents, OutputEvents
  <2>3. value' \in [Params -> Values]
    BY <2>1, <2>2, AfterEventsType DEF PluginType
  <2>4. todo' \in Seq(Updates)
    BY <2>1, <2>2
  <2>a. /\ UNCHANGED <<lib, life, main, processing, gui, editor, handle, shared, can_process_, inserted, trash,
                       tree, current_value, pc, sem, scan, slot, jobs, callbacks>>
        /\ audio' = FALSE
    BY <1>17 DEF process
  <2>c. /\ enqueued_events_' = <<>>
        /\ epc' = IF todo' = <<>> THEN "idle" ELSE "store"
    BY <1>17 DEF process
  <2>5. PluginType'
    BY <2>a, <2>3 DEF PluginType
  <2>b. HandleType'
    BY <2>a DEF HandleType
  <2>6. ProcType'
    BY <2>a, <2>c, <2>4 DEF ProcType
  <2> QED
    BY <2>5, <2>b, <2>6 DEF ClapTypeOK
<1>18. CASE StoreNext
  <2>1. PluginType'
    BY <1>18 DEF PluginType, StoreNext
  <2>2. HandleType'
    BY <1>18 DEF HandleType, StoreNext
  <2>3. ProcType'
    <3>1. todo # <<>> => Head(todo).param \in Params /\ Head(todo).value \in Values
      BY EventValue DEF ProcType
    <3>2. next_value_' \in [Params -> Values \cup {NAN}]
      BY <1>18, <3>1 DEF ProcType, StoreNext
    <3>3. lost' \subseteq Params
      BY <1>18, <3>1 DEF ProcType, StoreNext, HandleType
    <3>4. /\ UNCHANGED <<bits, notified, can_process_, enqueued_events_, todo, inserted, trash, sem, jobs>>
          /\ epc' = "bit" /\ epc = "store"
      BY <1>18 DEF StoreNext
    <3> QED
      BY <3>2, <3>3, <3>4 DEF ProcType
  <2> QED
    BY <2>1, <2>2, <2>3 DEF ClapTypeOK
<1>19. CASE SetBit
  <2>1. PluginType'
    BY <1>19 DEF PluginType, SetBit
  <2>2. HandleType'
    BY <1>19 DEF HandleType, SetBit
  <2>3. ProcType'
    <3>1. todo # <<>> => Head(todo).param \in Params /\ Tail(todo) \in Seq(Updates)
      BY EventValue DEF ProcType
    <3>2. todo # <<>>
      BY <1>19 DEF ProcType, SetBit
    <3>3. bits' \subseteq Params /\ todo' \in Seq(Updates)
      BY <1>19, <3>1, <3>2, EventValue DEF ProcType, SetBit
    <3>4. /\ UNCHANGED <<next_value_, lost, notified, can_process_, enqueued_events_, inserted, trash, sem, jobs>>
      BY <1>19 DEF SetBit
    <3>5. epc' = IF todo' = <<>> THEN "notify" ELSE "store"
      BY <1>19 DEF SetBit
    <3> QED
      BY <3>3, <3>4, <3>5 DEF ProcType
  <2> QED
    BY <2>1, <2>2, <2>3 DEF ClapTypeOK
<1>20. CASE enotify_enqueue_mt
  <2>1. PluginType'
    BY <1>20 DEF PluginType, enotify_enqueue_mt
  <2>2. HandleType'
    BY <1>20 DEF HandleType, enotify_enqueue_mt
  <2>3. ProcType'
    BY <1>20 DEF ProcType, enotify_enqueue_mt
  <2> QED
    BY <2>1, <2>2, <2>3 DEF ClapTypeOK
<1>21. CASE ActivateParent
  <2>1. CASE device = "parented" /\ plugin_
    BY <1>21, <2>1, ActivateType DEF ActivateParent, HandleType
  <2>2. CASE ~(device = "parented" /\ plugin_)
    <3>1. PluginType'
      BY <1>21, <2>2 DEF ActivateParent, PluginType
    <3>2. HandleType'
      BY <1>21, <2>2 DEF ActivateParent, HandleType
    <3>3. ProcType'
      BY <1>21, <2>2 DEF ActivateParent, ProcType
    <3> QED
      BY <3>1, <3>2, <3>3 DEF ClapTypeOK
  <2> QED
    BY <2>1, <2>2
<1>22. CASE remove_clap_device
  <2>1. PluginType'
    BY <1>22 DEF PluginType, remove_clap_device
  <2>2. HandleType'
    BY <1>22 DEF HandleType, remove_clap_device
  <2>3. ProcType'
    BY <1>22, JobFacts DEF ProcType, remove_clap_device
  <2> QED
    BY <2>1, <2>2, <2>3 DEF ClapTypeOK
<1>23. CASE param_set_value
  <2>1. PluginType'
    BY <1>23 DEF PluginType, param_set_value
  <2>2. HandleType'
    BY <1>23 DEF HandleType, param_set_value
  <2>3. ProcType'
    BY <1>23, JobFacts, ParamFacts DEF ProcType, param_set_value, Updates
  <2> QED
    BY <2>1, <2>2, <2>3 DEF ClapTypeOK
<1>24. CASE show_gui
  <2>1. PluginType'
    <3>1. windows' \in Int
      BY <1>24 DEF PluginType, show_gui
    <3>2. gui' \in BOOLEAN /\ gui_windowid' \in BOOLEAN /\ gui_visible_' \in BOOLEAN
      BY <1>24 DEF PluginType, show_gui
    <3> QED
      BY <1>24, <3>1, <3>2 DEF PluginType, show_gui
  <2>2. HandleType'
    BY <1>24 DEF HandleType, show_gui
  <2>3. ProcType'
    BY <1>24 DEF ProcType, show_gui
  <2> QED
    BY <2>1, <2>2, <2>3 DEF ClapTypeOK
<1>25. CASE hide_gui
  <2>1. PluginType'
    BY <1>25 DEF PluginType, hide_gui
  <2>2. HandleType'
    BY <1>25 DEF HandleType, hide_gui
  <2>3. ProcType'
    BY <1>25 DEF ProcType, hide_gui
  <2> QED
    BY <2>1, <2>2, <2>3 DEF ClapTypeOK
<1>26. CASE host_gui_closed
  <2>1. PluginType'
    BY <1>26 DEF PluginType, host_gui_closed
  <2>2. HandleType'
    BY <1>26 DEF HandleType, host_gui_closed
  <2>3. ProcType'
    BY <1>26 DEF ProcType, host_gui_closed
  <2> QED
    BY <2>1, <2>2, <2>3 DEF ClapTypeOK
<1>27. CASE host_register_source
  <2>1. PluginType'
    BY <1>27 DEF PluginType, host_register_source
  <2>2. HandleType'
    BY <1>27 DEF HandleType, host_register_source
  <2>3. ProcType'
    BY <1>27 DEF ProcType, host_register_source
  <2> QED
    BY <2>1, <2>2, <2>3 DEF ClapTypeOK
<1>28. CASE RequestCallback
  <2>1. PluginType'
    BY <1>28 DEF PluginType, RequestCallback
  <2>2. HandleType'
    BY <1>28 DEF HandleType, RequestCallback
  <2>3. ProcType'
    BY <1>28 DEF ProcType, RequestCallback
  <2> QED
    BY <2>1, <2>2, <2>3 DEF ClapTypeOK
<1>29. CASE MainThreadCall
  <2>1. PluginType'
    BY <1>29 DEF PluginType, MainThreadCall, CallsPlugin
  <2>2. HandleType'
    BY <1>29 DEF HandleType, MainThreadCall, CallsPlugin
  <2>3. ProcType'
    BY <1>29 DEF ProcType, MainThreadCall, CallsPlugin
  <2> QED
    BY <2>1, <2>2, <2>3 DEF ClapTypeOK
<1>30. CASE host_gui_delete_request
  <2>1. PluginType'
    <3>1. windows' \in Int
      BY <1>30 DEF PluginType, host_gui_delete_request, destroy_gui
    <3>2. gui' \in BOOLEAN /\ gui_windowid' \in BOOLEAN /\ gui_visible_' \in BOOLEAN
      BY <1>30 DEF PluginType, host_gui_delete_request, destroy_gui
    <3> QED
      BY <1>30, <3>1, <3>2 DEF PluginType, host_gui_delete_request, destroy_gui
  <2>2. HandleType'
    BY <1>30 DEF HandleType, host_gui_delete_request, destroy_gui
  <2>3. ProcType'
    BY <1>30 DEF ProcType, host_gui_delete_request, destroy_gui
  <2> QED
    BY <2>1, <2>2, <2>3 DEF ClapTypeOK
<1>31. CASE FreeHandle
  <2>1. PluginType'
    BY <1>31 DEF PluginType, FreeHandle
  <2>2. HandleType'
    BY <1>31 DEF HandleType, FreeHandle
  <2>3. ProcType'
    BY <1>31 DEF ProcType, FreeHandle
  <2> QED
    BY <2>1, <2>2, <2>3 DEF ClapTypeOK
<1>32. CASE UNCHANGED clapVars
  BY <1>32 DEF clapVars, PluginType, HandleType, ProcType
<1> HIDE DEF ClapTypeOK
<1> QED
  BY <1>1, <1>2, <1>3, <1>4, <1>5, <1>6, <1>7, <1>8, <1>9, <1>10, <1>11, <1>12, <1>13, <1>14, <1>15,
     <1>16, <1>17, <1>18, <1>19, <1>20, <1>21, <1>22, <1>23, <1>24, <1>25, <1>26, <1>27, <1>28, <1>29,
     <1>30, <1>31, <1>32
  DEF ClapNext, Creation, Dispatch, Engine

-----------------------------------------------------------------------------
(* The life of the plugin, what refers to it, and waiting for the engine   *)

LEMMA LifeStep == ClapInv /\ [ClapNext]_clapVars => LifeInv'
<1> SUFFICES ASSUME ClapTypeOK, LifeInv, RefInv, HandshakeInv, [ClapNext]_clapVars
             PROVE  LifeInv'
  BY DEF ClapInv
<1> USE DEF ClapTypeOK, PluginType, HandleType, LifeInv, plugin, editor, handle, shared, proc, tree
<1>1. CASE OpenLibrary
  BY <1>1 DEF OpenLibrary
<1>2. CASE init_plugin
  BY <1>2 DEF init_plugin
<1>3. CASE load_state
  BY <1>3 DEF load_state
<1>4. CASE ActivateNew
  BY <1>4 DEF ActivateNew, clap_activate, FlushedValues
<1>5. CASE Started
  BY <1>5 DEF Started
<1>6. CASE AppendInsertJob
  BY <1>6 DEF AppendInsertJob
<1>7. CASE ipc_dispatch
  <2>1. pc = "idle" /\ pc' \in {"changed", "trash"}
    BY <1>7 DEF ipc_dispatch
  <2>2. UNCHANGED <<plugin, handle, tree>>
    BY <1>7 DEF ipc_dispatch
  <2> QED
    BY <2>1, <2>2
<1>8. CASE ClearBit
  BY <1>8 DEF ClearBit
<1>9. CASE ReadNext
  BY <1>9 DEF ReadNext
<1>10. CASE ResetNext
  BY <1>10 DEF ResetNext
<1>11. CASE DeleteJobs
  BY <1>11 DEF DeleteJobs, destroy_gui
<1>12. CASE clap_deactivate
  BY <1>12 DEF clap_deactivate
<1>13. CASE destroy
  BY <1>13 DEF destroy, UnregisterAll
<1>14. CASE MainThreadReturn
  BY <1>14 DEF MainThreadReturn
<1>15. CASE EngineJob
  BY <1>15 DEF EngineJob, start_processing, stop_processing, enqueue_events, ComboJob
<1>16. CASE render
  BY <1>16 DEF render
<1>17. CASE process
  BY <1>17 DEF process, AppliedEvents
<1>18. CASE StoreNext
  BY <1>18 DEF StoreNext
<1>19. CASE SetBit
  BY <1>19 DEF SetBit
<1>20. CASE enotify_enqueue_mt
  BY <1>20 DEF enotify_enqueue_mt
<1>21. CASE ActivateParent
  BY <1>21 DEF ActivateParent, clap_activate, FlushedValues
<1>22. CASE remove_clap_device
  BY <1>22 DEF remove_clap_device
<1>23. CASE param_set_value
  BY <1>23 DEF param_set_value
<1>24. CASE show_gui
  BY <1>24 DEF show_gui
<1>25. CASE hide_gui
  BY <1>25 DEF hide_gui
<1>26. CASE host_gui_closed
  BY <1>26 DEF host_gui_closed
<1>27. CASE host_register_source
  BY <1>27 DEF host_register_source
<1>28. CASE RequestCallback
  BY <1>28 DEF RequestCallback
<1>29. CASE MainThreadCall
  <2>1. pc = "idle" /\ pc' \in {"idle", "call"}
    BY <1>29 DEF MainThreadCall
  <2>2. UNCHANGED <<lib, life, handle, tree>>
    BY <1>29 DEF MainThreadCall
  <2> QED
    BY <2>1, <2>2
<1>30. CASE host_gui_delete_request
  BY <1>30 DEF host_gui_delete_request, destroy_gui
<1>31. CASE FreeHandle
  BY <1>31 DEF FreeHandle
<1>32. CASE UNCHANGED clapVars
  BY <1>32 DEF clapVars
<1> HIDE DEF ClapTypeOK, HandshakeInv, LifeInv, RefInv
<1> QED
  BY <1>1, <1>2, <1>3, <1>4, <1>5, <1>6, <1>7, <1>8, <1>9, <1>10, <1>11, <1>12, <1>13, <1>14, <1>15,
     <1>16, <1>17, <1>18, <1>19, <1>20, <1>21, <1>22, <1>23, <1>24, <1>25, <1>26, <1>27, <1>28, <1>29,
     <1>30, <1>31, <1>32
  DEF ClapNext, Creation, Dispatch, Engine

LEMMA RefStep == ClapInv /\ [ClapNext]_clapVars => RefInv'
<1> SUFFICES ASSUME ClapTypeOK, LifeInv, RefInv, HandshakeInv, [ClapNext]_clapVars
             PROVE  RefInv'
  BY DEF ClapInv
<1> USE DEF ClapTypeOK, PluginType, HandleType, ProcType, RefInv, LifeInv, plugin, editor, handle,
    shared, proc, tree
<1>1. CASE OpenLibrary
  BY <1>1 DEF OpenLibrary
<1>2. CASE init_plugin
  BY <1>2 DEF init_plugin
<1>3. CASE load_state
  BY <1>3 DEF load_state
<1>4. CASE ActivateNew
  BY <1>4 DEF ActivateNew, clap_activate, FlushedValues
<1>5. CASE Started
  BY <1>5 DEF Started
<1>6. CASE AppendInsertJob
  BY <1>6 DEF AppendInsertJob
<1>7. CASE ipc_dispatch
  BY <1>7 DEF ipc_dispatch
<1>8. CASE ClearBit
  BY <1>8 DEF ClearBit
<1>9. CASE ReadNext
  BY <1>9 DEF ReadNext
<1>10. CASE ResetNext
  BY <1>10 DEF ResetNext
<1>11. CASE DeleteJobs
  BY <1>11 DEF DeleteJobs, destroy_gui
<1>12. CASE clap_deactivate
  BY <1>12 DEF clap_deactivate
<1>13. CASE destroy
  BY <1>13 DEF destroy, UnregisterAll
<1>14. CASE MainThreadReturn
  BY <1>14 DEF MainThreadReturn
<1>15. CASE EngineJob
  BY <1>15 DEF EngineJob, start_processing, stop_processing, enqueue_events, ComboJob
<1>16. CASE render
  BY <1>16 DEF render
<1>17. CASE process
  BY <1>17 DEF process, AppliedEvents
<1>18. CASE StoreNext
  BY <1>18 DEF StoreNext
<1>19. CASE SetBit
  BY <1>19 DEF SetBit
<1>20. CASE enotify_enqueue_mt
  BY <1>20 DEF enotify_enqueue_mt
<1>21. CASE ActivateParent
  BY <1>21 DEF ActivateParent, clap_activate, FlushedValues
<1>22. CASE remove_clap_device
  BY <1>22 DEF remove_clap_device
<1>23. CASE param_set_value
  BY <1>23 DEF param_set_value
<1>24. CASE show_gui
  BY <1>24 DEF show_gui
<1>25. CASE hide_gui
  BY <1>25 DEF hide_gui
<1>26. CASE host_gui_closed
  BY <1>26 DEF host_gui_closed
<1>27. CASE host_register_source
  BY <1>27 DEF host_register_source
<1>28. CASE RequestCallback
  BY <1>28 DEF RequestCallback
<1>29. CASE MainThreadCall
  BY <1>29 DEF MainThreadCall, CallsPlugin
<1>30. CASE host_gui_delete_request
  BY <1>30 DEF host_gui_delete_request, destroy_gui
<1>31. CASE FreeHandle
  BY <1>31 DEF FreeHandle
<1>32. CASE UNCHANGED clapVars
  BY <1>32 DEF clapVars
<1> HIDE DEF ClapTypeOK, HandshakeInv, LifeInv, RefInv
<1> QED
  BY <1>1, <1>2, <1>3, <1>4, <1>5, <1>6, <1>7, <1>8, <1>9, <1>10, <1>11, <1>12, <1>13, <1>14, <1>15,
     <1>16, <1>17, <1>18, <1>19, <1>20, <1>21, <1>22, <1>23, <1>24, <1>25, <1>26, <1>27, <1>28, <1>29,
     <1>30, <1>31, <1>32
  DEF ClapNext, Creation, Dispatch, Engine

LEMMA WaitStep == ClapInv /\ [ClapNext]_clapVars => WaitInv'
<1> SUFFICES ASSUME ClapTypeOK, LifeInv, RefInv, HandshakeInv, [ClapNext]_clapVars
             PROVE  WaitInv'
  BY DEF ClapInv
<1> USE DEF HandshakeInv, WaitInv, LifeInv, ClapTypeOK, PluginType, HandleType, ProcType, plugin,
    editor, handle, shared, proc, tree
<1>1. CASE OpenLibrary
  BY <1>1 DEF OpenLibrary
<1>2. CASE init_plugin
  BY <1>2 DEF init_plugin
<1>3. CASE load_state
  BY <1>3 DEF load_state
<1>4. CASE ActivateNew
  BY <1>4 DEF ActivateNew, clap_activate, FlushedValues
<1>5. CASE Started
  BY <1>5 DEF Started
<1>6. CASE AppendInsertJob
  BY <1>6 DEF AppendInsertJob
<1>7. CASE ipc_dispatch
  BY <1>7 DEF ipc_dispatch
<1>8. CASE ClearBit
  BY <1>8 DEF ClearBit
<1>9. CASE ReadNext
  BY <1>9 DEF ReadNext
<1>10. CASE ResetNext
  BY <1>10 DEF ResetNext
<1>11. CASE DeleteJobs
  BY <1>11 DEF DeleteJobs, destroy_gui
<1>12. CASE clap_deactivate
  BY <1>12 DEF clap_deactivate
<1>13. CASE destroy
  BY <1>13 DEF destroy, UnregisterAll
<1>14. CASE MainThreadReturn
  BY <1>14 DEF MainThreadReturn
<1>15. CASE EngineJob
  <2>1. /\ jobs # <<>> /\ Head(jobs) = jobs[1] /\ 1 \in DOMAIN jobs
        /\ Head(jobs).op \in {"start", "stop", "insert", "remove", "enqueue"}
    BY <1>15, JobFacts DEF EngineJob, ProcType
  <2>2. CASE Head(jobs).op = "start"
    BY <1>15, <2>1, <2>2 DEF EngineJob, start_processing, QueueInv
  <2>3. CASE Head(jobs).op = "stop"
    BY <1>15, <2>1, <2>3 DEF EngineJob, stop_processing, QueueInv
  <2>4. CASE Head(jobs).op \in {"insert", "remove", "enqueue"}
    BY <1>15, <2>1, <2>4 DEF EngineJob, ComboJob, enqueue_events
  <2> QED
    BY <2>1, <2>2, <2>3, <2>4
<1>16. CASE render
  BY <1>16 DEF render
<1>17. CASE process
  BY <1>17 DEF process, AppliedEvents
<1>18. CASE StoreNext
  BY <1>18 DEF StoreNext
<1>19. CASE SetBit
  BY <1>19 DEF SetBit
<1>20. CASE enotify_enqueue_mt
  BY <1>20 DEF enotify_enqueue_mt
<1>21. CASE ActivateParent
  BY <1>21 DEF ActivateParent, clap_activate, FlushedValues
<1>22. CASE remove_clap_device
  BY <1>22 DEF remove_clap_device
<1>23. CASE param_set_value
  BY <1>23 DEF param_set_value
<1>24. CASE show_gui
  BY <1>24 DEF show_gui
<1>25. CASE hide_gui
  BY <1>25 DEF hide_gui
<1>26. CASE host_gui_closed
  BY <1>26 DEF host_gui_closed
<1>27. CASE host_register_source
  BY <1>27 DEF host_register_source
<1>28. CASE RequestCallback
  BY <1>28 DEF RequestCallback
<1>29. CASE MainThreadCall
  BY <1>29 DEF MainThreadCall, CallsPlugin
<1>30. CASE host_gui_delete_request
  BY <1>30 DEF host_gui_delete_request, destroy_gui
<1>31. CASE FreeHandle
  BY <1>31 DEF FreeHandle
<1>32. CASE UNCHANGED clapVars
  BY <1>32 DEF clapVars
<1> HIDE DEF ClapTypeOK, HandshakeInv, LifeInv, RefInv
<1> QED
  BY <1>1, <1>2, <1>3, <1>4, <1>5, <1>6, <1>7, <1>8, <1>9, <1>10, <1>11, <1>12, <1>13, <1>14, <1>15,
     <1>16, <1>17, <1>18, <1>19, <1>20, <1>21, <1>22, <1>23, <1>24, <1>25, <1>26, <1>27, <1>28, <1>29,
     <1>30, <1>31, <1>32
  DEF ClapNext, Creation, Dispatch, Engine

LEMMA AppendedJob ==
  ASSUME jobs \in Seq(Jobs), NEW j \in Jobs, jobs' = Append(jobs, j)
  PROVE  /\ DOMAIN jobs' = 1..Len(jobs) + 1 /\ Len(jobs) \in Nat
         /\ DOMAIN jobs = 1..Len(jobs)
         /\ jobs'[Len(jobs) + 1] = j
         /\ \A i \in DOMAIN jobs : i \in DOMAIN jobs' /\ jobs'[i] = jobs[i]
  OBVIOUS

LEMMA TakenJob ==
  ASSUME jobs \in Seq(Jobs), jobs # <<>>, jobs' = Tail(jobs)
  PROVE  \A i \in DOMAIN jobs' : i \in Nat /\ i + 1 \in DOMAIN jobs /\ jobs'[i] = jobs[i + 1]
  OBVIOUS

LEMMA QueueStep == ClapInv /\ [ClapNext]_clapVars => QueueInv'
<1> SUFFICES ASSUME ClapTypeOK, LifeInv, RefInv, HandshakeInv, [ClapNext]_clapVars
             PROVE  QueueInv'
  BY DEF ClapInv
<1> USE DEF HandshakeInv, QueueInv, plugin, editor, handle, shared, proc, tree
<1>1. CASE OpenLibrary
  BY <1>1 DEF OpenLibrary
<1>2. CASE init_plugin
  BY <1>2 DEF init_plugin
<1>3. CASE load_state
  BY <1>3 DEF load_state
<1>4. CASE ActivateNew
  <2>1. pc = "insert" /\ ~sem /\ UNCHANGED sem
    BY <1>4 DEF ActivateNew, clap_activate, WaitInv
  <2>2. jobs' = jobs \/ (jobs' = Append(jobs, [op |-> "start"]) /\ pc' = "starting")
    BY <1>4 DEF ActivateNew, clap_activate
  <2>3. jobs \in Seq(Jobs) /\ [op |-> "start"] \in Jobs
    BY JobFacts DEF ClapTypeOK, ProcType
  <2>4. CASE jobs' = jobs
    BY <2>1, <2>4
  <2>5. CASE jobs' = Append(jobs, [op |-> "start"]) /\ pc' = "starting"
    BY <2>1, <2>3, <2>5, AppendedJob
  <2> QED
    BY <2>2, <2>4, <2>5
<1>5. CASE Started
  BY <1>5 DEF Started
<1>6. CASE AppendInsertJob
  <2>1. jobs' = Append(jobs, [op |-> "insert"]) /\ pc = "append" /\ ~sem /\ UNCHANGED sem
    BY <1>6 DEF AppendInsertJob, WaitInv
  <2>2. jobs \in Seq(Jobs) /\ [op |-> "insert"] \in Jobs
    BY JobFacts DEF ClapTypeOK, ProcType
  <2> QED
    BY <2>1, <2>2, AppendedJob
<1>7. CASE ipc_dispatch
  BY <1>7 DEF ipc_dispatch
<1>8. CASE ClearBit
  BY <1>8 DEF ClearBit
<1>9. CASE ReadNext
  BY <1>9 DEF ReadNext
<1>10. CASE ResetNext
  BY <1>10 DEF ResetNext
<1>11. CASE DeleteJobs
  <2>1. pc = "trash" /\ ~sem /\ UNCHANGED sem
    BY <1>11 DEF DeleteJobs, WaitInv
  <2>2. jobs' = jobs \/ (jobs' = Append(jobs, [op |-> "stop"]) /\ pc' = "stopping")
    BY <1>11 DEF DeleteJobs
  <2>3. jobs \in Seq(Jobs) /\ [op |-> "stop"] \in Jobs
    BY JobFacts DEF ClapTypeOK, ProcType
  <2>4. CASE jobs' = jobs
    BY <2>1, <2>4
  <2>5. CASE jobs' = Append(jobs, [op |-> "stop"]) /\ pc' = "stopping"
    BY <2>1, <2>3, <2>5, AppendedJob
  <2> QED
    BY <2>2, <2>4, <2>5
<1>12. CASE clap_deactivate
  BY <1>12 DEF clap_deactivate
<1>13. CASE destroy
  BY <1>13 DEF destroy, UnregisterAll
<1>14. CASE MainThreadReturn
  BY <1>14 DEF MainThreadReturn
<1>15. CASE EngineJob
  <2>1. /\ jobs # <<>> /\ Head(jobs) = jobs[1] /\ jobs' = Tail(jobs) /\ 1 \in DOMAIN jobs
        /\ jobs \in Seq(Jobs) /\ UNCHANGED pc
        /\ Head(jobs).op \in {"start", "stop", "insert", "remove", "enqueue"}
    BY <1>15, JobFacts DEF EngineJob, ClapTypeOK, ProcType
  <2>2. \A i \in DOMAIN jobs' : i \in Nat /\ i + 1 \in DOMAIN jobs /\ jobs'[i] = jobs[i + 1]
    BY <2>1, TakenJob
  <2>3. CASE jobs[1].op \in {"start", "stop"}
    <3>1. \A i \in DOMAIN jobs' : jobs'[i].op \notin {"start", "stop"}
      BY <2>1, <2>2, <2>3
    <3> QED
      BY <3>1
  <2>4. CASE jobs[1].op \notin {"start", "stop"}
    <3>1. UNCHANGED sem
      BY <1>15, <2>1, <2>4 DEF EngineJob, enqueue_events, ComboJob
    <3> QED
      BY <2>1, <2>2, <3>1
  <2> QED
    BY <2>3, <2>4
<1>16. CASE render
  BY <1>16 DEF render
<1>17. CASE process
  BY <1>17 DEF process, AppliedEvents
<1>18. CASE StoreNext
  BY <1>18 DEF StoreNext
<1>19. CASE SetBit
  BY <1>19 DEF SetBit
<1>20. CASE enotify_enqueue_mt
  BY <1>20 DEF enotify_enqueue_mt
<1>21. CASE ActivateParent
  <2>1. pc = "idle" /\ ~sem /\ UNCHANGED sem
    BY <1>21 DEF ActivateParent, clap_activate, WaitInv
  <2>2. jobs' = jobs \/ (jobs' = Append(jobs, [op |-> "start"]) /\ pc' = "starting")
    BY <1>21 DEF ActivateParent, clap_activate
  <2>3. jobs \in Seq(Jobs) /\ [op |-> "start"] \in Jobs
    BY JobFacts DEF ClapTypeOK, ProcType
  <2>4. CASE jobs' = jobs
    BY <2>1, <2>4
  <2>5. CASE jobs' = Append(jobs, [op |-> "start"]) /\ pc' = "starting"
    BY <2>1, <2>3, <2>5, AppendedJob
  <2> QED
    BY <2>2, <2>4, <2>5
<1>22. CASE remove_clap_device
  <2>1. PICK j \in Jobs : j.op = "remove" /\ jobs' = Append(jobs, j) /\ UNCHANGED <<pc, sem>>
    BY <1>22, JobFacts DEF remove_clap_device
  <2>2. jobs \in Seq(Jobs)
    BY DEF ClapTypeOK, ProcType
  <2> QED
    BY <2>1, <2>2, AppendedJob
<1>23. CASE param_set_value
  <2>1. PICK p \in Params, v \in MinValue - 1..MaxValue + 1 :
          jobs' = Append(jobs, [op |-> "enqueue", event |-> [param |-> p, value |-> Clamp(v)]])
    BY <1>23 DEF param_set_value
  <2>2. DEFINE j == [op |-> "enqueue", event |-> [param |-> p, value |-> Clamp(v)]]
  <2>3. j \in Jobs /\ j.op = "enqueue"
    BY JobFacts, ParamFacts DEF Updates
  <2>4. jobs \in Seq(Jobs) /\ UNCHANGED <<pc, sem>>
    BY <1>23 DEF ClapTypeOK, ProcType, param_set_value
  <2> HIDE DEF j
  <2> QED
    BY <2>1, <2>3, <2>4, AppendedJob DEF j
<1>24. CASE show_gui
  BY <1>24 DEF show_gui
<1>25. CASE hide_gui
  BY <1>25 DEF hide_gui
<1>26. CASE host_gui_closed
  BY <1>26 DEF host_gui_closed
<1>27. CASE host_register_source
  BY <1>27 DEF host_register_source
<1>28. CASE RequestCallback
  BY <1>28 DEF RequestCallback
<1>29. CASE MainThreadCall
  BY <1>29 DEF MainThreadCall, CallsPlugin
<1>30. CASE host_gui_delete_request
  BY <1>30 DEF host_gui_delete_request, destroy_gui
<1>31. CASE FreeHandle
  BY <1>31 DEF FreeHandle
<1>32. CASE UNCHANGED clapVars
  BY <1>32 DEF clapVars
<1> HIDE DEF ClapTypeOK, HandshakeInv, LifeInv, RefInv
<1> QED
  BY <1>1, <1>2, <1>3, <1>4, <1>5, <1>6, <1>7, <1>8, <1>9, <1>10, <1>11, <1>12, <1>13, <1>14, <1>15,
     <1>16, <1>17, <1>18, <1>19, <1>20, <1>21, <1>22, <1>23, <1>24, <1>25, <1>26, <1>27, <1>28, <1>29,
     <1>30, <1>31, <1>32
  DEF ClapNext, Creation, Dispatch, Engine

-----------------------------------------------------------------------------
(* Each step of the host is one the contract allows, or a stutter          *)

LEMMA ContractStep == ClapInv /\ [ClapNext]_clapVars => [Contract!Step]_(Contract!contract)
<1> SUFFICES ASSUME ClapTypeOK, LifeInv, RefInv, HandshakeInv, [ClapNext]_clapVars
             PROVE  [Contract!Step]_(Contract!contract)
  BY DEF ClapInv
<1> USE DEF Contract!contract, plugin, editor, handle, shared, proc, tree
<1>1. CASE OpenLibrary
  BY <1>1
  DEF OpenLibrary, LifeInv, RefInv, WaitInv, HandshakeInv, Contract!Step, Contract!Alive,
      Contract!Load, ClapTypeOK, PluginType, HandleType, ProcType
<1>2. CASE init_plugin
  BY <1>2
  DEF init_plugin, LifeInv, RefInv, WaitInv, HandshakeInv, Contract!Step, Contract!Alive,
      Contract!Create, ClapTypeOK, PluginType, HandleType, ProcType
<1>3. CASE load_state
  BY <1>3 DEF load_state
<1>4. CASE ActivateNew
  BY <1>4
  DEF ActivateNew, clap_activate, FlushedValues, LifeInv, RefInv, WaitInv, HandshakeInv, Contract!Step,
      Contract!Alive, Contract!Activate, ClapTypeOK, PluginType, HandleType, ProcType
<1>5. CASE Started
  BY <1>5 DEF Started
<1>6. CASE AppendInsertJob
  BY <1>6 DEF AppendInsertJob
<1>7. CASE ipc_dispatch
  BY <1>7 DEF ipc_dispatch
<1>8. CASE ClearBit
  BY <1>8 DEF ClearBit
<1>9. CASE ReadNext
  BY <1>9 DEF ReadNext
<1>10. CASE ResetNext
  BY <1>10 DEF ResetNext
<1>11. CASE DeleteJobs
  BY <1>11
  DEF DeleteJobs, destroy_gui, LifeInv, RefInv, WaitInv, HandshakeInv, Contract!Step, Contract!Alive,
      Contract!CreateOrDestroyGui, ClapTypeOK, PluginType, HandleType, ProcType
<1>12. CASE clap_deactivate
  BY <1>12
  DEF clap_deactivate, LifeInv, RefInv, WaitInv, HandshakeInv, Contract!Step, Contract!Alive,
      Contract!Deactivate, ClapTypeOK, PluginType, HandleType, ProcType
<1>13. CASE destroy
  BY <1>13
  DEF destroy, UnregisterAll, LifeInv, RefInv, WaitInv, HandshakeInv, Contract!Step, Contract!Alive,
      Contract!Destroy, ClapTypeOK, PluginType, HandleType, ProcType
<1>14. CASE MainThreadReturn
  BY <1>14
  DEF MainThreadReturn, LifeInv, RefInv, WaitInv, HandshakeInv, Contract!Step, Contract!Alive,
      Contract!MainThreadCall, ClapTypeOK, PluginType, HandleType, ProcType
<1>15. CASE EngineJob
  <2>1. /\ jobs # <<>> /\ Head(jobs) = jobs[1] /\ 1 \in DOMAIN jobs
        /\ Head(jobs).op \in {"start", "stop", "insert", "remove", "enqueue"}
    BY <1>15, JobFacts DEF EngineJob, ClapTypeOK, ProcType
  <2>2. UNCHANGED <<lib, life, main, audio, gui>> /\ epc = "idle"
    BY <1>15 DEF EngineJob
  <2>3. CASE Head(jobs).op = "start"
    <3>1. processing' \in BOOLEAN /\ life = "active" /\ ~processing /\ ~audio
      BY <1>15, <2>1, <2>2, <2>3
      DEF EngineJob, start_processing, HandshakeInv, WaitInv, QueueInv, LifeInv
    <3>2. CASE processing' = TRUE
      BY <2>2, <3>1, <3>2 DEF Contract!Step, Contract!StartProcessing
    <3>3. CASE processing' = FALSE
      BY <2>2, <3>1, <3>3 DEF ClapTypeOK, PluginType
    <3> QED
      BY <3>1, <3>2, <3>3
  <2>4. CASE Head(jobs).op = "stop"
    <3>1. processing' = FALSE /\ life = "active" /\ ~audio
      BY <1>15, <2>1, <2>2, <2>4 DEF EngineJob, stop_processing, HandshakeInv, WaitInv, QueueInv, LifeInv
    <3>2. CASE processing = TRUE
      BY <2>2, <3>1, <3>2 DEF Contract!Step, Contract!StopProcessing
    <3>3. CASE processing = FALSE
      BY <2>2, <3>1, <3>3
    <3> QED
      BY <3>2, <3>3 DEF ClapTypeOK, PluginType
  <2>5. CASE Head(jobs).op \in {"insert", "remove", "enqueue"}
    BY <1>15, <2>1, <2>2, <2>5 DEF EngineJob, ComboJob, enqueue_events
  <2> QED
    BY <2>1, <2>3, <2>4, <2>5
<1>16. CASE render
  BY <1>16
  DEF render, LifeInv, RefInv, WaitInv, HandshakeInv, Contract!Step, Contract!Alive, Contract!Process,
      ClapTypeOK, PluginType, HandleType, ProcType
<1>17. CASE process
  BY <1>17
  DEF process, AppliedEvents, LifeInv, RefInv, WaitInv, HandshakeInv, Contract!Step, Contract!Alive,
      Contract!Process, ClapTypeOK, PluginType, HandleType, ProcType
<1>18. CASE StoreNext
  BY <1>18 DEF StoreNext
<1>19. CASE SetBit
  BY <1>19 DEF SetBit
<1>20. CASE enotify_enqueue_mt
  BY <1>20 DEF enotify_enqueue_mt
<1>21. CASE ActivateParent
  BY <1>21
  DEF ActivateParent, clap_activate, FlushedValues, LifeInv, RefInv, WaitInv, HandshakeInv,
      Contract!Step, Contract!Alive, Contract!Activate, ClapTypeOK, PluginType, HandleType, ProcType
<1>22. CASE remove_clap_device
  BY <1>22 DEF remove_clap_device
<1>23. CASE param_set_value
  BY <1>23 DEF param_set_value
<1>24. CASE show_gui
  BY <1>24
  DEF show_gui, LifeInv, RefInv, WaitInv, HandshakeInv, Contract!Step, Contract!Alive,
      Contract!CreateOrDestroyGui, ClapTypeOK, PluginType, HandleType, ProcType
<1>25. CASE hide_gui
  BY <1>25 DEF hide_gui
<1>26. CASE host_gui_closed
  BY <1>26
  DEF host_gui_closed, LifeInv, RefInv, WaitInv, HandshakeInv, Contract!Step, Contract!Alive,
      Contract!CreateOrDestroyGui, ClapTypeOK, PluginType, HandleType, ProcType
<1>27. CASE host_register_source
  BY <1>27 DEF host_register_source
<1>28. CASE RequestCallback
  BY <1>28 DEF RequestCallback
<1>29. CASE MainThreadCall
  BY <1>29
  DEF MainThreadCall, CallsPlugin, LifeInv, RefInv, WaitInv, HandshakeInv, Contract!Step,
      Contract!Alive, Contract!MainThreadCall, ClapTypeOK, PluginType, HandleType, ProcType
<1>30. CASE host_gui_delete_request
  BY <1>30
  DEF host_gui_delete_request, destroy_gui, LifeInv, RefInv, WaitInv, HandshakeInv, Contract!Step,
      Contract!Alive, Contract!CreateOrDestroyGui, ClapTypeOK, PluginType, HandleType, ProcType
<1>31. CASE FreeHandle
  BY <1>31
  DEF FreeHandle, LifeInv, RefInv, WaitInv, HandshakeInv, Contract!Step, Contract!Alive,
      Contract!Unload, ClapTypeOK, PluginType, HandleType, ProcType
<1>32. CASE UNCHANGED clapVars
  BY <1>32 DEF clapVars
<1> HIDE DEF ClapTypeOK, HandshakeInv, LifeInv, RefInv
<1> QED
  BY <1>1, <1>2, <1>3, <1>4, <1>5, <1>6, <1>7, <1>8, <1>9, <1>10, <1>11, <1>12, <1>13, <1>14, <1>15,
     <1>16, <1>17, <1>18, <1>19, <1>20, <1>21, <1>22, <1>23, <1>24, <1>25, <1>26, <1>27, <1>28, <1>29,
     <1>30, <1>31, <1>32
  DEF ClapNext, Creation, Dispatch, Engine

-----------------------------------------------------------------------------
(* What AfterEvents makes of a sequence of events is what its last ones say. *)

LEMMA LastOfBoth ==
  ASSUME NEW values \in [Params -> Values], NEW e \in Seq(Updates), NEW o \in Seq(Updates),
         NEW p \in Params
  PROVE  LET both == e \o o
             after == AfterEvents(AfterEvents(values, e), o)
         IN  /\ \A i \in DOMAIN both :
                  /\ both[i].param = p
                  /\ \A j \in DOMAIN both : j > i => both[j].param # p
                  => both[i].value = after[p]
             /\ (\A i \in DOMAIN both : both[i].param # p) => after[p] = values[p]
<1> DEFINE both == e \o o
           mid == AfterEvents(values, e)
           after == AfterEvents(mid, o)
           inE == {i \in DOMAIN e : e[i].param = p}
           inO == {i \in DOMAIN o : o[i].param = p}
<1>1. /\ Len(e) \in Nat /\ Len(o) \in Nat /\ DOMAIN e = 1..Len(e) /\ DOMAIN o = 1..Len(o)
      /\ DOMAIN both = 1..Len(e) + Len(o)
      /\ \A i \in DOMAIN e : both[i] = e[i]
      /\ \A i \in DOMAIN o : both[i + Len(e)] = o[i]
  OBVIOUS
<1>2. inE # {} => Max(inE) \in inE /\ \A i \in inE : i <= Max(inE)
  BY LastEvent
<1>3. inO # {} => Max(inO) \in inO /\ \A i \in inO : i <= Max(inO)
  BY LastEvent
<1>4. mid[p] = IF inE = {} THEN values[p] ELSE e[Max(inE)].value
  BY DEF AfterEvents
<1>5. after[p] = IF inO = {} THEN mid[p] ELSE o[Max(inO)].value
  BY DEF AfterEvents
<1> HIDE DEF both, mid, after
<1>6. ASSUME NEW i \in DOMAIN both, both[i].param = p,
             \A j \in DOMAIN both : j > i => both[j].param # p
      PROVE  both[i].value = after[p]
  <2>1. CASE i \in DOMAIN e
    <3>1. \A j \in DOMAIN o : j + Len(e) \in DOMAIN both /\ j + Len(e) > i
      BY <1>1, <2>1
    <3>2. inO = {}
      BY <1>1, <1>6, <3>1
    <3>3. i \in inE
      BY <1>1, <1>6, <2>1
    <3>4. \A j \in inE : j <= i
      BY <1>1, <1>6, <2>1
    <3>5. Max(inE) = i
      <4>1. Max(inE) \in inE /\ i <= Max(inE) /\ Max(inE) <= i
        BY <1>2, <3>3, <3>4
      <4> QED
        BY <1>1, <2>1, <4>1
    <3> QED
      BY <1>1, <1>4, <1>5, <2>1, <3>2, <3>3, <3>5
  <2>2. CASE i \notin DOMAIN e
    <3> DEFINE k == i - Len(e)
    <3>1. k \in DOMAIN o /\ i = k + Len(e)
      BY <1>1, <2>2
    <3>2. k \in inO
      BY <1>1, <1>6, <3>1
    <3>3. \A j \in inO : j <= k
      <4> SUFFICES ASSUME NEW j \in inO, j > k PROVE FALSE
        BY <1>1, <3>1
      <4>1. j + Len(e) \in DOMAIN both /\ j + Len(e) > i /\ both[j + Len(e)].param = p
        BY <1>1, <3>1
      <4> QED
        BY <1>6, <4>1
    <3>4. Max(inO) = k
      <4>1. Max(inO) \in inO /\ k <= Max(inO) /\ Max(inO) <= k
        BY <1>3, <3>2, <3>3
      <4> QED
        BY <1>1, <3>1, <4>1
    <3> QED
      BY <1>1, <1>5, <3>1, <3>2, <3>4
  <2> QED
    BY <2>1, <2>2
<1>7. ASSUME \A i \in DOMAIN both : both[i].param # p PROVE after[p] = values[p]
  <2>1. inE = {}
    BY <1>1, <1>7
  <2>2. \A i \in DOMAIN o : i + Len(e) \in DOMAIN both
    BY <1>1
  <2>3. inO = {}
    BY <1>1, <1>7, <2>2
  <2> QED
    BY <1>4, <1>5, <2>1, <2>3
<1> QED
  BY <1>6, <1>7 DEF both, mid, after

LEMMA IdleEngine == HandshakeInv /\ ~plugin_activated /\ ClapTypeOK => epc = "idle" /\ todo = <<>>
  BY DEF HandshakeInv, WaitInv, ClapTypeOK, ProcType, PluginType

-----------------------------------------------------------------------------
(* Parameters                                                              *)

LEMMA TodoStep == ClapInv /\ TodoInv /\ [ClapNext]_clapVars => TodoInv'
<1> SUFFICES ASSUME ClapTypeOK, LifeInv, RefInv, HandshakeInv, TodoInv, [ClapNext]_clapVars
             PROVE  TodoInv'
  BY DEF ClapInv
<1> USE DEF TodoInv, plugin, editor, handle, shared, proc, tree
<1>1. CASE OpenLibrary
  BY <1>1 DEF OpenLibrary
<1>2. CASE init_plugin
  BY <1>2 DEF init_plugin
<1>3. CASE load_state
  <2>1. UNCHANGED todo /\ ~plugin_activated
    BY <1>3 DEF load_state, clap_activate, LifeInv
  <2>2. todo = <<>>
    BY <2>1, IdleEngine
  <2> QED
    BY <2>1, <2>2
<1>4. CASE ActivateNew
  <2>1. UNCHANGED todo /\ ~plugin_activated
    BY <1>4 DEF ActivateNew, clap_activate, LifeInv
  <2>2. todo = <<>>
    BY <2>1, IdleEngine
  <2> QED
    BY <2>1, <2>2
<1>5. CASE Started
  BY <1>5 DEF Started
<1>6. CASE AppendInsertJob
  BY <1>6 DEF AppendInsertJob
<1>7. CASE ipc_dispatch
  BY <1>7 DEF ipc_dispatch
<1>8. CASE ClearBit
  BY <1>8 DEF ClearBit
<1>9. CASE ReadNext
  BY <1>9 DEF ReadNext
<1>10. CASE ResetNext
  BY <1>10 DEF ResetNext
<1>11. CASE DeleteJobs
  BY <1>11 DEF DeleteJobs, destroy_gui
<1>12. CASE clap_deactivate
  BY <1>12 DEF clap_deactivate
<1>13. CASE destroy
  <2>1. UNCHANGED todo /\ ~plugin_activated
    BY <1>13 DEF destroy, clap_activate, LifeInv
  <2>2. todo = <<>>
    BY <2>1, IdleEngine
  <2> QED
    BY <2>1, <2>2
<1>14. CASE MainThreadReturn
  BY <1>14 DEF MainThreadReturn
<1>15. CASE EngineJob
  BY <1>15 DEF EngineJob, start_processing, stop_processing, enqueue_events, ComboJob
<1>16. CASE render
  BY <1>16 DEF render
<1>17. CASE process
  <2>1. PICK output \in Seq(Updates) :
          /\ value' = AfterEvents(AfterEvents(value, enqueued_events_), output)
          /\ todo' = enqueued_events_ \o output
    BY <1>17, OutputType DEF process, AppliedEvents, OutputEvents
  <2>2. enqueued_events_ \in Seq(Updates) /\ value \in [Params -> Values] /\ todo' \in Seq(Updates)
    BY <2>1 DEF ClapTypeOK, PluginType, ProcType
  <2> SUFFICES ASSUME NEW i \in DOMAIN todo',
                      \A j \in DOMAIN todo' : j > i => todo'[j].param # todo'[i].param
               PROVE  todo'[i].value = value'[todo'[i].param]
    OBVIOUS
  <2>3. todo'[i].param \in Params
    BY <2>2, EventValue
  <2> DEFINE p == todo'[i].param
  <2>4. \A k \in DOMAIN todo' :
          /\ todo'[k].param = p
          /\ \A j \in DOMAIN todo' : j > k => todo'[j].param # p
          => todo'[k].value = value'[p]
    BY <2>1, <2>2, <2>3, LastOfBoth
  <2> QED
    BY <2>4
<1>18. CASE StoreNext
  BY <1>18 DEF StoreNext
<1>19. CASE SetBit
  <2>1. todo' = Tail(todo) /\ todo \in Seq(Updates) /\ todo # <<>> /\ UNCHANGED value
    BY <1>19 DEF SetBit, ClapTypeOK, ProcType
  <2>2. \A i \in DOMAIN todo' : i \in Nat /\ i + 1 \in DOMAIN todo /\ todo'[i] = todo[i + 1]
    BY <2>1
  <2>3. \A j \in DOMAIN todo : j # 1 => j \in Nat /\ j - 1 \in DOMAIN todo' /\ todo'[j - 1] = todo[j]
    BY <2>1
  <2> SUFFICES ASSUME NEW i \in DOMAIN todo',
                      \A j \in DOMAIN todo' : j > i => todo'[j].param # todo'[i].param
               PROVE  todo'[i].value = value'[todo'[i].param]
    OBVIOUS
  <2>4. \A j \in DOMAIN todo : j > i + 1 => todo[j].param # todo[i + 1].param
    BY <2>2, <2>3
  <2> QED
    BY <2>1, <2>2, <2>4
<1>20. CASE enotify_enqueue_mt
  BY <1>20 DEF enotify_enqueue_mt
<1>21. CASE ActivateParent
  <2>1. UNCHANGED todo /\ ~plugin_activated
    BY <1>21 DEF ActivateParent, clap_activate, LifeInv
  <2>2. todo = <<>>
    BY <2>1, IdleEngine
  <2> QED
    BY <2>1, <2>2
<1>22. CASE remove_clap_device
  BY <1>22 DEF remove_clap_device
<1>23. CASE param_set_value
  BY <1>23 DEF param_set_value
<1>24. CASE show_gui
  BY <1>24 DEF show_gui
<1>25. CASE hide_gui
  BY <1>25 DEF hide_gui
<1>26. CASE host_gui_closed
  BY <1>26 DEF host_gui_closed
<1>27. CASE host_register_source
  BY <1>27 DEF host_register_source
<1>28. CASE RequestCallback
  BY <1>28 DEF RequestCallback
<1>29. CASE MainThreadCall
  BY <1>29 DEF MainThreadCall, CallsPlugin
<1>30. CASE host_gui_delete_request
  BY <1>30 DEF host_gui_delete_request, destroy_gui
<1>31. CASE FreeHandle
  BY <1>31 DEF FreeHandle
<1>32. CASE UNCHANGED clapVars
  BY <1>32 DEF clapVars
<1> HIDE DEF ClapTypeOK, HandshakeInv, LifeInv, RefInv, TodoInv
<1> QED
  BY <1>1, <1>2, <1>3, <1>4, <1>5, <1>6, <1>7, <1>8, <1>9, <1>10, <1>11, <1>12, <1>13, <1>14, <1>15,
     <1>16, <1>17, <1>18, <1>19, <1>20, <1>21, <1>22, <1>23, <1>24, <1>25, <1>26, <1>27, <1>28, <1>29,
     <1>30, <1>31, <1>32
  DEF ClapNext, Creation, Dispatch, Engine

LEMMA ShownFrame ==
  ASSUME ClapTypeOK, ShownInv,
         UNCHANGED <<lost, todo, slot, current_value, value, next_value_, bits, param_infos_>>,
         pc' = pc \/ (pc \notin {"read", "reset"} /\ pc' \notin {"read", "reset"}),
         epc' = epc \/ (epc \notin {"store", "bit"} /\ epc' \notin {"store", "bit"}),
         pc' = "starting" /\ ~sem' => pc = "starting" /\ ~sem
  PROVE  ShownInv'
<1>1. ASSUME NEW p \in Params, Shown(p) PROVE Shown(p)'
  BY <1>1 DEF Shown, Unstored, ClapTypeOK, ProcType
<1> QED
  BY <1>1 DEF ShownInv

LEMMA ActivateShown ==
  ASSUME ClapTypeOK, ShownInv, HandshakeInv, ~plugin_activated, NEW continue \in {"append", "idle"},
         clap_activate(continue)
  PROVE  ShownInv'
<1>1. \A p \in Params : next_value_'[p] = NAN /\ current_value'[p] = value'[p]
  <2>1. next_value_' = [p \in Params |-> NAN] /\ current_value' = value'
    BY DEF clap_activate
  <2> QED
    BY <2>1
<1>2. pc' \in {"starting", continue}
  BY DEF clap_activate
<1> QED
  BY <1>1, <1>2 DEF ShownInv, Shown

LEMMA SmallPosition == NParams <= 64 => \A i \in Params : position(i) = i
  BY ClapAssumption DEF Params, position

LEMMA ShownStep == NParams <= 64 /\ ClapInv /\ TodoInv /\ ShownInv /\ [ClapNext]_clapVars => ShownInv'
<1> SUFFICES ASSUME NParams <= 64, ClapTypeOK, LifeInv, RefInv, HandshakeInv, TodoInv, ShownInv, [ClapNext]_clapVars
             PROVE  ShownInv'
  BY DEF ClapInv
<1> USE DEF plugin, editor, handle, shared, proc, tree
<1>1. CASE OpenLibrary
  <2>1. /\ UNCHANGED <<lost, todo, slot, current_value, value, next_value_, bits, param_infos_>>
        /\ pc' = pc \/ (pc \notin {"read", "reset"} /\ pc' \notin {"read", "reset"})
        /\ epc' = epc \/ (epc \notin {"store", "bit"} /\ epc' \notin {"store", "bit"})
        /\ pc' = "starting" /\ ~sem' => pc = "starting" /\ ~sem
    BY <1>1 DEF OpenLibrary
  <2> QED
    BY <2>1, ShownFrame
<1>2. CASE init_plugin
  <2>1. /\ UNCHANGED <<lost, todo, slot, current_value, value, next_value_, bits, param_infos_>>
        /\ pc' = pc \/ (pc \notin {"read", "reset"} /\ pc' \notin {"read", "reset"})
        /\ epc' = epc \/ (epc \notin {"store", "bit"} /\ epc' \notin {"store", "bit"})
        /\ pc' = "starting" /\ ~sem' => pc = "starting" /\ ~sem
    BY <1>2 DEF init_plugin
  <2> QED
    BY <2>1, ShownFrame
<1>3. CASE load_state
  BY <1>3 DEF load_state, LifeInv, ShownInv
<1>4. CASE ActivateNew
  <2>1. CASE parent_active /\ plugin_
    <3>1. ~plugin_activated /\ clap_activate("append")
      BY <1>4, <2>1 DEF ActivateNew, LifeInv
    <3> QED
      BY <3>1, ActivateShown
  <2>2. CASE ~(parent_active /\ plugin_)
    <3>1. /\ UNCHANGED <<lost, todo, slot, current_value, value, next_value_, bits, param_infos_, epc>>
          /\ pc \notin {"read", "reset"} /\ pc' \in {"idle", "append"}
      BY <1>4, <2>2 DEF ActivateNew
    <3> QED
      BY <3>1, ShownFrame
  <2> QED
    BY <2>1, <2>2
<1>5. CASE Started
  <2>1. /\ UNCHANGED <<lost, todo, slot, current_value, value, next_value_, bits, param_infos_>>
        /\ pc' = pc \/ (pc \notin {"read", "reset"} /\ pc' \notin {"read", "reset"})
        /\ epc' = epc \/ (epc \notin {"store", "bit"} /\ epc' \notin {"store", "bit"})
        /\ pc' = "starting" /\ ~sem' => pc = "starting" /\ ~sem
    BY <1>5 DEF Started
  <2> QED
    BY <2>1, ShownFrame
<1>6. CASE AppendInsertJob
  <2>1. /\ UNCHANGED <<lost, todo, slot, current_value, value, next_value_, bits, param_infos_>>
        /\ pc' = pc \/ (pc \notin {"read", "reset"} /\ pc' \notin {"read", "reset"})
        /\ epc' = epc \/ (epc \notin {"store", "bit"} /\ epc' \notin {"store", "bit"})
        /\ pc' = "starting" /\ ~sem' => pc = "starting" /\ ~sem
    BY <1>6 DEF AppendInsertJob
  <2> QED
    BY <2>1, ShownFrame
<1>7. CASE ipc_dispatch
  <2>1. /\ UNCHANGED <<lost, todo, slot, current_value, value, next_value_, bits, param_infos_>>
        /\ pc' = pc \/ (pc \notin {"read", "reset"} /\ pc' \notin {"read", "reset"})
        /\ epc' = epc \/ (epc \notin {"store", "bit"} /\ epc' \notin {"store", "bit"})
        /\ pc' = "starting" /\ ~sem' => pc = "starting" /\ ~sem
    BY <1>7 DEF ipc_dispatch
  <2> QED
    BY <2>1, ShownFrame
<1>8. CASE ClearBit
  <2> DEFINE ahead == {i \in bits : i >= scan}
  <2>1. /\ UNCHANGED <<current_value, value, lost, next_value_, param_infos_, sem, epc, todo>>
        /\ pc = "changed"
    BY <1>8 DEF ClearBit
  <2>2. CASE ahead = {}
    <3>1. pc' = "trash" /\ UNCHANGED bits
      BY <1>8, <2>2 DEF ClearBit
    <3>2. ASSUME NEW p \in Params, Shown(p) PROVE Shown(p)'
      BY <2>1, <3>1, <3>2 DEF Shown, Unstored
    <3> QED
      BY <2>1, <3>1, <3>2 DEF ShownInv
  <2>3. CASE ahead # {}
    <3> DEFINE m == Min(ahead)
    <3>1. m \in Params
      BY <2>3, MinBit DEF ClapTypeOK, ProcType
    <3>2. /\ bits' = bits \ {m} /\ slot' = position(m)
          /\ pc' = IF param_infos_ THEN "read" ELSE "undefined"
      BY <1>8, <2>3 DEF ClearBit
    <3> HIDE DEF m
    <3>3. slot' = m
      BY <3>1, <3>2, SmallPosition
    <3>4. ASSUME param_infos_, NEW p \in Params, Shown(p) PROVE Shown(p)'
      BY <2>1, <3>2, <3>3, <3>4 DEF Shown, Unstored
    <3> QED
      BY <2>1, <3>2, <3>4 DEF ShownInv
  <2> QED
    BY <2>2, <2>3
<1>9. CASE ReadNext
  <2>1. /\ UNCHANGED <<value, lost, next_value_, param_infos_, sem, epc, todo, bits, slot>>
        /\ pc = "read" /\ slot \in Params /\ param_infos_
        /\ value \in [Params -> Values] /\ current_value \in [Params -> Values \cup {NAN}]
    BY <1>9 DEF ReadNext, ClapTypeOK, HandleType, PluginType, ShownInv
  <2>2. CASE next_value_[slot] = NAN
    <3>1. pc' = "changed" /\ UNCHANGED current_value
      BY <1>9, <2>2 DEF ReadNext
    <3>2. value[slot] # NAN
      BY <2>1, ParamFacts
    <3>3. ASSUME NEW p \in Params, Shown(p) PROVE Shown(p)'
      BY <2>1, <2>2, <3>1, <3>2, <3>3 DEF Shown, Unstored
    <3> QED
      BY <2>1, <3>1, <3>3 DEF ShownInv
  <2>3. CASE next_value_[slot] # NAN
    <3>1. pc' = "reset" /\ current_value' = [current_value EXCEPT ![slot] = next_value_[slot]]
      BY <1>9, <2>3 DEF ReadNext
    <3>2. ASSUME NEW p \in Params, Shown(p) PROVE Shown(p)'
      <4>1. CASE p = slot
        BY <2>1, <2>3, <3>1, <3>2, <4>1 DEF Shown, Unstored
      <4>2. CASE p # slot
        <5>1. current_value'[p] = current_value[p]
          BY <2>1, <3>1, <4>2
        <5> QED
          BY <2>1, <3>1, <3>2, <4>2, <5>1 DEF Shown, Unstored
      <4> QED
        BY <4>1, <4>2
    <3> QED
      BY <2>1, <3>1, <3>2 DEF ShownInv
  <2> QED
    BY <2>2, <2>3
<1>10. CASE ResetNext
  <2>1. /\ UNCHANGED <<value, lost, current_value, param_infos_, sem, epc, todo, bits, slot>>
        /\ pc = "reset" /\ slot \in Params /\ param_infos_ /\ pc' = "changed"
        /\ next_value_ \in [Params -> Values \cup {NAN}]
        /\ next_value_' = [next_value_ EXCEPT ![slot] = NAN]
    BY <1>10 DEF ResetNext, ClapTypeOK, HandleType, ProcType, ShownInv
  <2>2. ASSUME NEW p \in Params, Shown(p) PROVE Shown(p)'
    <3>1. CASE p = slot
      BY <2>1, <2>2, <3>1 DEF Shown, Unstored
    <3>2. CASE p # slot
      <4>1. next_value_'[p] = next_value_[p]
        BY <2>1, <3>2
      <4> QED
        BY <2>1, <2>2, <3>2, <4>1 DEF Shown, Unstored
    <3> QED
      BY <3>1, <3>2
  <2> QED
    BY <2>1, <2>2 DEF ShownInv
<1>11. CASE DeleteJobs
  <2>1. /\ UNCHANGED <<lost, todo, slot, current_value, value, next_value_, bits, param_infos_>>
        /\ pc' = pc \/ (pc \notin {"read", "reset"} /\ pc' \notin {"read", "reset"})
        /\ epc' = epc \/ (epc \notin {"store", "bit"} /\ epc' \notin {"store", "bit"})
        /\ pc' = "starting" /\ ~sem' => pc = "starting" /\ ~sem
    BY <1>11 DEF DeleteJobs, destroy_gui
  <2> QED
    BY <2>1, ShownFrame
<1>12. CASE clap_deactivate
  <2>1. /\ UNCHANGED <<lost, todo, slot, current_value, value, next_value_, bits, param_infos_>>
        /\ pc' = pc \/ (pc \notin {"read", "reset"} /\ pc' \notin {"read", "reset"})
        /\ epc' = epc \/ (epc \notin {"store", "bit"} /\ epc' \notin {"store", "bit"})
        /\ pc' = "starting" /\ ~sem' => pc = "starting" /\ ~sem
    BY <1>12 DEF clap_deactivate
  <2> QED
    BY <2>1, ShownFrame
<1>13. CASE destroy
  BY <1>13 DEF destroy, ShownInv
<1>14. CASE MainThreadReturn
  <2>1. /\ UNCHANGED <<lost, todo, slot, current_value, value, next_value_, bits, param_infos_>>
        /\ pc' = pc \/ (pc \notin {"read", "reset"} /\ pc' \notin {"read", "reset"})
        /\ epc' = epc \/ (epc \notin {"store", "bit"} /\ epc' \notin {"store", "bit"})
        /\ pc' = "starting" /\ ~sem' => pc = "starting" /\ ~sem
    BY <1>14 DEF MainThreadReturn
  <2> QED
    BY <2>1, ShownFrame
<1>15. CASE EngineJob
  <2>1. /\ jobs # <<>> /\ Head(jobs) = jobs[1] /\ 1 \in DOMAIN jobs
        /\ Head(jobs).op \in {"start", "stop", "insert", "remove", "enqueue"}
    BY <1>15, JobFacts DEF EngineJob, ClapTypeOK, ProcType
  <2>2. CASE Head(jobs).op = "start"
    <3>1. pc = "starting" /\ ~sem /\ sem' = TRUE
      BY <1>15, <2>1, <2>2 DEF EngineJob, start_processing, HandshakeInv, QueueInv
    <3>2. UNCHANGED <<next_value_, current_value, value, pc>>
      BY <1>15 DEF EngineJob
    <3> QED
      BY <3>1, <3>2 DEF ShownInv, Shown
  <2>3. CASE Head(jobs).op # "start"
    <3>1. UNCHANGED <<lost, todo, slot, current_value, value, next_value_, param_infos_, pc, epc>>
      BY <1>15 DEF EngineJob
    <3>2. UNCHANGED bits /\ (pc = "starting" => sem' = sem)
      BY <1>15, <2>1, <2>3
      DEF EngineJob, start_processing, stop_processing, enqueue_events, ComboJob, HandshakeInv,
          QueueInv
    <3> QED
      BY <3>1, <3>2, ShownFrame
  <2> QED
    BY <2>2, <2>3
<1>16. CASE render
  <2>1. /\ UNCHANGED <<lost, todo, slot, current_value, value, next_value_, bits, param_infos_>>
        /\ pc' = pc \/ (pc \notin {"read", "reset"} /\ pc' \notin {"read", "reset"})
        /\ epc' = epc \/ (epc \notin {"store", "bit"} /\ epc' \notin {"store", "bit"})
        /\ pc' = "starting" /\ ~sem' => pc = "starting" /\ ~sem
    BY <1>16 DEF render
  <2> QED
    BY <2>1, ShownFrame
<1>17. CASE process
  <2>a. ~(pc = "starting" /\ ~sem)
    BY <1>17 DEF process, HandshakeInv, WaitInv
  <2>1. PICK output \in Seq(Updates) :
          /\ value' = AfterEvents(AfterEvents(value, enqueued_events_), output)
          /\ todo' = enqueued_events_ \o output
    BY <1>17, OutputType DEF process, AppliedEvents, OutputEvents
  <2>2. todo = <<>> /\ enqueued_events_ \in Seq(Updates) /\ value \in [Params -> Values] /\ todo' \in Seq(Updates)
    BY <1>17, <2>1 DEF process, ClapTypeOK, PluginType, ProcType
  <2>3. /\ UNCHANGED <<lost, slot, current_value, next_value_, bits, param_infos_, pc, sem>>
        /\ epc = "process" /\ (todo' # <<>> => epc' = "store")
    BY <1>17 DEF process
  <2>4. ASSUME NEW p \in Params, Shown(p) PROVE Shown(p)'
    <3>1. CASE \E i \in DOMAIN todo' : todo'[i].param = p
      BY <2>2, <2>3, <3>1 DEF Shown, Unstored
    <3>2. CASE \A i \in DOMAIN todo' : todo'[i].param # p
      <4>1. value'[p] = value[p]
        BY <2>1, <2>2, <3>2, LastOfBoth
      <4> QED
        BY <2>2, <2>3, <2>4, <4>1 DEF Shown, Unstored
    <3> QED
      BY <3>1, <3>2
  <2> QED
    BY <2>a, <2>3, <2>4 DEF ShownInv
<1>18. CASE StoreNext
  <2>a. ~(pc = "starting" /\ ~sem)
    BY <1>18 DEF StoreNext, HandshakeInv, WaitInv
  <2>1. /\ UNCHANGED <<slot, current_value, value, bits, param_infos_, pc, sem, todo>>
        /\ epc = "store" /\ epc' = "bit"
        /\ next_value_' = [next_value_ EXCEPT ![Head(todo).param] = Head(todo).value]
        /\ lost' = IF pc = "reset" /\ slot = Head(todo).param
                   THEN lost \cup {slot} ELSE lost \ {Head(todo).param}
    BY <1>18 DEF StoreNext
  <2>2. todo \in Seq(Updates) /\ todo # <<>> /\ Head(todo) = todo[1] /\ 1 \in DOMAIN todo
    BY <2>1 DEF ClapTypeOK, ProcType
  <2>3. todo[1].param \in Params /\ next_value_ \in [Params -> Values \cup {NAN}]
    BY <2>2, EventValue DEF ClapTypeOK, ProcType
  <2>4. ASSUME NEW p \in Params, Shown(p) PROVE Shown(p)'
    <3>1. CASE p # todo[1].param
      BY <2>1, <2>2, <2>3, <2>4, <3>1 DEF Shown, Unstored
    <3>2. CASE p = todo[1].param /\ \E i \in DOMAIN todo : i # 1 /\ todo[i].param = p
      BY <2>1, <3>2 DEF Shown, Unstored
    <3>3. CASE p = todo[1].param /\ \A i \in DOMAIN todo : i # 1 => todo[i].param # p
      <4>1. value[p] = todo[1].value
        BY <2>2, <3>3 DEF TodoInv
      <4>2. next_value_'[p] = value'[p]
        BY <2>1, <2>2, <2>3, <3>3, <4>1
      <4> QED
        BY <2>1, <2>2, <3>3, <4>2 DEF Shown
    <3> QED
      BY <3>1, <3>2, <3>3
  <2> QED
    BY <2>a, <2>1, <2>4 DEF ShownInv
<1>19. CASE SetBit
  <2>a. ~(pc = "starting" /\ ~sem)
    BY <1>19 DEF SetBit, HandshakeInv, WaitInv
  <2>1. /\ UNCHANGED <<slot, current_value, value, lost, next_value_, param_infos_, pc, sem>>
        /\ epc = "bit" /\ todo' = Tail(todo) /\ bits' = bits \cup {Head(todo).param}
        /\ epc' = IF todo' = <<>> THEN "notify" ELSE "store"
    BY <1>19 DEF SetBit
  <2>2. todo \in Seq(Updates) /\ todo # <<>> /\ Head(todo) = todo[1]
    BY <2>1 DEF ClapTypeOK, ProcType
  <2>3. \A j \in DOMAIN todo : j # 1 => j \in Nat /\ j - 1 \in DOMAIN todo' /\ todo'[j - 1] = todo[j]
    BY <2>1, <2>2
  <2>4. ASSUME NEW p \in Params, Shown(p) PROVE Shown(p)'
    <3>1. CASE \E i \in Unstored : todo[i].param = p
      <4>1. PICK i \in DOMAIN todo : i # 1 /\ todo[i].param = p
        BY <2>1, <3>1 DEF Unstored
      <4>2. i - 1 \in DOMAIN todo' /\ todo'[i - 1].param = p
        BY <2>3, <4>1
      <4>3. todo' # <<>>
        BY <4>2
      <4> QED
        BY <2>1, <4>2, <4>3 DEF Shown, Unstored
    <3>2. CASE ~\E i \in Unstored : todo[i].param = p
      BY <2>1, <2>2, <2>4, <3>2 DEF Shown
    <3> QED
      BY <3>1, <3>2
  <2> QED
    BY <2>a, <2>1, <2>4 DEF ShownInv
<1>20. CASE enotify_enqueue_mt
  <2>1. /\ UNCHANGED <<lost, todo, slot, current_value, value, next_value_, bits, param_infos_>>
        /\ pc' = pc \/ (pc \notin {"read", "reset"} /\ pc' \notin {"read", "reset"})
        /\ epc' = epc \/ (epc \notin {"store", "bit"} /\ epc' \notin {"store", "bit"})
        /\ pc' = "starting" /\ ~sem' => pc = "starting" /\ ~sem
    BY <1>20 DEF enotify_enqueue_mt
  <2> QED
    BY <2>1, ShownFrame
<1>21. CASE ActivateParent
  <2>1. CASE device = "parented" /\ plugin_
    <3>1. ~plugin_activated /\ clap_activate("idle")
      BY <1>21, <2>1 DEF ActivateParent, LifeInv
    <3> QED
      BY <3>1, ActivateShown
  <2>2. CASE ~(device = "parented" /\ plugin_)
    <3>1. /\ UNCHANGED <<lost, todo, slot, current_value, value, next_value_, bits, param_infos_, epc>>
          /\ pc \notin {"read", "reset"} /\ pc' \in {"idle", "append"}
      BY <1>21, <2>2 DEF ActivateParent
    <3> QED
      BY <3>1, ShownFrame
  <2> QED
    BY <2>1, <2>2
<1>22. CASE remove_clap_device
  <2>1. /\ UNCHANGED <<lost, todo, slot, current_value, value, next_value_, bits, param_infos_>>
        /\ pc' = pc \/ (pc \notin {"read", "reset"} /\ pc' \notin {"read", "reset"})
        /\ epc' = epc \/ (epc \notin {"store", "bit"} /\ epc' \notin {"store", "bit"})
        /\ pc' = "starting" /\ ~sem' => pc = "starting" /\ ~sem
    BY <1>22 DEF remove_clap_device
  <2> QED
    BY <2>1, ShownFrame
<1>23. CASE param_set_value
  <2>1. /\ UNCHANGED <<lost, todo, slot, current_value, value, next_value_, bits, param_infos_>>
        /\ pc' = pc \/ (pc \notin {"read", "reset"} /\ pc' \notin {"read", "reset"})
        /\ epc' = epc \/ (epc \notin {"store", "bit"} /\ epc' \notin {"store", "bit"})
        /\ pc' = "starting" /\ ~sem' => pc = "starting" /\ ~sem
    BY <1>23 DEF param_set_value
  <2> QED
    BY <2>1, ShownFrame
<1>24. CASE show_gui
  <2>1. /\ UNCHANGED <<lost, todo, slot, current_value, value, next_value_, bits, param_infos_>>
        /\ pc' = pc \/ (pc \notin {"read", "reset"} /\ pc' \notin {"read", "reset"})
        /\ epc' = epc \/ (epc \notin {"store", "bit"} /\ epc' \notin {"store", "bit"})
        /\ pc' = "starting" /\ ~sem' => pc = "starting" /\ ~sem
    BY <1>24 DEF show_gui
  <2> QED
    BY <2>1, ShownFrame
<1>25. CASE hide_gui
  <2>1. /\ UNCHANGED <<lost, todo, slot, current_value, value, next_value_, bits, param_infos_>>
        /\ pc' = pc \/ (pc \notin {"read", "reset"} /\ pc' \notin {"read", "reset"})
        /\ epc' = epc \/ (epc \notin {"store", "bit"} /\ epc' \notin {"store", "bit"})
        /\ pc' = "starting" /\ ~sem' => pc = "starting" /\ ~sem
    BY <1>25 DEF hide_gui
  <2> QED
    BY <2>1, ShownFrame
<1>26. CASE host_gui_closed
  <2>1. /\ UNCHANGED <<lost, todo, slot, current_value, value, next_value_, bits, param_infos_>>
        /\ pc' = pc \/ (pc \notin {"read", "reset"} /\ pc' \notin {"read", "reset"})
        /\ epc' = epc \/ (epc \notin {"store", "bit"} /\ epc' \notin {"store", "bit"})
        /\ pc' = "starting" /\ ~sem' => pc = "starting" /\ ~sem
    BY <1>26 DEF host_gui_closed
  <2> QED
    BY <2>1, ShownFrame
<1>27. CASE host_register_source
  <2>1. /\ UNCHANGED <<lost, todo, slot, current_value, value, next_value_, bits, param_infos_>>
        /\ pc' = pc \/ (pc \notin {"read", "reset"} /\ pc' \notin {"read", "reset"})
        /\ epc' = epc \/ (epc \notin {"store", "bit"} /\ epc' \notin {"store", "bit"})
        /\ pc' = "starting" /\ ~sem' => pc = "starting" /\ ~sem
    BY <1>27 DEF host_register_source
  <2> QED
    BY <2>1, ShownFrame
<1>28. CASE RequestCallback
  <2>1. /\ UNCHANGED <<lost, todo, slot, current_value, value, next_value_, bits, param_infos_>>
        /\ pc' = pc \/ (pc \notin {"read", "reset"} /\ pc' \notin {"read", "reset"})
        /\ epc' = epc \/ (epc \notin {"store", "bit"} /\ epc' \notin {"store", "bit"})
        /\ pc' = "starting" /\ ~sem' => pc = "starting" /\ ~sem
    BY <1>28 DEF RequestCallback
  <2> QED
    BY <2>1, ShownFrame
<1>29. CASE MainThreadCall
  <2>1. /\ UNCHANGED <<lost, todo, slot, current_value, value, next_value_, bits, param_infos_>>
        /\ pc' = pc \/ (pc \notin {"read", "reset"} /\ pc' \notin {"read", "reset"})
        /\ epc' = epc \/ (epc \notin {"store", "bit"} /\ epc' \notin {"store", "bit"})
        /\ pc' = "starting" /\ ~sem' => pc = "starting" /\ ~sem
    BY <1>29 DEF MainThreadCall, CallsPlugin
  <2> QED
    BY <2>1, ShownFrame
<1>30. CASE host_gui_delete_request
  <2>1. /\ UNCHANGED <<lost, todo, slot, current_value, value, next_value_, bits, param_infos_>>
        /\ pc' = pc \/ (pc \notin {"read", "reset"} /\ pc' \notin {"read", "reset"})
        /\ epc' = epc \/ (epc \notin {"store", "bit"} /\ epc' \notin {"store", "bit"})
        /\ pc' = "starting" /\ ~sem' => pc = "starting" /\ ~sem
    BY <1>30 DEF host_gui_delete_request, destroy_gui
  <2> QED
    BY <2>1, ShownFrame
<1>31. CASE FreeHandle
  <2>1. /\ UNCHANGED <<lost, todo, slot, current_value, value, next_value_, bits, param_infos_>>
        /\ pc' = pc \/ (pc \notin {"read", "reset"} /\ pc' \notin {"read", "reset"})
        /\ epc' = epc \/ (epc \notin {"store", "bit"} /\ epc' \notin {"store", "bit"})
        /\ pc' = "starting" /\ ~sem' => pc = "starting" /\ ~sem
    BY <1>31 DEF FreeHandle
  <2> QED
    BY <2>1, ShownFrame
<1>32. CASE UNCHANGED clapVars
  BY <1>32, ShownFrame DEF clapVars
<1> HIDE DEF ClapTypeOK, HandshakeInv, LifeInv, RefInv, ShownInv, TodoInv
<1> QED
  BY <1>1, <1>2, <1>3, <1>4, <1>5, <1>6, <1>7, <1>8, <1>9, <1>10, <1>11, <1>12, <1>13, <1>14, <1>15,
     <1>16, <1>17, <1>18, <1>19, <1>20, <1>21, <1>22, <1>23, <1>24, <1>25, <1>26, <1>27, <1>28, <1>29,
     <1>30, <1>31, <1>32
  DEF ClapNext, Creation, Dispatch, Engine


LEMMA StepInv == ClapInv /\ [ClapNext]_clapVars => ClapInv'
  BY TypeStep, LifeStep, RefStep, WaitStep, QueueStep DEF ClapInv, HandshakeInv

-----------------------------------------------------------------------------
(* The host keeps the order of calls CLAP asks for, whatever the plugin     *)
(* requests in between and however the threads interleave: for any number   *)
(* of parameters, values and updates under way.                             *)
THEOREM HostKeepsContract == ClapSpec => PluginContract
<1>1. ClapInit => ClapInv /\ Contract!Start
  BY InitInv DEF ClapInv, ClapInit, Contract!Start
<1>2. ClapInv /\ [ClapNext]_clapVars => ClapInv'
  BY StepInv
<1>3. ClapInv /\ [ClapNext]_clapVars => [Contract!Step]_(Contract!contract)
  BY ContractStep
<1> QED
  BY <1>1, <1>2, <1>3, PTL DEF ClapSpec, PluginContract, Contract!Contract

(* No timer or descriptor refers to a plugin that is gone, also if it       *)
(* registers one while it is activated, stopped or calls back.              *)
THEOREM SourcesAlwaysHavePlugin == ClapSpec => []SourcesHavePlugin
<1>1. ClapInit => ClapInv
  BY InitInv DEF ClapInv
<1>2. ClapInv /\ [ClapNext]_clapVars => ClapInv'
  BY StepInv
<1>3. ClapInv => SourcesHavePlugin
  BY DEF ClapInv, RefInv, SourcesHavePlugin
<1> QED
  BY <1>1, <1>2, <1>3, PTL DEF ClapSpec

(* The parameters the host shows settle at those of the plugin, however     *)
(* updates of the user, the plugin and the main loop interleave, for any    *)
(* number of events in a block.  The bits of AtomicBits must fit a block    *)
(* of 64: position() is wrong from the second one on.                       *)
THEOREM ParamsAlwaysSettle == NParams <= 64 => (ClapSpec => []ParamSettled)
<1> SUFFICES ASSUME NParams <= 64 PROVE ClapSpec => []ParamSettled
  OBVIOUS
<1>1. ClapInit => ClapInv /\ ParamInv
  BY InitInv DEF ClapInv
<1>2. ClapInv /\ ParamInv /\ [ClapNext]_clapVars => ClapInv' /\ ParamInv'
  BY StepInv, TodoStep, ShownStep DEF ParamInv
<1>3. ClapInv /\ ParamInv => ParamSettled
  BY DEF ClapInv, ClapTypeOK, ProcType, ParamInv, ShownInv, Shown, Unstored, ParamSettled
<1> QED
  BY <1>1, <1>2, <1>3, PTL DEF ClapSpec
=============================================================================
