------------------------------ MODULE ClapHost ------------------------------
(***************************************************************************)
(* One CLAP device: ClapDeviceImpl (src/ase/clapdevice.cc), its            *)
(* ClapPluginHandleImpl on the main thread and its ClapAudioProcessor on   *)
(* the engine thread (src/ase/clapplugin.cc).  The main thread talks to    *)
(* the engine with async_jobs and a semaphore, the engine reports changed  *)
(* parameters with atomic bits and a notification.  The plugin and its     *)
(* X11 window are external: they may do whatever the host interface allows *)
(* while they are alive, and an editor that is asked for is created.       *)
(***************************************************************************)
EXTENDS Integers, Sequences, FiniteSets, FiniteSetsExt

CONSTANTS
  NParams,      \* parameters are numbered as in param_infos_
  MinValue, MaxValue,
  MaxSets,      \* bound: param_set_value() calls that are under way
  MaxWindows,   \* bound: X11 windows created
  Sources       \* "timer", "fd": one of a kind is enough to be forgotten

ASSUME ClapAssumption ==
  /\ Sources \subseteq {"timer", "fd"}
  /\ NParams \in Nat \ {0} /\ MaxSets \in Nat /\ MaxWindows \in Nat
  /\ MinValue \in Int /\ MaxValue \in Int /\ MinValue <= MaxValue

Params == 0..NParams - 1
Values == MinValue..MaxValue
NAN == MinValue - 2          \* is not the value of a parameter
None == <<>>                 \* no loader_updates_

VARIABLES
  \* the plugin (external)
  lib, life, main, processing, audio, gui, value,
  \* ClapPluginHandleImpl
  plugin_, plugin_activated, param_infos_, current_value,
  loader_updates_, gui_windowid, gui_visible_, windows, sources,
  \* ClapAudioProcessor
  can_process_, enqueued_events_, next_value_, bits, todo,
  \* the device, the threads and what passes between them
  device, parent_active, inserted, pc, sem, scan, slot, jobs, trash, epc,
  notified, callbacks,
  lost          \* history: parameters whose last change was overwritten

plugin  == <<lib, life, main, processing, audio, gui, value>>
editor  == <<gui_windowid, gui_visible_, windows>>
handle  == <<plugin_, plugin_activated, param_infos_, loader_updates_, sources>>
shared  == <<next_value_, bits, notified, lost>>
proc    == <<can_process_, enqueued_events_, todo, epc, inserted, trash>>
tree    == <<device, parent_active>>
clapVars == <<plugin, editor, handle, shared, proc, tree, current_value, pc, sem, scan, slot, jobs, callbacks>>

Contract == INSTANCE ClapContract

ClapInit ==
  /\ lib = FALSE /\ life = "none" /\ main = FALSE /\ processing = FALSE
  /\ audio = FALSE /\ gui = FALSE /\ value = [p \in Params |-> MinValue]
  /\ plugin_ = FALSE /\ plugin_activated = FALSE
  /\ param_infos_ = FALSE /\ current_value = [p \in Params |-> NAN]
  /\ loader_updates_ = None
  /\ gui_windowid = FALSE /\ gui_visible_ = FALSE /\ windows = 0 /\ sources = {}
  /\ can_process_ = FALSE /\ enqueued_events_ = <<>> /\ todo = <<>>
  /\ next_value_ = [p \in Params |-> NAN] /\ bits = {}
  /\ device = "none" /\ parent_active \in BOOLEAN /\ inserted = FALSE
  /\ pc = "idle" /\ sem = FALSE /\ scan = 0 /\ slot = 0
  /\ jobs = <<>> /\ trash = FALSE /\ epc = "idle"
  /\ notified = FALSE /\ callbacks = {} /\ lost = {}

-----------------------------------------------------------------------------
(* Main thread: creation, insertion and activation.                        *)

\* ClapPluginHandle's constructor opens the library, which may be unusable.
OpenLibrary ==
  /\ pc = "idle" /\ device = "none"
  /\ pc' = "create"
  /\ device' = "new"
  /\ lib' \in BOOLEAN
  /\ UNCHANGED <<life, main, processing, audio, gui, value, editor, handle, shared,
                 proc, parent_active, current_value, sem, scan, slot, jobs, callbacks>>

\* create_plugin() and init(); timers and fds may be registered inside init(),
\* a failure ends in destroy(), which takes them back.
init_plugin ==
  /\ pc = "create"
  /\ pc' = "load"
  /\ \E ok \in BOOLEAN :
       /\ plugin_' = (lib /\ ok)
       /\ life' = IF ~lib THEN life ELSE IF ok THEN "initialized" ELSE "destroyed"
       /\ sources' \in IF lib /\ ok THEN SUBSET Sources ELSE {{}}
  /\ UNCHANGED <<lib, main, processing, audio, gui, value, editor, plugin_activated,
                 param_infos_, loader_updates_, shared, proc, tree, current_value, sem, scan, slot,
                 jobs, callbacks>>

\* insert_device() may load a saved device before it is activated: a plugin
\* with plugin_state reads its state, or the parameters wait for the activation.
load_state ==
  /\ pc = "load"
  /\ pc' = "insert"
  /\ \/ UNCHANGED <<value, loader_updates_>>
     \/ \E saved \in [Params -> Values] :
          \/ plugin_ /\ value' = saved /\ UNCHANGED loader_updates_
          \/ loader_updates_' = saved /\ UNCHANGED value
  /\ UNCHANGED <<lib, life, main, processing, audio, gui, editor, plugin_,
                 plugin_activated, param_infos_, sources, shared, proc, tree, current_value, sem, scan,
                 slot, jobs, callbacks>>

\* What the plugin's parameters are once the loader's updates are flushed.
FlushedValues == IF loader_updates_ = None THEN value ELSE loader_updates_

\* The updates are flushed, the parameters scanned again, the plugin is
\* activated, and a job calls start_processing() while the main thread waits.
clap_activate(continue) ==
  /\ value' = FlushedValues
  /\ current_value' = FlushedValues
  /\ next_value_' = [p \in Params |-> NAN]
  /\ param_infos_' = TRUE
  /\ loader_updates_' = None
  /\ \E ok \in BOOLEAN :
       /\ plugin_activated' = ok
       /\ life' = IF ok THEN "active" ELSE life
       /\ jobs' = IF ok THEN Append(jobs, [op |-> "start"]) ELSE jobs
       /\ pc' = IF ok THEN "starting" ELSE continue
  /\ UNCHANGED <<lib, main, processing, audio, gui, editor, plugin_, sources,
                 bits, notified, lost, proc, device, sem, scan, slot, callbacks>>

\* insert_device() activates the device if its parent is active.
ActivateNew ==
  /\ pc = "insert"
  /\ IF parent_active /\ plugin_
     THEN clap_activate("append") /\ UNCHANGED parent_active
     ELSE pc' = "append" /\ UNCHANGED <<plugin, editor, handle, shared, proc, tree, current_value,
                                        sem, scan, slot, jobs, callbacks>>

\* NativeDeviceImpl::_activate() of the parent.
ActivateParent ==
  /\ pc = "idle" /\ ~parent_active
  /\ parent_active' = TRUE
  /\ IF device = "parented" /\ plugin_
     THEN clap_activate("idle")
     ELSE UNCHANGED <<plugin, editor, handle, shared, proc, device, current_value, pc,
                      sem, scan, slot, jobs, callbacks>>

\* sem.wait() returns in clap_activate().
Started ==
  /\ pc = "starting" /\ sem
  /\ sem' = FALSE
  /\ pc' = IF device = "new" THEN "append" ELSE "idle"
  /\ UNCHANGED <<plugin, editor, handle, shared, proc, tree, current_value, scan, slot, jobs, callbacks>>

\* The end of insert_device().
AppendInsertJob ==
  /\ pc = "append"
  /\ pc' = "idle"
  /\ device' = "parented"
  /\ jobs' = Append(jobs, [op |-> "insert"])
  /\ UNCHANGED <<plugin, editor, handle, shared, proc, parent_active, current_value, sem, scan, slot, callbacks>>

remove_clap_device ==
  /\ pc = "idle" /\ device = "parented"
  /\ device' = "removing"
  /\ jobs' = Append(jobs, [op |-> "remove"])
  /\ UNCHANGED <<plugin, editor, handle, shared, proc, parent_active, current_value, pc, sem,
                 scan, slot, callbacks>>

-----------------------------------------------------------------------------
(* Main thread: parameters, editor, timers and callbacks.                  *)

Clamp(v) == IF v < MinValue THEN MinValue ELSE IF v > MaxValue THEN MaxValue ELSE v

\* param_info's flags are never set, so no parameter is read-only or stepped.
\* Without activation the update is dropped and nothing changes.
param_set_value ==
  /\ pc = "idle" /\ param_infos_ /\ plugin_activated
  /\ Len(SelectSeq(jobs, LAMBDA j : j.op = "enqueue")) + Len(enqueued_events_) < MaxSets
  /\ \E p \in Params, v \in MinValue - 1..MaxValue + 1 :
       jobs' = Append(jobs, [op |-> "enqueue", event |-> [param |-> p, value |-> Clamp(v)]])
  /\ UNCHANGED <<plugin, editor, handle, shared, proc, tree, current_value, pc, sem, scan, slot, callbacks>>

show_gui ==
  /\ pc = "idle" /\ device \in {"parented", "removing"} /\ plugin_ /\ ~gui_visible_
  /\ gui_visible_' \in BOOLEAN
  /\ gui_windowid' = TRUE
  /\ IF gui_windowid
     THEN UNCHANGED <<gui, windows>>
     ELSE windows < MaxWindows /\ gui' = TRUE /\ windows' = windows + 1
  /\ UNCHANGED <<lib, life, main, processing, audio, value, handle, shared, proc, tree, current_value,
                 pc, sem, scan, slot, jobs, callbacks>>

hide_gui ==
  /\ pc = "idle" /\ gui_visible_
  /\ gui_visible_' = FALSE
  /\ UNCHANGED <<plugin, gui_windowid, windows, handle, shared, proc, tree, current_value, pc, sem,
                 scan, slot, jobs, callbacks>>

\* Without a window neither the plugin nor the X11 side is told.
destroy_gui ==
  /\ gui' = (gui /\ ~gui_windowid)
  /\ windows' = IF gui_windowid THEN windows - 1 ELSE windows
  /\ gui_windowid' = FALSE
  /\ gui_visible_' = (gui_visible_ /\ ~gui_windowid)

\* The plugin says that its window was closed, or destroyed with it.
host_gui_closed ==
  /\ pc = "call" /\ gui
  /\ gui_visible_' = FALSE
  /\ \E was_destroyed \in BOOLEAN :
       /\ gui_windowid' = (gui_windowid /\ ~was_destroyed)
       /\ gui' = ~was_destroyed
  /\ UNCHANGED <<lib, life, main, processing, audio, value, windows, handle, shared, proc, tree,
                 current_value, pc, sem, scan, slot, jobs, callbacks>>

\* The plugin (un)registers a timer or a file descriptor inside a call.
host_register_source ==
  /\ pc = "call"
  /\ \E s \in Sources : sources' \in {sources \cup {s}, sources \ {s}}
  /\ UNCHANGED <<plugin, editor, plugin_, plugin_activated, param_infos_, loader_updates_,
                 shared, proc, tree, current_value, pc, sem, scan, slot, jobs, callbacks>>

\* request_callback() from any thread of the plugin, or the X11 thread's
\* deleterequest_mt: a callback for the main loop.
RequestCallback ==
  /\ \/ life \in {"initialized", "active"} /\ callbacks' = callbacks \cup {"callback"}
     \/ windows > 0 /\ callbacks' = callbacks \cup {"delete"}
  /\ callbacks' # callbacks
  /\ UNCHANGED <<plugin, editor, handle, shared, proc, tree, current_value, pc, sem, scan, slot, jobs>>

CallsPluginUnchecked(what) == TRUE

\* on_timer() and on_main_thread() check that the plugin is there; on_fd()
\* checks plugin_posix_fd_support, which destroy() does not reset.
CallsPlugin(what) == what = "fd" \/ plugin_

\* The main loop dispatches a timer, an fd, or a callback of the plugin.
MainThreadCall ==
  /\ pc = "idle"
  /\ \E what \in sources \cup (callbacks \ {"delete"}) :
       /\ callbacks' = callbacks \ {what}
       /\ IF CallsPlugin(what) THEN main' = TRUE /\ pc' = "call" ELSE UNCHANGED <<main, pc>>
  /\ UNCHANGED <<lib, life, processing, audio, gui, value, editor, handle, shared, proc, tree,
                 current_value, sem, scan, slot, jobs>>

MainThreadReturn ==
  /\ pc = "call"
  /\ main' = FALSE
  /\ pc' = "idle"
  /\ UNCHANGED <<lib, life, processing, audio, gui, value, editor, handle, shared, proc, tree,
                 current_value, sem, scan, slot, jobs, callbacks>>

host_gui_delete_request ==
  /\ pc = "idle" /\ "delete" \in callbacks
  /\ callbacks' = callbacks \ {"delete"}
  /\ destroy_gui
  /\ UNCHANGED <<lib, life, main, processing, audio, value, handle, shared, proc, tree, current_value,
                 pc, sem, scan, slot, jobs>>

-----------------------------------------------------------------------------
(* Main thread: AudioEngineThread::ipc_dispatch() first delivers the       *)
(* notification, then deletes the jobs that were executed.                 *)

ipc_dispatch ==
  /\ pc = "idle" /\ (notified \/ trash)
  /\ pc' = IF notified THEN "changed" ELSE "trash"
  /\ notified' = FALSE
  /\ UNCHANGED <<plugin, editor, handle, next_value_, bits, lost, proc, tree, current_value, sem, scan, slot,
                 jobs, callbacks>>

\* AtomicBits::Iter::position()
position(i) == (i \div 64) + (i % 64)

\* params_changed() moves to the next bit and clears it.  Once the plugin is
\* destroyed param_infos_ is empty and the access is undefined.
ClearBit ==
  /\ pc = "changed"
  /\ LET ahead == {i \in bits : i >= scan}
     IN  IF ahead = {}
         THEN pc' = "trash" /\ scan' = 0 /\ slot' = 0 /\ UNCHANGED bits
         ELSE /\ bits' = bits \ {Min(ahead)}
              /\ scan' = Min(ahead) + 1
              /\ slot' = position(Min(ahead))
              /\ pc' = IF param_infos_ THEN "read" ELSE "undefined"
  /\ UNCHANGED <<plugin, editor, handle, next_value_, notified, lost, proc, tree, current_value, sem,
                 jobs, callbacks>>

ReadNext ==
  /\ pc = "read"
  /\ IF next_value_[slot] = NAN
     THEN pc' = "changed" /\ UNCHANGED current_value
     ELSE /\ current_value' = [current_value EXCEPT ![slot] = next_value_[slot]]
          /\ pc' = "reset"
  /\ UNCHANGED <<plugin, editor, handle, shared, proc, tree, sem, scan, slot, jobs, callbacks>>

ResetNext ==
  /\ pc = "reset"
  /\ next_value_' = [next_value_ EXCEPT ![slot] = NAN]
  /\ pc' = "changed"
  /\ UNCHANGED <<plugin, editor, handle, bits, notified, lost, proc, tree, current_value, sem, scan,
                 slot, jobs, callbacks>>

\* The executed jobs are deleted; the destructor of the remove job takes the
\* device from its parent: destroy_gui(), then clap_deactivate() up to its wait.
DeleteJobs ==
  /\ pc = "trash"
  /\ trash' = FALSE
  /\ IF trash
     THEN /\ destroy_gui
          /\ IF plugin_activated
             THEN jobs' = Append(jobs, [op |-> "stop"]) /\ pc' = "stopping"
             ELSE pc' = "destroy" /\ UNCHANGED jobs
     ELSE pc' = "idle" /\ UNCHANGED <<gui, editor, jobs>>
  /\ UNCHANGED <<lib, life, main, processing, audio, value, handle, shared, can_process_, inserted,
                 enqueued_events_, todo, epc, tree, current_value, sem, scan, slot, callbacks>>

clap_deactivate ==
  /\ pc = "stopping" /\ sem
  /\ sem' = FALSE
  /\ plugin_activated' = FALSE
  /\ life' = "initialized"
  /\ pc' = "destroy"
  /\ UNCHANGED <<lib, main, processing, audio, gui, value, editor, plugin_, param_infos_,
                 loader_updates_, sources, shared, proc, tree, current_value, scan, slot, jobs, callbacks>>

UnregisterTimers(registered) == registered \ {"timer"}

\* host_unregister_fd() and host_unregister_timer() until none is left.
UnregisterAll(registered) == {}

destroy ==
  /\ pc = "destroy"
  /\ pc' = "idle"
  /\ device' = "gone"
  /\ param_infos_' = FALSE
  /\ sources' = UnregisterAll(sources)
  /\ life' = IF plugin_ THEN "destroyed" ELSE life
  /\ plugin_' = FALSE
  /\ current_value' = [p \in Params |-> NAN]
  /\ next_value_' = [p \in Params |-> NAN]
  /\ value' = [p \in Params |-> MinValue]
  /\ lost' = {}
  /\ UNCHANGED <<lib, main, processing, audio, gui, editor, plugin_activated, loader_updates_,
                 bits, notified, proc, parent_active, sem, scan, slot, jobs, callbacks>>

\* The last reference to the handle: no job, callback, timer or fd holds one.
FreeHandle ==
  /\ pc = "idle" /\ device = "gone"
  /\ jobs = <<>> /\ ~trash /\ epc = "idle" /\ callbacks = {} /\ sources = {}
  /\ device' = "freed"
  /\ lib' = FALSE
  /\ enqueued_events_' = <<>>
  /\ UNCHANGED <<life, main, processing, audio, gui, value, editor, handle, shared, can_process_, todo, epc,
                 inserted, trash, parent_active, current_value, pc, sem, scan, slot, jobs, callbacks>>

-----------------------------------------------------------------------------
(* Engine thread.                                                          *)

\* start_processing() and stop_processing() of the processor, with the post.
start_processing ==
  /\ processing' \in BOOLEAN
  /\ can_process_' = processing'
  /\ bits' = {}
  /\ sem' = TRUE
  /\ UNCHANGED <<enqueued_events_, inserted, trash>>

stop_processingNoPost ==
  /\ processing' = FALSE
  /\ can_process_' = FALSE
  /\ sem' = (sem /\ can_process_)
  /\ UNCHANGED <<enqueued_events_, bits, inserted, trash>>

stop_processing ==
  /\ processing' = FALSE
  /\ can_process_' = FALSE
  /\ sem' = TRUE
  /\ UNCHANGED <<enqueued_events_, bits, inserted, trash>>

\* All lists have time 0, so enqueue_events() always appends.
enqueue_events(event) ==
  /\ enqueued_events_' = Append(enqueued_events_, event)
  /\ UNCHANGED <<processing, can_process_, bits, sem, inserted, trash>>

\* The combo's insert() and remove(); the executed job waits for deletion.
ComboJob(in) ==
  /\ inserted' = in
  /\ trash' = (trash \/ ~in)
  /\ UNCHANGED <<processing, can_process_, bits, sem, enqueued_events_>>

EngineJob ==
  /\ epc = "idle" /\ jobs # <<>>
  /\ jobs' = Tail(jobs)
  /\ CASE Head(jobs).op = "start"   -> start_processing
       [] Head(jobs).op = "stop"    -> stop_processing
       [] Head(jobs).op = "enqueue" -> enqueue_events(Head(jobs).event)
       [] Head(jobs).op = "insert"  -> ComboJob(TRUE)
       [] Head(jobs).op = "remove"  -> ComboJob(FALSE)
  /\ UNCHANGED <<lib, life, main, audio, gui, value, editor, handle, next_value_, notified, lost, todo, epc,
                 tree, current_value, pc, scan, slot, callbacks>>

\* render() hands the queued events to process().
render ==
  /\ epc = "idle" /\ inserted /\ can_process_
  /\ audio' = TRUE
  /\ epc' = "process"
  /\ UNCHANGED <<lib, life, main, processing, gui, value, editor, handle, shared, can_process_, inserted,
                 trash, enqueued_events_, todo, tree, current_value, pc, sem, scan, slot, jobs, callbacks>>

\* The values after a sequence of parameter events.
AfterEvents(values, events) ==
  [p \in Params |->
     LET changes == {i \in DOMAIN events : events[i].param = p}
     IN  IF changes = {} THEN values[p] ELSE events[Max(changes)].value]

OutputFirst(events, output) == output \o events

\* Which events render() applies to next_value_, and in which order.
AppliedEvents(events, output) == events \o output

\* process() ends: the plugin has taken the queued events and may have changed
\* a parameter itself, which it reports as an output event.
process ==
  /\ epc = "process"
  /\ audio' = FALSE
  /\ \E output \in {<<>>} \cup {<<[param |-> p, value |-> v]>> : p \in Params, v \in Values} :
       /\ value' = AfterEvents(AfterEvents(value, enqueued_events_), output)
       /\ todo' = AppliedEvents(enqueued_events_, output)
  /\ enqueued_events_' = <<>>
  /\ epc' = IF todo' = <<>> THEN "idle" ELSE "store"
  /\ UNCHANGED <<lib, life, main, processing, gui, editor, handle, shared, can_process_, inserted, trash,
                 tree, current_value, pc, sem, scan, slot, jobs, callbacks>>

\* apply_param_value_event(): store the value, then set the bit.
StoreNext ==
  /\ epc = "store"
  /\ next_value_' = [next_value_ EXCEPT ![Head(todo).param] = Head(todo).value]
  /\ lost' = IF pc = "reset" /\ slot = Head(todo).param
             THEN lost \cup {slot} ELSE lost \ {Head(todo).param}
  /\ epc' = "bit"
  /\ UNCHANGED <<plugin, editor, handle, bits, notified, can_process_, enqueued_events_, todo, inserted,
                 trash, tree, current_value, pc, sem, scan, slot, jobs, callbacks>>

SetBit ==
  /\ epc = "bit"
  /\ bits' = bits \cup {Head(todo).param}
  /\ todo' = Tail(todo)
  /\ epc' = IF todo' = <<>> THEN "notify" ELSE "store"
  /\ UNCHANGED <<plugin, editor, handle, next_value_, notified, lost, can_process_, enqueued_events_,
                 inserted, trash, tree, current_value, pc, sem, scan, slot, jobs, callbacks>>

enotify_enqueue_mt ==
  /\ epc = "notify"
  /\ notified' = TRUE
  /\ epc' = "idle"
  /\ UNCHANGED <<plugin, editor, handle, next_value_, bits, lost, can_process_, enqueued_events_, todo,
                 inserted, trash, tree, current_value, pc, sem, scan, slot, jobs, callbacks>>

-----------------------------------------------------------------------------
Creation == OpenLibrary \/ init_plugin \/ load_state \/ ActivateNew \/ Started \/ AppendInsertJob

Dispatch ==
  \/ ipc_dispatch \/ ClearBit \/ ReadNext \/ ResetNext
  \/ DeleteJobs \/ clap_deactivate \/ destroy \/ MainThreadReturn

Engine == EngineJob \/ render \/ process \/ StoreNext \/ SetBit \/ enotify_enqueue_mt

ClapNext ==
  \/ Creation \/ Dispatch \/ Engine
  \/ ActivateParent \/ remove_clap_device \/ param_set_value
  \/ show_gui \/ hide_gui \/ host_gui_closed \/ host_register_source
  \/ RequestCallback \/ MainThreadCall \/ host_gui_delete_request \/ FreeHandle

\* The main thread goes on inside what it has begun and runs ipc_dispatch()
\* again and again; the engine thread renders and takes jobs in turn.
ClapFairness ==
  /\ WF_clapVars(Creation) /\ SF_clapVars(ipc_dispatch) /\ WF_clapVars(Dispatch)
  /\ SF_clapVars(EngineJob) /\ SF_clapVars(render) /\ WF_clapVars(Engine)

ClapSpec == ClapInit /\ [][ClapNext]_clapVars /\ ClapFairness

-----------------------------------------------------------------------------
(* Properties                                                              *)

\* The host keeps the order of calls CLAP asks for: the plugin is activated
\* before start_processing() in the engine thread, stopped there before
\* deactivate(), its editor is gone before destroy(), no timer, fd or callback
\* calls a destroyed plugin, and its library stays loaded until then.
PluginContract == Contract!Contract

\* Once all events are applied and all bits are read, the host shows for every
\* parameter the value the plugin has, whatever order updates of the user, the
\* loader and the plugin came in - except where the engine stored a value
\* between params_changed() reading next_value_ and resetting it to NAN.
ParamSettled ==
  pc = "idle" /\ epc = "idle" /\ bits = {} /\ param_infos_
    => \A p \in Params : current_value[p] = value[p] \/ p \in lost

\* The main loop only refers to a plugin that is there: destroy() takes back
\* every timer and fd, also those of a plugin whose init() failed.
SourcesHavePlugin == sources # {} => plugin_

\* An accepted update reaches the plugin unless processing is stopped, and
\* what the main thread waits for in clap_activate() and clap_deactivate()
\* happens: the engine is never waiting for the main thread.
UpdatesDelivered ==
  /\ enqueued_events_ # <<>> /\ can_process_ /\ inserted
       ~> enqueued_events_ = <<>> \/ ~can_process_ \/ ~inserted
  /\ pc \in {"starting", "stopping"} ~> pc \in {"idle", "undefined"}
=============================================================================
