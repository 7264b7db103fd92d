---------------------------- MODULE DeviceChain -----------------------------
(***************************************************************************)
(* A track, the devices of its chain, and their processors.  The main      *)
(* thread edits the list of devices (src/ase/nativedevice.cc, track.cc,    *)
(* project.cc) and queues a job for each change; the engine thread applies *)
(* the jobs to the chain of processors, rebuilds its schedule and renders  *)
(* (src/ase/engine.cc).  The queue itself is EngineJobs' and a FIFO here.   *)
(* Processors are freed by the main thread, with the last shared pointer.   *)
(***************************************************************************)
EXTENDS Integers, Sequences, FiniteSets, FiniteSetsExt, SequencesExt

-----------------------------------------------------------------------------
(***************************************************************************)
(* Connections between audio processors (src/ase/processor.cc), the chain  *)
(* that strings its children together (src/ase/combo.cc) and the engine's  *)
(* rendering schedule (src/ase/engine.cc), as operators on a graph         *)
(*   iproc[p]    the processor input bus 1 of p is connected to            *)
(*   eproc[p]    the processor p's events come from                        *)
(*   outputs[p]  the backlinks <<q, "audio" or "event">> of p              *)
(* Processors beyond the chain's main buses have no second bus here.       *)
(***************************************************************************)

CONSTANTS
  Devices,     \* processors that are put into the chain
  Kind         \* their buses: "synth", "effect", "mono" or "note"

ASSUME KindAssumption == Kind \in [Devices -> {"synth", "effect", "mono", "note"}]

NoProcessor == "none"
Source == "midi_proc"      \* the engine's MIDI input, AudioEngine::get_event_source()
Producer == "midi_prod"    \* the track's MidiProducer
Chain == "chain"           \* the track's AudioChain
Inlet == "inlet"
Procs == Devices \cup {Source, Producer, Chain, Inlet}

MONO == {"L"}
STEREO == {"L", "R"}

\* The speakers of the main input and output bus, {} without a bus.
ispeakers(p) ==
  IF p \in Devices
  THEN CASE Kind[p] = "effect" -> STEREO [] Kind[p] = "mono" -> MONO [] OTHER -> {}
  ELSE IF p = Chain THEN STEREO ELSE {}

ospeakers(p) ==
  IF p \in Devices
  THEN CASE Kind[p] \in {"effect", "synth"} -> STEREO [] Kind[p] = "mono" -> MONO [] OTHER -> {}
  ELSE IF p \in {Chain, Inlet} THEN STEREO ELSE {}

has_event_input(p) == IF p \in Devices THEN Kind[p] \in {"synth", "note"} ELSE p = Producer

EmptyGraph ==
  [iproc |-> [p \in Procs |-> NoProcessor], eproc |-> [p \in Procs |-> NoProcessor],
   outputs |-> [p \in Procs |-> <<>>]]

-----------------------------------------------------------------------------
(* AudioProcessor::connect() and disconnect().                             *)

EraseFirst(links, link) ==
  IF Contains(links, link)
  THEN RemoveAt(links, CHOOSE i \in DOMAIN links :
                          links[i] = link /\ \A j \in 1..i - 1 : links[j] # link)
  ELSE links

disconnect_event_input(g, p) ==
  IF g.eproc[p] = NoProcessor THEN g
  ELSE [g EXCEPT !.eproc[p] = NoProcessor,
                 !.outputs[g.eproc[p]] = EraseFirst(@, <<p, "event">>)]

connect_event_input(g, p, oproc) ==
  LET d == disconnect_event_input(g, p)
  IN  [d EXCEPT !.eproc[p] = oproc, !.outputs[oproc] = Append(@, <<p, "event">>)]

disconnect(g, p) ==
  IF g.iproc[p] = NoProcessor THEN g
  ELSE [g EXCEPT !.iproc[p] = NoProcessor,
                 !.outputs[g.iproc[p]] = EraseFirst(@, <<p, "audio">>)]

connect(g, p, oproc) ==
  LET d == disconnect(g, p)
  IN  [d EXCEPT !.iproc[p] = oproc, !.outputs[oproc] = Append(@, <<p, "audio">>)]

disconnect_ibuses(g, p) == disconnect(disconnect_event_input(g, p), p)

\* Without output buffers the function returns early, and leaves the
\* connections of an event output alone.
disconnect_obuses(g, p) ==
  IF ospeakers(p) = {} THEN g
  ELSE FoldRight(LAMBDA link, h : IF link[2] = "event" THEN disconnect_event_input(h, link[1])
                                                       ELSE disconnect(h, link[1]),
                 g.outputs[p], g)

-----------------------------------------------------------------------------
(* AudioChain                                                              *)

Matches(ospa, ispa) == ispa \subseteq ospa \/ (ospa = MONO /\ ispa = STEREO)

\* Connect the event source to both, and the audio output of prev to next.
chain_up(g, eproc, prev, next) ==
  LET e1 == IF eproc # NoProcessor /\ has_event_input(prev) THEN connect_event_input(g, prev, eproc) ELSE g
      e2 == IF eproc # NoProcessor /\ has_event_input(next) THEN connect_event_input(e1, next, eproc) ELSE e1
  IN  IF ispeakers(next) = {} \/ ospeakers(prev) = {} \/ ~Matches(ospeakers(prev), ispeakers(next))
      THEN e2
      ELSE connect(e2, next, prev)

\* The processor before position i of the chain.
Before(procs, i) == IF i = 1 THEN Inlet ELSE procs[i - 1]

\* Clear the inputs from index on, then connect pairwise.
reconnect(g, eproc, procs, index) ==
  LET cleared == FoldLeft(LAMBDA h, i : disconnect_ibuses(h, procs[i]), g,
                          [k \in 1..Len(procs) - index + 1 |-> index + k - 1])
  IN  FoldLeft(LAMBDA h, i : chain_up(h, eproc, Before(procs, i), procs[i]), cleared,
               [k \in 1..Len(procs) - index + 1 |-> index + k - 1])

\* AudioCombo::find_pos(), 0 stands for ~0.
find_pos(procs, p) == IF Contains(procs, p) THEN CHOOSE i \in DOMAIN procs : procs[i] = p ELSE 0

insertLast(g, eproc, procs, p, pos) ==
  [procs |-> Append(procs, p), graph |-> reconnect(g, eproc, Append(procs, p), Len(procs) + 1)]

\* AudioCombo::insert() and remove(): the children and the graph afterwards.
insert(g, eproc, procs, p, pos) ==
  LET index == IF pos = 0 THEN Len(procs) + 1 ELSE pos
      inserted == InsertAt(procs, index, p)
  IN  [procs |-> inserted, graph |-> reconnect(g, eproc, inserted, index)]

remove(g, eproc, procs, p) ==
  LET pos == find_pos(procs, p)
      removed == RemoveAt(procs, pos)
  IN  IF pos = 0 THEN [procs |-> procs, graph |-> g]
      ELSE [procs |-> removed,
            graph |-> reconnect(disconnect_obuses(disconnect_ibuses(g, p), p), eproc, removed, pos)]

-----------------------------------------------------------------------------
(* AudioProcessor::schedule_processor(): what p needs is scheduled first,  *)
(* p one level above it; AudioChain::schedule_children() adds the children. *)

Needs(g, procs, p) ==
  ({g.iproc[p], g.eproc[p]} \cup (IF p = Chain THEN {Inlet} \cup ToSet(procs) ELSE {})) \ {NoProcessor}

schedule_level(g, procs) ==
  LET level[p \in Procs] == IF Needs(g, procs, p) = {} THEN 0
                            ELSE 1 + Max({level[q] : q \in Needs(g, procs, p)})
  IN  level

Reachable(g, procs, from) ==
  LET reach[p \in Procs] == {p} \cup UNION {reach[q] : q \in Needs(g, procs, p)}
  IN  UNION {reach[p] : p \in from}

\* The level lists after schedule_clear() and schedule_processor() of oprocs_.
Schedule(g, procs, oprocs) ==
  {<<p, schedule_level(g, procs)[p]>> : p \in Reachable(g, procs, ToSet(oprocs))}

-----------------------------------------------------------------------------
(* The main thread and the engine thread                                   *)

CONSTANT MaxJobs    \* bound on the jobs that wait when the user edits
ASSUME MaxJobsAssumption == MaxJobs \in Nat

VARIABLES
  track,        \* "none", "producer", "connected", "on" or "removed"
  children_,    \* the devices of the chain, as the main thread sees them
  created,      \* devices the user has created
  handles,         \* devices the user interface has a reference to
  async_jobs_,  \* jobs for the engine, oldest first
  engine_pc,          \* what the engine does: "idle", "jobs", "schedule" or "scheduled"
  batch,        \* jobs it took, not yet executed
  done,         \* what the jobs of the batch it has executed refer to
  trash_jobs_,  \* the same of the executed jobs the main thread has to delete
  processors_,  \* the chain's processors
  eproc_,       \* the event source the chain gives to its children
  graph,        \* the connections
  oprocs_,      \* processors with ENGINE_OUTPUT
  schedule_,    \* pairs of a processor and its level
  schedule_invalid_

mainVars == <<track, children_, created, handles>>
engineVars == <<engine_pc, batch, done, processors_, eproc_, oprocs_, schedule_>>
chainVars == <<mainVars, engineVars, async_jobs_, trash_jobs_, graph, schedule_invalid_>>

Job(op, proc) == [op |-> op, proc |-> proc, sibling |-> NoProcessor, cpos |-> 0]

\* The processors whose shared pointers a job's lambda captures.
Refs(job) ==
  ({job.proc, job.sibling} \cup IF job.op \in {"insert", "remove", "source"} THEN {Chain} ELSE {}) \ {NoProcessor}

ChainInit ==
  /\ track = "none" /\ children_ = <<>> /\ created = {} /\ handles = {}
  /\ async_jobs_ = <<>> /\ trash_jobs_ = {}
  /\ engine_pc = "idle" /\ batch = <<>> /\ done = {}
  /\ processors_ = <<>> /\ eproc_ = NoProcessor /\ oprocs_ = <<>>
  /\ graph = EmptyGraph /\ schedule_ = {} /\ schedule_invalid_ = FALSE

-----------------------------------------------------------------------------
(* Main thread                                                             *)

\* ProjectImpl::create_track() and TrackImpl::_set_parent(): the producer is
\* created and its output enabled by a job...
create_track ==
  /\ track = "none"
  /\ track' = "producer"
  /\ async_jobs_' = Append(async_jobs_, Job("enable", Producer))
  /\ UNCHANGED <<children_, created, handles, engineVars, trash_jobs_, graph, schedule_invalid_>>

\* ... it is connected to the engine's event source by the main thread...
connect_producer ==
  /\ track = "producer"
  /\ track' = "connected"
  /\ graph' = connect_event_input(graph, Producer, Source)
  /\ schedule_invalid_' = TRUE
  /\ UNCHANGED <<children_, created, handles, engineVars, async_jobs_, trash_jobs_>>

\* ... and the chain is created, for events from the producer.
create_chain ==
  /\ track = "connected"
  /\ track' = "on"
  /\ async_jobs_' = async_jobs_ \o <<Job("enable", Chain), Job("source", Producer)>>
  /\ UNCHANGED <<children_, created, handles, engineVars, trash_jobs_, graph, schedule_invalid_>>

\* NativeDeviceImpl::insert_device(), in front of sibling or at the end; a
\* sibling that has left the chain is not found.
insert_device(d, sibling) ==
  LET cpos == find_pos(children_, sibling)
  IN  /\ track = "on"
      /\ d \notin created
      /\ Len(async_jobs_) + Len(batch) < MaxJobs
      /\ sibling \in handles \cup {NoProcessor}
      /\ created' = created \cup {d}
      /\ handles' = handles \cup {d}
      /\ children_' = InsertAt(children_, IF cpos = 0 THEN Len(children_) + 1 ELSE cpos, d)
      /\ async_jobs_' = async_jobs_ \o
           <<[op |-> "insert", proc |-> d, sibling |-> sibling, cpos |-> cpos]>>
      /\ UNCHANGED <<track, engineVars, trash_jobs_, graph, schedule_invalid_>>

\* NativeDeviceImpl::remove_device(); the user interface may keep the device.
remove_device(d) ==
  /\ track = "on"
  /\ Contains(children_, d)
  /\ Len(async_jobs_) + Len(batch) < MaxJobs
  /\ children_' = RemoveAt(children_, find_pos(children_, d))
  /\ async_jobs_' = Append(async_jobs_, Job("remove", d))
  /\ handles' \in {handles, handles \ {d}}
  /\ UNCHANGED <<track, created, engineVars, trash_jobs_, graph, schedule_invalid_>>

\* ProjectImpl::remove_track(): _disconnect_remove() of both, and of the
\* chain's devices from the back.
remove_track ==
  /\ track = "on"
  /\ track' = "removed"
  /\ children_' = <<>>
  /\ async_jobs_' = async_jobs_ \o <<Job("disconnect", Producer), Job("disconnect", Chain)>>
                      \o [i \in DOMAIN children_ |-> Job("remove", Reverse(children_)[i])]
  /\ handles' = {}
  /\ UNCHANGED <<created, engineVars, trash_jobs_, graph, schedule_invalid_>>

\* AudioEngineThread::ipc_dispatch() deletes the executed jobs.
chain_ipc_dispatch ==
  /\ trash_jobs_ # {}
  /\ trash_jobs_' = {}
  /\ UNCHANGED <<mainVars, engineVars, async_jobs_, graph, schedule_invalid_>>

-----------------------------------------------------------------------------
(* Engine thread                                                           *)

\* process_jobs(): take the queue.
TakeJobs ==
  /\ engine_pc = "idle"
  /\ engine_pc' = "jobs"
  /\ batch' = async_jobs_
  /\ async_jobs_' = <<>>
  /\ UNCHANGED <<mainVars, done, trash_jobs_, processors_, eproc_, graph, oprocs_, schedule_,
                 schedule_invalid_>>

\* AudioEngineThread::enable_output()
enable_output(procs, p, onoff) ==
  IF onoff = Contains(procs, p) THEN procs
  ELSE IF onoff THEN Append(procs, p) ELSE RemoveAt(procs, find_pos(procs, p))

\* The lambda of DeviceImpl::_disconnect_remove()
disconnect_all(g, p) == disconnect_event_input(disconnect_obuses(disconnect_ibuses(g, p), p), p)

\* What a job makes of the chain, the connections and the outputs.
Execute(job) ==
  LET p == job.proc
      state == [procs |-> processors_, graph |-> graph]
      chain == CASE job.op = "insert" -> insert(graph, eproc_, processors_, p, find_pos(processors_, job.sibling))
                 [] job.op = "remove" -> remove(graph, eproc_, processors_, p)
                 [] job.op = "disconnect" -> [state EXCEPT !.graph = disconnect_all(graph, p)]
                 [] OTHER -> state
      outputs == CASE job.op = "enable" -> enable_output(oprocs_, p, TRUE)
                   [] job.op \in {"insert", "disconnect"} -> enable_output(oprocs_, p, FALSE)
                   [] OTHER -> oprocs_
  IN  /\ processors_' = chain.procs
      /\ graph' = chain.graph
      /\ oprocs_' = outputs
      /\ eproc_' = IF job.op = "source" THEN p ELSE eproc_
      /\ schedule_invalid_' = (\/ schedule_invalid_
                               \/ graph' # graph \/ oprocs_' # oprocs_ \/ processors_' # processors_)

ExecuteJob ==
  /\ engine_pc = "jobs"
  /\ batch # <<>>
  /\ Execute(Head(batch))
  /\ batch' = Tail(batch)
  /\ done' = done \cup Refs(Head(batch))
  /\ UNCHANGED <<mainVars, async_jobs_, trash_jobs_, engine_pc, schedule_>>

\* The executed jobs go to the main thread.  Before rendering the schedule
\* is rebuilt when it is invalid; jobs that precede const jobs render nothing.
JobsDone ==
  /\ engine_pc = "jobs"
  /\ batch = <<>>
  /\ trash_jobs_' = trash_jobs_ \cup done
  /\ done' = {}
  /\ engine_pc' \in IF schedule_invalid_ THEN {"schedule", "idle"} ELSE {"idle"}
  /\ UNCHANGED <<mainVars, async_jobs_, batch, processors_, eproc_, graph, oprocs_, schedule_,
                 schedule_invalid_>>

\* schedule_clear(), schedule_processor() of the outputs...
Reschedule ==
  /\ engine_pc = "schedule"
  /\ schedule_' = Schedule(graph, processors_, oprocs_)
  /\ schedule_invalid_' = TRUE
  /\ engine_pc' = "scheduled"
  /\ UNCHANGED <<mainVars, async_jobs_, trash_jobs_, batch, done, processors_, eproc_, graph, oprocs_>>

\* ... and only then the flag, which the main thread may have set meanwhile;
\* schedule_render() follows.
ScheduleDone ==
  /\ engine_pc = "scheduled"
  /\ schedule_invalid_' = FALSE
  /\ engine_pc' = "idle"
  /\ UNCHANGED <<mainVars, async_jobs_, trash_jobs_, batch, done, processors_, eproc_, graph,
                 oprocs_, schedule_>>

ChainEngine == TakeJobs \/ ExecuteJob \/ JobsDone \/ Reschedule \/ ScheduleDone

ChainNext ==
  \/ create_track \/ connect_producer \/ create_chain \/ remove_track \/ chain_ipc_dispatch
  \/ \E d \in Devices : remove_device(d)
  \/ \E d \in Devices, s \in Devices \cup {NoProcessor} : insert_device(d, s)
  \/ ChainEngine

ChainSpec == ChainInit /\ [][ChainNext]_chainVars

-----------------------------------------------------------------------------
(* Properties                                                              *)

\* The shared pointers that keep a processor alive; the chain owns its
\* processors, its inlet and its event source.
Captured ==
  done \cup trash_jobs_ \cup UNION {Refs(job) : job \in ToSet(async_jobs_) \cup ToSet(batch)}

Kept == (CASE track = "on" -> {Chain, Producer} [] track \in {"producer", "connected"} -> {Producer}
           [] OTHER -> {}) \cup Captured \cup ToSet(oprocs_) \cup handles \cup ToSet(children_) \cup {Source}

Alive == LET kept == Kept
         IN  kept \cup IF Chain \in kept THEN {Inlet, eproc_} \cup ToSet(processors_) ELSE {}

\* insert_device(): "assert_return (size_t (cpos) == pos)", the job finds the
\* sibling where the main thread saw it, however many jobs were queued in
\* between; when all jobs are done the chain is the list of devices.
ChainInOrder ==
  /\ engine_pc = "jobs" /\ batch # <<>> /\ Head(batch).op = "insert"
        => find_pos(processors_, Head(batch).sibling) = Head(batch).cpos
  /\ async_jobs_ = <<>> /\ batch = <<>> => processors_ = children_

\* AudioChain::reconnect(): after any edits each device takes events from the
\* producer, and audio from its predecessor in the chain, mono or stereo,
\* as if the chain had been built at once.
ChainConnected ==
  track = "on" => \A i \in DOMAIN processors_ :
    LET p == processors_[i]
        prev == Before(processors_, i)
    IN  /\ graph.eproc[p] = IF has_event_input(p) THEN Producer ELSE NoProcessor
        /\ graph.iproc[p] = IF {} \notin {ispeakers(p), ospeakers(prev)} THEN prev ELSE NoProcessor

\* AudioProcessor::connect(), disconnect(): every input has one backlink in
\* the outputs_ of its source and there are no others, and a processor whose
\* last shared pointer is gone is in nobody's connections.
NoDangling ==
  /\ \A q \in Procs :
       /\ IsInjective(graph.outputs[q])
       /\ ToSet(graph.outputs[q]) = {<<p, "audio">> : p \in {p \in Procs : graph.iproc[p] = q}}
                                      \cup {<<p, "event">> : p \in {p \in Procs : graph.eproc[p] = q}}
  /\ \A p \in Procs \ Alive :
       graph.iproc[p] = NoProcessor /\ graph.eproc[p] = NoProcessor /\ graph.outputs[p] = <<>>

\* driver_dispatcher(): once no change is pending, the engine renders every
\* processor of the outputs after the ones it reads from, and only live ones;
\* the invalidation by connect_producer, lost while the schedule is being
\* built, is made up for by the chain's jobs.
ScheduleCurrent ==
  LET Rendered == {s[1] : s \in schedule_}
  IN  engine_pc = "idle" /\ async_jobs_ = <<>> /\ ~schedule_invalid_ /\ track \in {"none", "on", "removed"} =>
        /\ ToSet(oprocs_) \cup ToSet(children_) \subseteq Rendered
        /\ track = "removed" => Rendered = {}
        /\ Rendered \subseteq Alive
        /\ \A s \in schedule_ :
             \A q \in {graph.iproc[s[1]], graph.eproc[s[1]]} \ {NoProcessor} :
               \E t \in schedule_ : t[1] = q /\ t[2] < s[2]
=============================================================================
