----------------------------- MODULE EngineJobs -----------------------------
(***************************************************************************)
(* The job queues between the main loop thread (the owner), other client   *)
(* threads and the audio engine thread of ase/engine.cc, and the two       *)
(* wakeup channels (eventfds) that connect their event loops.              *)
(*                                                                         *)
(* A client pushes a job (add_job_mt) onto async_jobs_ or const_jobs_ and  *)
(* wakes the engine only if the queue was empty; blocking jobs wait on a   *)
(* semaphore.  The engine loop runs PREPARE, poll, CHECK and DISPATCH of   *)
(* driver_dispatcher, executes jobs in FIFO order and hands them back via  *)
(* trash_jobs_; only the owner deletes them (ipc_dispatch).                *)
(*                                                                         *)
(* The queues are AtomicIntrusiveStacks; one push or pop is one step here  *)
(* (AtomicIntrusiveStack.tla shows that the lock-free code provides that). *)
(* The stamps render_stamp_ and write_stamp_ only matter through their     *)
(* difference `lag'.                                                       *)
(***************************************************************************)
EXTENDS Integers, Sequences, FiniteSets, Functions

CONSTANTS Clients,          \* threads that may call add_job_mt
          Owner,            \* the main loop thread, one of the Clients
          Jobs,             \* EngineJobImpl objects
          Drivers,          \* PCM drivers
          NullDriver,       \* null_pcm_driver_, one of the Drivers
          NoDriver,         \* marks a job that is not an update_driver_set job
          BlockLength,      \* pcm_block_length() of each driver
          MAX_BUFFER_SIZE,  \* AUDIO_BLOCK_MAX_RENDER_SIZE
          MaxRtJobs,        \* bound: RT calls that are queued at a time
          NoJob,            \* cjob of a thread that is not in add_job_mt
          ShutdownCalls     \* subset of {"stop", "atquit"}: how the program may end

ASSUME OwnerAssumption == Owner \in Clients
ASSUME DriverAssumption ==
  /\ NullDriver \in Drivers
  /\ NoDriver \notin Drivers
  /\ BlockLength \in [Drivers -> Nat \ {0}]
  /\ MAX_BUFFER_SIZE \in Nat \ {0}
ASSUME BoundAssumption == MaxRtJobs \in Nat /\ NoJob \notin Jobs

VARIABLES
  thread,     \* thread_ != nullptr
  running,    \* event_loop_->running_
  atquit,     \* atquit_triggered()
  async, const, \* async_jobs_, const_jobs_: jobs in push order
  trash,      \* trash_jobs_
  user_notes, \* number of notes queued in user_notes_
  rt_jobs,    \* number of calls queued in main_rt_jobs_
  eventfd,    \* wakeup pending for the engine's event_loop_
  ownerfd,    \* wakeup pending for main_loop
  epc,        \* engine thread: its place in iterate_loops_Lm and driver_dispatcher
  batch,      \* process_jobs: popped jobs not yet executed
  ran,        \* process_jobs: executed jobs, not yet pushed onto trash_jobs_
  lag,        \* render_stamp_ - write_stamp_
  buffer_size, pcm_driver, \* buffer_size_, pcm_driver_
  writable,   \* pcm_check_io() of the driver in use
  cpc,        \* client threads: their place in add_job_mt
  cjob,       \* client threads: the job of the current call
  sem,        \* client threads: the ScopedSemaphore of the current call
  opc,        \* owner thread: its place in the main loop iteration
  dset,       \* driver_set_ml.pcm_driver
  jst, kind, by, drv, \* per job: life cycle, queue, pushing client, driver to install
  apush, adone, mark  \* history: jobs pushed to and executed from async_jobs_;
                      \* number of async pushes that preceded a job
queues  == <<async, const, trash, user_notes, rt_jobs>>
engine  == <<epc, batch, ran>>
stamps  == <<lag, buffer_size, pcm_driver, writable>>
clients == <<cpc, cjob, sem>>
owner   == <<opc, dset>>
control == <<thread, running, atquit>>
jobinfo == <<kind, by, drv, mark>>
history == <<apush, adone>>
fds     == <<eventfd, ownerfd>>
vars == <<queues, engine, stamps, clients, owner, control, jobinfo, history, jst, fds>>

Min2(a, b) == IF a < b THEN a ELSE b
Kinds == {"async", "const", "sync"}
EnginePcs == {"prepare", "spin", "poll", "check", "write1", "popA1", "runA1", "trashA1", "wakeA1",
              "render", "rtwake", "write2", "const", "popA2", "runA2", "trashA2", "wakeA2",
              "popC", "runC", "trashC", "wakeC", "ipc", "next", "exit"}
OwnerPcs == {"idle", "spin", "poll", "check", "notes", "trash", "rtjobs", "join",
             "aborting"}

TypeOK ==
  /\ thread \in BOOLEAN /\ running \in BOOLEAN /\ atquit \in BOOLEAN
  /\ async \in Seq(Jobs) /\ const \in Seq(Jobs)
  /\ batch \in Seq(Jobs) /\ ran \in Seq(Jobs)
  /\ trash \in SUBSET Jobs
  /\ user_notes \in Nat /\ rt_jobs \in Nat
  /\ eventfd \in BOOLEAN /\ ownerfd \in BOOLEAN
  /\ epc \in EnginePcs /\ opc \in OwnerPcs
  /\ lag \in Int /\ buffer_size \in Nat \ {0}
  /\ pcm_driver \in Drivers /\ dset \in Drivers /\ writable \in BOOLEAN
  /\ cpc \in [Clients -> {"idle", "wake", "wait"}]
  /\ cjob \in [Clients -> Jobs \cup {NoJob}]
  /\ sem \in [Clients -> BOOLEAN]
  /\ jst \in [Jobs -> {"unused", "queued", "done", "deleted"}]
  /\ kind \in [Jobs -> Kinds] /\ by \in [Jobs -> Clients]
  /\ drv \in [Jobs -> Drivers \cup {NoDriver}]
  /\ apush \in Seq(Jobs) /\ adone \in Seq(Jobs)
  /\ mark \in [Jobs -> Nat]

\* AudioEngineThread::run: the null driver is installed and one buffer of
\* zeros is due (write_stamp_ = render_stamp_ - buffer_size_).
Init ==
  /\ thread = TRUE /\ running = TRUE /\ atquit = FALSE
  /\ async = <<>> /\ const = <<>> /\ trash = {} /\ batch = <<>> /\ ran = <<>>
  /\ user_notes = 0 /\ rt_jobs = 0
  /\ eventfd = FALSE /\ ownerfd = FALSE
  /\ epc = "prepare" /\ opc = "idle"
  /\ pcm_driver = NullDriver /\ dset = NullDriver
  /\ buffer_size = Min2(MAX_BUFFER_SIZE, BlockLength[NullDriver])
  /\ lag = buffer_size
  /\ writable \in BOOLEAN
  /\ cpc = [c \in Clients |-> "idle"] /\ cjob = [c \in Clients |-> NoJob]
  /\ sem = [c \in Clients |-> FALSE]
  /\ jst = [j \in Jobs |-> "unused"] /\ kind = [j \in Jobs |-> "async"]
  /\ by = [j \in Jobs |-> Owner] /\ drv = [j \in Jobs |-> NoDriver]
  /\ apush = <<>> /\ adone = <<>> /\ mark = [j \in Jobs |-> 0]

-----------------------------------------------------------------------------
(* Clients: add_job_mt.  The mutants below are the ones TLC has to refute. *)

\* Only between two steps of the main loop does the owner run other code.
MayCall(c) == cpc[c] = "idle" /\ (c = Owner => opc = "idle")

\* Engine not running: the job is executed right away by the caller.  A
\* queue order does not exist for it, so it leaves no trace in the history.
RunDirectly(c, j) ==
  /\ ~thread /\ MayCall(c) /\ jst[j] = "unused"
  /\ jst' = [jst EXCEPT ![j] = "deleted"]
  /\ UNCHANGED <<queues, engine, stamps, clients, owner, control, jobinfo, history, fds>>

\* push() tells if the queue was empty, only then the engine needs a wakeup.
WasEmptyAfterPush(k) == FALSE                              \* mutant
WasEmpty(k) == IF k = "const" THEN const = <<>> ELSE async = <<>>

\* const and synchronized jobs are wrapped so that they post the semaphore
\* their client waits for.
BlockingConst(k) == k = "const"                            \* mutant
Blocking(k) == k \in {"const", "sync"}

Enqueue(c, j, k, d) ==
  /\ thread /\ MayCall(c) /\ jst[j] = "unused"
  /\ cpc' = [cpc EXCEPT ![c] = IF WasEmpty(k) THEN "wake" ELSE IF Blocking(k) THEN "wait" ELSE "idle"]
  /\ cjob' = [cjob EXCEPT ![c] = IF cpc'[c] = "idle" THEN NoJob ELSE j]
  /\ IF k = "const"
       THEN const' = Append(const, j) /\ UNCHANGED <<async, apush>>
       ELSE async' = Append(async, j) /\ apush' = Append(apush, j) /\ UNCHANGED const
  /\ jst' = [jst EXCEPT ![j] = "queued"]
  /\ kind' = [kind EXCEPT ![j] = k] /\ by' = [by EXCEPT ![j] = c]
  /\ drv' = [drv EXCEPT ![j] = d] /\ mark' = [mark EXCEPT ![j] = Len(apush)]
  /\ UNCHANGED <<sem, trash, rt_jobs, engine, stamps, opc, control, adone, eventfd>>

AddJob(c, j, k) == Enqueue(c, j, k, NoDriver) /\ UNCHANGED <<dset, user_notes, ownerfd>>

\* update_drivers: the main loop's driver set changes, then a synchronized
\* job makes the running engine follow.  A driver that fails to open is
\* replaced by the null driver and reported with queue_user_note.
UpdateDrivers(j, d, failed) ==
  LET driver == IF failed THEN NullDriver ELSE d
  IN /\ dset' = driver
     /\ user_notes' = IF failed THEN user_notes + 1 ELSE user_notes
     /\ ownerfd' = (ownerfd \/ (failed /\ user_notes = 0))
     /\ Enqueue(Owner, j, "sync", driver)

\* wakeup_thread_mt; asynchronous callers return, blocking ones wait.
WakeEngine(c) ==
  /\ cpc[c] = "wake"
  /\ eventfd' = TRUE
  /\ cpc' = [cpc EXCEPT ![c] = IF Blocking(kind[cjob[c]]) THEN "wait" ELSE "idle"]
  /\ cjob' = [cjob EXCEPT ![c] = IF cpc'[c] = "idle" THEN NoJob ELSE @]
  /\ UNCHANGED <<queues, engine, stamps, sem, owner, control, jobinfo, history, jst, ownerfd>>

\* sem.wait() returns, which ends the life of the semaphore.
SemWait(c) ==
  /\ cpc[c] = "wait" /\ sem[c]
  /\ cpc' = [cpc EXCEPT ![c] = "idle"]
  /\ cjob' = [cjob EXCEPT ![c] = NoJob] /\ sem' = [sem EXCEPT ![c] = FALSE]
  /\ UNCHANGED <<queues, engine, stamps, owner, control, jobinfo, history, jst, fds>>

-----------------------------------------------------------------------------
(* The engine thread: MainLoop::run and driver_dispatcher *)

\* What the engine thread never changes.
EFrame == UNCHANGED <<cpc, cjob, owner, control, jobinfo, apush>>
\* What changes only when a job is executed or the stamps advance.
JobFrame == UNCHANGED <<sem, adone, jst>>

JobsPendingAsync == async # <<>>                           \* mutant
JobsPending == const # <<>> \/ async # <<>>

\* CHECK and PREPARE of driver_dispatcher, as one step: a push that lands
\* between its reads comes after the flush of the eventfd, so its wakeup is
\* still pending in the next iteration.
NeedsDispatch == ~atquit /\ (JobsPending \/ lag <= 0 \/ writable)

\* A dispatchable source turns the following poll() into a mere check.
EPrepare ==
  /\ epc = "prepare"
  /\ epc' = IF NeedsDispatch THEN "spin" ELSE "poll"
  /\ UNCHANGED <<batch, ran, queues, stamps, fds>> /\ EFrame /\ JobFrame

\* poll() returns at once, or because of the eventfd, which is flushed.
EPoll ==
  /\ epc = "spin" \/ (epc = "poll" /\ eventfd)
  /\ epc' = "check" /\ eventfd' = FALSE
  /\ UNCHANGED <<batch, ran, queues, stamps, ownerfd>> /\ EFrame /\ JobFrame

\* poll() returns after the timeout that pcm_check_io() computed.  There is
\* none once the engine is stalled.
EPollTimeout ==
  /\ epc = "poll" /\ ~eventfd /\ ~atquit
  /\ epc' = "check"
  /\ UNCHANGED <<batch, ran, queues, stamps, fds>> /\ EFrame /\ JobFrame

\* check_sources_Lm: the verdict of CHECK replaces that of PREPARE.
ECheck ==
  /\ epc = "check"
  /\ epc' = IF NeedsDispatch THEN "write1" ELSE "next"
  /\ UNCHANGED <<batch, ran, queues, stamps, fds>> /\ EFrame /\ JobFrame

\* pcm_check_write (true); afterwards the driver may or may not accept more.
PcmCheckWrite ==
  IF writable /\ lag > 0
    THEN lag' = lag - buffer_size /\ writable' \in BOOLEAN
    ELSE UNCHANGED <<lag, writable>>

EWrite1 ==
  /\ epc = "write1"
  /\ PcmCheckWrite
  /\ epc' = IF lag' <= 0 THEN "popA1" ELSE "const"
  /\ UNCHANGED <<batch, ran, queues, buffer_size, pcm_driver, fds>> /\ EFrame /\ JobFrame

\* process_jobs has three call sites: async_jobs_ before rendering ("A1"),
\* async_jobs_ before const_jobs_ ("A2") and const_jobs_ ("C").
\* pop_reversed() takes the whole list; if it is empty, nothing follows.
PopAll(q) == [i \in 1..Len(q) |-> q[Len(q) + 1 - i]]       \* mutant: LIFO order
PopReversed(q) == q
EPop(pop, run, next) ==
  /\ epc = pop
  /\ IF pop = "popC"
       THEN batch' = PopReversed(const) /\ const' = <<>> /\ UNCHANGED async
       ELSE batch' = PopReversed(async) /\ async' = <<>> /\ UNCHANGED const
  /\ epc' = IF batch' = <<>> THEN next ELSE run
  /\ UNCHANGED <<ran, trash, user_notes, rt_jobs, stamps, fds>> /\ EFrame /\ JobFrame

\* update_driver_set, the job of UpdateDrivers; the writability of a driver
\* that was just installed is anything.
UpdateDriverSetStampFirst(d) ==                            \* mutant
  IF d # NoDriver /\ pcm_driver # d
    THEN /\ pcm_driver' = d /\ writable' \in BOOLEAN /\ lag' = buffer_size
         /\ buffer_size' = Min2(MAX_BUFFER_SIZE, BlockLength[d])
    ELSE UNCHANGED stamps
UpdateDriverSetUnchecked(d) ==                             \* mutant
  IF pcm_driver # d
    THEN pcm_driver' = d /\ lag' = buffer_size /\ UNCHANGED <<buffer_size, writable>>
    ELSE UNCHANGED stamps
UpdateDriverSet(d) ==
  IF d # NoDriver /\ pcm_driver # d
    THEN /\ pcm_driver' = d
         /\ buffer_size' = Min2(MAX_BUFFER_SIZE, BlockLength[d])
         /\ lag' = buffer_size'
         /\ writable' \in BOOLEAN
    ELSE UNCHANGED stamps

\* The clients whose semaphore the execution of a job posts.
PostedAll(job) == {c \in Clients : cpc[c] # "idle"}        \* mutant
Posted(job) == {c \in {by[job]} : Blocking(kind[job])}

\* job->func()
ERun(run, trashpc) ==
  /\ epc = run
  /\ LET job == Head(batch)
     IN /\ jst' = [jst EXCEPT ![job] = "done"]
        /\ UpdateDriverSet(drv[job])
        /\ sem' = [c \in Clients |-> sem[c] \/ c \in Posted(job)]
        /\ ran' = Append(ran, job)
        /\ adone' = IF run = "runC" THEN adone ELSE Append(adone, job)
  /\ batch' = Tail(batch)
  /\ epc' = IF batch' = <<>> THEN trashpc ELSE run
  /\ UNCHANGED <<queues, fds>> /\ EFrame

\* trash_jobs_.push_chain (jobs, last), which tells whether to wake the owner.
Chain == Range(ran)
ETrash(trashpc, wake, next) ==
  /\ epc = trashpc
  /\ trash' = trash \cup Chain /\ ran' = <<>>
  /\ epc' = IF trash = {} THEN wake ELSE next
  /\ UNCHANGED <<batch, async, const, user_notes, rt_jobs, stamps, fds>> /\ EFrame /\ JobFrame

EWakeOwner(wake, next) ==
  /\ epc = wake
  /\ ownerfd' = TRUE /\ epc' = next
  /\ UNCHANGED <<batch, ran, queues, stamps, eventfd>> /\ EFrame /\ JobFrame

ProcessJobs(pop, run, trashpc, wake, next) ==
  \/ EPop(pop, run, next)
  \/ ERun(run, trashpc)
  \/ ETrash(trashpc, wake, next)
  \/ EWakeOwner(wake, next)

\* Rendering may queue a call for the main thread (main_rt_jobs +=), which
\* wakes the main loop if it is the first one.
RtNoWakeup == "write2"                                     \* mutant
RtWakeup == IF rt_jobs = 0 THEN "rtwake" ELSE "write2"

\* schedule_render, unless an async job has adjusted the stamps.
ERender ==
  /\ epc = "render"
  /\ lag' = IF lag <= 0 THEN lag + buffer_size ELSE lag
  /\ \/ epc' = "write2" /\ UNCHANGED rt_jobs
     \/ /\ lag <= 0 /\ rt_jobs < MaxRtJobs
        /\ rt_jobs' = rt_jobs + 1 /\ epc' = RtWakeup
  /\ UNCHANGED <<batch, ran, async, const, trash, user_notes, buffer_size, pcm_driver, writable, fds>>
  /\ EFrame /\ JobFrame

EWrite2 ==
  /\ epc = "write2"
  /\ PcmCheckWrite
  /\ epc' = "const"
  /\ UNCHANGED <<batch, ran, queues, buffer_size, pcm_driver, fds>> /\ EFrame /\ JobFrame

\* A blocking owner must not wait for the next render cycle; pending
\* modifications come first.
ConstOnly == IF const # <<>> THEN "popC" ELSE "ipc"        \* mutant
ConstEntry == IF const # <<>> THEN "popA2" ELSE "ipc"
EConst ==
  /\ epc = "const"
  /\ epc' = ConstEntry
  /\ UNCHANGED <<batch, ran, queues, stamps, fds>> /\ EFrame /\ JobFrame

\* if (ipc_pending()) owner_wakeup_().
EIpc ==
  /\ epc = "ipc"
  /\ ownerfd' = (ownerfd \/ trash # {} \/ user_notes > 0)
  /\ epc' = "next"
  /\ UNCHANGED <<batch, ran, queues, stamps, eventfd>> /\ EFrame /\ JobFrame

\* The loop of MainLoop::run ends after quit().
ENext ==
  /\ epc = "next"
  /\ epc' = IF running THEN "prepare" ELSE "exit"
  /\ UNCHANGED <<batch, ran, queues, stamps, fds>> /\ EFrame /\ JobFrame

EngineStep ==
  \/ EPrepare \/ EPoll \/ ECheck \/ EWrite1
  \/ ProcessJobs("popA1", "runA1", "trashA1", "wakeA1", "render")
  \/ ERender \/ EWakeOwner("rtwake", "write2") \/ EWrite2 \/ EConst
  \/ ProcessJobs("popA2", "runA2", "trashA2", "wakeA2", "popC")
  \/ ProcessJobs("popC", "runC", "trashC", "wakeC", "ipc")
  \/ EIpc \/ ENext

\* The PCM hardware consumes audio.
DriverReady ==
  /\ ~writable /\ writable' = TRUE
  /\ UNCHANGED <<queues, engine, lag, buffer_size, pcm_driver, clients, owner, control, jobinfo,
                 history, jst, fds>>

-----------------------------------------------------------------------------
(* The owner: main loop iterations, stop_threads_ml and atquit_run *)

\* ipc_pending() || main_rt_jobs_pending()
IpcPending == trash # {} \/ user_notes > 0 \/ rt_jobs > 0
OFrame == UNCHANGED <<engine, stamps, clients, dset, async, const, jobinfo, history>>

OPrepare ==
  /\ opc = "idle" /\ cpc[Owner] = "idle"
  /\ opc' = IF IpcPending THEN "spin" ELSE "poll"
  /\ UNCHANGED <<trash, user_notes, rt_jobs, fds, jst, control>> /\ OFrame

OPoll ==
  /\ opc = "spin" \/ (opc = "poll" /\ ownerfd)
  /\ opc' = "check" /\ ownerfd' = FALSE
  /\ UNCHANGED <<trash, user_notes, rt_jobs, eventfd, jst, control>> /\ OFrame

\* Another event source of the main loop ends the poll.
OPollOther ==
  /\ opc = "poll" /\ ~ownerfd
  /\ opc' = "check"
  /\ UNCHANGED <<trash, user_notes, rt_jobs, fds, jst, control>> /\ OFrame

OCheck ==
  /\ opc = "check"
  /\ opc' = IF IpcPending THEN "notes" ELSE "idle"
  /\ UNCHANGED <<trash, user_notes, rt_jobs, fds, jst, control>> /\ OFrame

\* ipc_dispatch: user notes are delivered, executed jobs are deleted.
ONotes ==
  /\ opc = "notes"
  /\ user_notes' = 0 /\ opc' = "trash"
  /\ UNCHANGED <<trash, rt_jobs, fds, jst, control>> /\ OFrame

ExecutedJobs == trash \cup Range(ran)                      \* mutant
TrashedJobs == trash
OTrash ==
  /\ opc = "trash"
  /\ trash' = {} /\ opc' = "rtjobs"
  /\ jst' = [j \in Jobs |-> IF j \in TrashedJobs THEN "deleted" ELSE jst[j]]
  /\ UNCHANGED <<user_notes, rt_jobs, fds, control>> /\ OFrame

\* main_rt_jobs_process
ORtJobs ==
  /\ opc = "rtjobs"
  /\ rt_jobs' = 0 /\ opc' = "idle"
  /\ UNCHANGED <<trash, user_notes, fds, jst, control>> /\ OFrame

\* stop_threads_ml: quit the engine's loop and join its thread.
OStop ==
  /\ "stop" \in ShutdownCalls
  /\ thread /\ opc = "idle" /\ cpc[Owner] = "idle"
  /\ running' = FALSE /\ eventfd' = TRUE /\ opc' = "join"
  /\ UNCHANGED <<trash, user_notes, rt_jobs, ownerfd, jst, thread, atquit>> /\ OFrame

OJoin ==
  /\ opc = "join" /\ epc = "exit"
  /\ thread' = FALSE /\ opc' = "idle"
  /\ UNCHANGED <<trash, user_notes, rt_jobs, fds, jst, running, atquit>> /\ OFrame

\* atquit_run never returns; the engine is stalled from then on.
OAtquit ==
  /\ "atquit" \in ShutdownCalls
  /\ opc = "idle" /\ cpc[Owner] = "idle"
  /\ atquit' = TRUE /\ opc' = "aborting"
  /\ UNCHANGED <<trash, user_notes, rt_jobs, fds, jst, thread, running>> /\ OFrame

OwnerStep == OPrepare \/ OPoll \/ OCheck \/ ONotes \/ OTrash \/ ORtJobs \/ OJoin

-----------------------------------------------------------------------------
ClientStep(c) == WakeEngine(c) \/ SemWait(c)
ClientCall ==
  \/ \E c \in Clients, j \in Jobs : RunDirectly(c, j) \/ \E k \in Kinds : AddJob(c, j, k)
  \/ \E j \in Jobs, d \in Drivers, failed \in BOOLEAN : UpdateDrivers(j, d, failed)

Next ==
  \/ ClientCall
  \/ \E c \in Clients : ClientStep(c)
  \/ EngineStep \/ EPollTimeout \/ DriverReady
  \/ OwnerStep \/ OPollOther \/ OStop \/ OAtquit

\* The threads are scheduled, the PCM device consumes audio.  No thread has
\* to rely on a timeout, on another event or on a client's next call.
Fairness ==
  /\ WF_vars(EngineStep) /\ WF_vars(DriverReady) /\ WF_vars(OwnerStep)
  /\ \A c \in Clients : WF_vars(ClientStep(c))

Spec == Init /\ [][Next]_vars /\ Fairness

-----------------------------------------------------------------------------
(* Properties *)

(* At every step at most one block separates what is rendered from what was *)
(* written, whatever driver changes the jobs make: pcm_check_write, which   *)
(* asserts write_stamp_ == render_stamp_ after each write, always writes    *)
(* the buffer rendered last (or one buffer of zeros), never half a block.   *)
StampsInSync == lag \in {0, buffer_size}

(* The engine never sleeps in poll() while a job is queued, unless a wakeup *)
(* is pending or a client is about to send it (or the program aborts):      *)
(* waking only if the queue was empty (add_job_mt) together with flushing   *)
(* the eventfd before CHECK loses no job.                                   *)
NoLostJobWakeup ==
  epc = "poll" /\ JobsPending /\ ~atquit => eventfd \/ \E c \in Clients : cpc[c] = "wake"

(* The owner never sleeps while executed jobs, user notes or RT calls wait  *)
(* for ipc_dispatch or main_rt_jobs_process, unless its wakeup is pending   *)
(* or about to be sent by the engine.                                       *)
OwnerNotified ==
  opc = "poll" /\ IpcPending =>
    ownerfd \/ epc \in {"wakeA1", "wakeA2", "wakeC", "rtwake"}

(* Jobs of async_jobs_, asynchronous and synchronized ones of all clients,  *)
(* are executed exactly once and in the order in which they were pushed,    *)
(* although the queue is a LIFO list and is popped at two call sites.       *)
AsyncFIFO ==
  /\ Len(adone) <= Len(apush)
  /\ \A i \in 1..Len(adone) : adone[i] = apush[i]

(* No job is freed while the engine can still reach it, and none is freed   *)
(* before it ran: a job in a queue or in the batch under execution has not  *)
(* run, one in the executed chain or in trash_jobs_ has run, and neither is *)
(* deleted.                                                                 *)
JobsOwnedByEngine ==
  /\ \A j \in Range(async) \cup Range(const) \cup Range(batch) : jst[j] = "queued"
  /\ \A j \in Range(ran) \cup trash : jst[j] = "done"

(* A blocking call of add_job_mt can return only after its own job ran: the *)
(* semaphore a client waits for is never posted on behalf of another job.   *)
BlockingCallDone ==
  \A c \in Clients : cpc[c] = "wait" /\ sem[c] => jst[cjob[c]] \in {"done", "deleted"}

(* A const job observes all modifications its client queued earlier: when   *)
(* it has run, so have the async jobs that the same thread pushed before    *)
(* it.  The two process_jobs calls of driver_dispatcher guarantee it as     *)
(* long as all jobs come from one thread, which is blocked meanwhile.       *)
ConstSeesModifications ==
  \A j \in Jobs : kind[j] = "const" /\ jst[j] \in {"done", "deleted"} =>
    \A i \in 1..mark[j] : by[apush[i]] = by[j] => jst[apush[i]] # "queued"

(* When update_drivers has returned, the engine uses the driver the main    *)
(* loop chose, with the block size of that driver.                          *)
DriverSettled ==
  thread /\ opc = "idle" /\ cpc[Owner] = "idle" =>
    /\ pcm_driver = dset
    /\ buffer_size = Min2(MAX_BUFFER_SIZE, BlockLength[dset])

(* Every queued job is eventually executed, without help of poll timeouts,  *)
(* unless the engine is being stopped or the program aborts.                *)
JobsExecuted ==
  \A j \in Jobs : jst[j] = "queued" ~> jst[j] # "queued" \/ ~running \/ atquit

(* Every blocking call eventually returns, unless the engine is stopped or  *)
(* the program aborts: clients, engine and owner never wait for each other. *)
CallsReturn ==
  \A c \in Clients : cpc[c] # "idle" ~> cpc[c] = "idle" \/ ~running \/ atquit

(* Every executed job is eventually deleted by the owner, also after the    *)
(* engine thread was stopped: the hand-over via trash_jobs_ and the owner's *)
(* wakeup leaks none (unless the program aborts).                           *)
JobsReclaimed == \A j \in Jobs : jst[j] = "done" ~> jst[j] = "deleted" \/ atquit

(* No job, and nobody who waits for one, is forgotten.                      *)
JobsComplete == JobsExecuted /\ CallsReturn /\ JobsReclaimed

-----------------------------------------------------------------------------
(* Instances for TLC: blocks of the null driver exceed MAX_BUFFER_SIZE,    *)
(* those of the PCM driver are shorter.                                    *)
MCBlockLength == [d \in Drivers |-> IF d = NullDriver THEN 4 ELSE 2]
JobPermutations == {[j \in Jobs |-> f[j]] : f \in {g \in [Jobs -> Jobs] : IsInjective(g)}}
=============================================================================
