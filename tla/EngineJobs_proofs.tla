-------------------------- MODULE EngineJobs_proofs --------------------------
(***************************************************************************)
(* Theorems about EngineJobs for every number of clients, jobs and drivers *)
(* and every block length.                                                 *)
(***************************************************************************)
EXTENDS EngineJobs, SequenceTheorems, TLAPS

(* process_jobs executes the head of a batch only while there is one. *)
BatchReady == epc \in {"runA1", "runA2", "runC"} => batch # <<>>
TypeInv == TypeOK /\ BatchReady

(* The operations of process_jobs at its three call sites.                  *)
Pop == EPop("popA1", "runA1", "render") \/ EPop("popA2", "runA2", "popC")
       \/ EPop("popC", "runC", "ipc")
Run == ERun("runA1", "trashA1") \/ ERun("runA2", "trashA2") \/ ERun("runC", "trashC")
Trash == ETrash("trashA1", "wakeA1", "render") \/ ETrash("trashA2", "wakeA2", "popC")
         \/ ETrash("trashC", "wakeC", "ipc")
WakeOwner == EWakeOwner("wakeA1", "render") \/ EWakeOwner("wakeA2", "popC")
             \/ EWakeOwner("wakeC", "ipc") \/ EWakeOwner("rtwake", "write2")

(* Every step of the system is one of its operations.                       *)
LEMMA StepCases ==
  ASSUME [Next]_vars
  PROVE  \/ \E c \in Clients, j \in Jobs : RunDirectly(c, j)
         \/ \E c \in Clients, j \in Jobs, k \in Kinds : AddJob(c, j, k)
         \/ \E j \in Jobs, d \in Drivers, failed \in BOOLEAN : UpdateDrivers(j, d, failed)
         \/ \E c \in Clients : WakeEngine(c)
         \/ \E c \in Clients : SemWait(c)
         \/ Pop \/ Run \/ Trash \/ WakeOwner
         \/ EPrepare \/ EPoll \/ ECheck \/ EWrite1 \/ ERender \/ EWrite2 \/ EConst \/ EIpc \/ ENext
         \/ EPollTimeout \/ DriverReady
         \/ OPrepare \/ OPoll \/ OPollOther \/ OCheck \/ ONotes \/ OTrash \/ ORtJobs
         \/ OJoin \/ OStop \/ OAtquit
         \/ UNCHANGED vars
  BY Zenon DEF Next, ClientCall, ClientStep, EngineStep, OwnerStep, ProcessJobs, Pop, Run,
               Trash, WakeOwner

-----------------------------------------------------------------------------
(* Type correctness *)

LEMMA MinPositive == \A a, b \in Nat \ {0} : Min2(a, b) \in Nat \ {0}
  BY DEF Min2

LEMMA AppendInSeq == ASSUME NEW S, NEW s \in Seq(S), NEW e \in S PROVE Append(s, e) \in Seq(S)
  OBVIOUS

LEMMA RangeInSet == ASSUME NEW S, NEW s \in Seq(S) PROVE Range(s) \subseteq S
  BY DEF Range

LEMMA InitType == Init => TypeInv
<1> SUFFICES ASSUME Init PROVE TypeInv
  OBVIOUS
<1> USE OwnerAssumption, DriverAssumption, BoundAssumption DEF Init
<1>1. buffer_size \in Nat \ {0} /\ lag \in Int
  BY MinPositive
<1>2. /\ async \in Seq(Jobs) /\ const \in Seq(Jobs) /\ batch \in Seq(Jobs) /\ ran \in Seq(Jobs)
      /\ apush \in Seq(Jobs) /\ adone \in Seq(Jobs)
  OBVIOUS
<1>3. /\ cpc \in [Clients -> {"idle", "wake", "wait"}] /\ cjob \in [Clients -> Jobs \cup {NoJob}]
      /\ sem \in [Clients -> BOOLEAN]
  OBVIOUS
<1>4. /\ jst \in [Jobs -> {"unused", "queued", "done", "deleted"}] /\ kind \in [Jobs -> Kinds]
      /\ by \in [Jobs -> Clients] /\ drv \in [Jobs -> Drivers \cup {NoDriver}]
      /\ mark \in [Jobs -> Nat]
  BY DEF Kinds
<1> QED
  BY <1>1, <1>2, <1>3, <1>4 DEF TypeInv, TypeOK, BatchReady, EnginePcs, OwnerPcs

LEMMA NextType == TypeInv /\ [Next]_vars => TypeInv'
<1> SUFFICES ASSUME TypeInv, [Next]_vars PROVE TypeInv'
  OBVIOUS
<1> USE OwnerAssumption, DriverAssumption, BoundAssumption
    DEF TypeInv, TypeOK, BatchReady, queues, engine, stamps, clients, owner, control, jobinfo,
        history, fds
<1>1. ASSUME NEW c \in Clients, NEW j \in Jobs, RunDirectly(c, j) PROVE TypeInv'
  BY <1>1 DEF RunDirectly
<1>2. ASSUME NEW c \in Clients, NEW j \in Jobs, NEW k \in Kinds, NEW d \in Drivers \cup {NoDriver},
             Enqueue(c, j, k, d), dset' \in Drivers, user_notes' \in Nat, ownerfd' \in BOOLEAN
      PROVE  TypeInv'
  <2>1. cpc' \in [Clients -> {"idle", "wake", "wait"}] /\ cjob' \in [Clients -> Jobs \cup {NoJob}]
    BY <1>2 DEF Enqueue
  <2>2. async' \in Seq(Jobs) /\ const' \in Seq(Jobs) /\ apush' \in Seq(Jobs)
    <3>1. \/ const' = Append(const, j) /\ async' = async /\ apush' = apush
          \/ async' = Append(async, j) /\ apush' = Append(apush, j) /\ const' = const
      BY <1>2 DEF Enqueue
    <3>2. async \in Seq(Jobs) /\ const \in Seq(Jobs) /\ apush \in Seq(Jobs)
      OBVIOUS
    <3>3. /\ Append(async, j) \in Seq(Jobs) /\ Append(const, j) \in Seq(Jobs)
          /\ Append(apush, j) \in Seq(Jobs)
      BY <3>2, AppendInSeq
    <3> HIDE DEF TypeInv
    <3> QED
      BY <3>1, <3>2, <3>3, Zenon
  <2>3. jst' \in [Jobs -> {"unused", "queued", "done", "deleted"}]
    BY <1>2 DEF Enqueue
  <2>4. /\ kind' \in [Jobs -> Kinds] /\ by' \in [Jobs -> Clients]
        /\ drv' \in [Jobs -> Drivers \cup {NoDriver}] /\ mark' \in [Jobs -> Nat]
    BY <1>2 DEF Enqueue
  <2>5. UNCHANGED <<sem, trash, rt_jobs, engine, stamps, opc, control, adone, eventfd>>
    BY <1>2 DEF Enqueue
  <2> QED
    BY <1>2, <2>1, <2>2, <2>3, <2>4, <2>5
<1>3. ASSUME NEW c \in Clients, NEW j \in Jobs, NEW k \in Kinds, AddJob(c, j, k) PROVE TypeInv'
  BY <1>2, <1>3 DEF AddJob
<1>4. ASSUME NEW j \in Jobs, NEW d \in Drivers, NEW failed \in BOOLEAN, UpdateDrivers(j, d, failed)
      PROVE  TypeInv'
  <2>1. (IF failed THEN NullDriver ELSE d) \in Drivers
    OBVIOUS
  <2>2. dset' \in Drivers /\ user_notes' \in Nat /\ ownerfd' \in BOOLEAN
    BY <1>4, <2>1 DEF UpdateDrivers
  <2>3. Enqueue(Owner, j, "sync", IF failed THEN NullDriver ELSE d)
    BY <1>4 DEF UpdateDrivers
  <2> QED
    BY <1>2, <2>1, <2>2, <2>3 DEF Kinds
<1>5. ASSUME NEW c \in Clients, WakeEngine(c) PROVE TypeInv'
  BY <1>5 DEF WakeEngine
<1>6. ASSUME NEW c \in Clients, SemWait(c) PROVE TypeInv'
  BY <1>6 DEF SemWait
<1>7. CASE Pop
  <2>1. batch' \in Seq(Jobs) /\ async' \in Seq(Jobs) /\ const' \in Seq(Jobs)
    <3>1. \/ batch' = const /\ const' = <<>> /\ async' = async
          \/ batch' = async /\ async' = <<>> /\ const' = const
      BY <1>7 DEF Pop, EPop, PopReversed
    <3>2. async \in Seq(Jobs) /\ const \in Seq(Jobs) /\ <<>> \in Seq(Jobs)
      OBVIOUS
    <3> HIDE DEF TypeInv
    <3> QED
      BY <3>1, <3>2, Zenon
  <2>2. epc' \in EnginePcs /\ BatchReady'
    BY <1>7 DEF Pop, EPop, EnginePcs
  <2> QED
    BY <1>7, <2>1, <2>2 DEF Pop, EPop, EFrame, JobFrame
<1>8. CASE Run
  <2> DEFINE job == Head(batch)
  <2>1. batch # <<>> /\ job \in Jobs /\ Tail(batch) \in Seq(Jobs)
    BY <1>8 DEF Run, ERun
  <2>2. UpdateDriverSet(drv[job])
    BY <1>8 DEF Run, ERun
  <2>3. pcm_driver' \in Drivers /\ buffer_size' \in Nat \ {0} /\ lag' \in Int
    <3>1. CASE drv[job] # NoDriver /\ pcm_driver # drv[job]
      <4>1. drv[job] \in Drivers
        BY <3>1, <2>1
      <4>2. /\ pcm_driver' = drv[job] /\ lag' = buffer_size'
            /\ buffer_size' = Min2(MAX_BUFFER_SIZE, BlockLength[drv[job]])
        BY <3>1, <2>2, Zenon DEF UpdateDriverSet
      <4> QED
        <5>1. buffer_size' \in Nat \ {0}
          BY <4>1, <4>2, MinPositive
        <5> QED
          BY <5>1, <4>1, <4>2
    <3>2. CASE ~(drv[job] # NoDriver /\ pcm_driver # drv[job])
      BY <3>2, <2>2 DEF UpdateDriverSet
    <3> QED
      BY <3>1, <3>2
  <2>a. writable' \in BOOLEAN
    BY <2>2, Zenon DEF UpdateDriverSet
  <2>4. jst' \in [Jobs -> {"unused", "queued", "done", "deleted"}] /\ sem' \in [Clients -> BOOLEAN]
    BY <1>8, <2>1 DEF Run, ERun
  <2>5. ran' \in Seq(Jobs) /\ adone' \in Seq(Jobs) /\ batch' \in Seq(Jobs)
    <3>1. ran' = Append(ran, job) /\ (adone' = adone \/ adone' = Append(adone, job)) /\ batch' = Tail(batch)
      BY <1>8 DEF Run, ERun
    <3>2. ran \in Seq(Jobs) /\ adone \in Seq(Jobs)
      OBVIOUS
    <3> HIDE DEF job, TypeInv
    <3> QED
      BY <3>1, <3>2, <2>1, AppendInSeq, Zenon
  <2>6. epc' \in EnginePcs /\ BatchReady'
    BY <1>8 DEF Run, ERun, EnginePcs
  <2> QED
    <3>1. UNCHANGED <<queues, fds, cpc, cjob, owner, control, jobinfo, apush>>
      BY <1>8 DEF Run, ERun, EFrame
    <3> QED
      BY <2>3, <2>a, <2>4, <2>5, <2>6, <3>1
<1>9. CASE Trash
  <2>1. trash' \in SUBSET Jobs /\ ran' \in Seq(Jobs)
    <3>1. trash' = trash \cup Range(ran) /\ ran' = <<>>
      BY <1>9 DEF Trash, ETrash, Chain
    <3>2. Range(ran) \subseteq Jobs
      BY RangeInSet
    <3> QED
      BY <3>1, <3>2
  <2> QED
    BY <1>9, <2>1 DEF Trash, ETrash, EFrame, JobFrame, EnginePcs
<1>10. CASE WakeOwner
  BY <1>10 DEF WakeOwner, EWakeOwner, EFrame, JobFrame, EnginePcs
<1>12. CASE EPrepare \/ EPoll \/ ECheck \/ EConst \/ EIpc \/ ENext \/ EPollTimeout
  BY <1>12 DEF EPrepare, EPoll, ECheck, EConst, ConstEntry, EIpc, ENext, EPollTimeout, EFrame,
               JobFrame, EnginePcs
<1>13. CASE EWrite1
  BY <1>13 DEF EWrite1, PcmCheckWrite, EFrame, JobFrame, EnginePcs
<1>20. CASE EWrite2
  BY <1>20 DEF EWrite2, PcmCheckWrite, EFrame, JobFrame, EnginePcs
<1>14. CASE ERender
  BY <1>14 DEF ERender, RtWakeup, EFrame, JobFrame, EnginePcs
<1>15. CASE DriverReady
  BY <1>15 DEF DriverReady
<1>16. CASE OPrepare \/ OPoll \/ OPollOther \/ OCheck
  BY <1>16 DEF OPrepare, OPoll, OPollOther, OCheck, OFrame, OwnerPcs
<1>21. CASE ONotes
  BY <1>21 DEF ONotes, OFrame, OwnerPcs
<1>22. CASE ORtJobs
  BY <1>22 DEF ORtJobs, OFrame, OwnerPcs
<1>17. CASE OTrash
  BY <1>17 DEF OTrash, OFrame, OwnerPcs
<1>18. CASE OJoin \/ OStop \/ OAtquit
  BY <1>18 DEF OJoin, OStop, OAtquit, OFrame, OwnerPcs
<1>19. CASE UNCHANGED vars
  BY <1>19 DEF vars
<1> HIDE DEF TypeInv, queues, engine, stamps, clients, owner, control, jobinfo, history, fds
<1> QED
  BY StepCases, <1>1, <1>3, <1>4, <1>5, <1>6, <1>7, <1>8, <1>9, <1>10, <1>12, <1>13, <1>14,
     <1>15, <1>16, <1>17, <1>18, <1>19, <1>20, <1>21, <1>22

(* The state of engine, owner and clients is well formed in every reachable *)
(* state; in particular process_jobs (engine.cc) never takes a job from an  *)
(* empty batch.                                                             *)
THEOREM TypeCorrect == Spec => []TypeOK
<1>1. Init => TypeInv
  BY InitType
<1>2. TypeInv /\ [Next]_vars => TypeInv'
  BY NextType
<1>3. TypeInv => TypeOK
  BY DEF TypeInv
<1> QED
  BY <1>1, <1>2, <1>3, PTL DEF Spec

-----------------------------------------------------------------------------
(* Render and write stamps *)

LEMMA NextStamps == TypeInv /\ StampsInSync /\ [Next]_vars => StampsInSync'
<1> SUFFICES ASSUME TypeInv, StampsInSync, [Next]_vars PROVE StampsInSync'
  OBVIOUS
<1> USE DEF StampsInSync
<1>1. lag \in Int /\ buffer_size \in Nat \ {0}
  BY DEF TypeInv, TypeOK
<1>2. CASE UNCHANGED <<lag, buffer_size>>
  BY <1>2
<1>3. CASE Run
  <2>1. UpdateDriverSet(drv[Head(batch)])
    BY <1>3 DEF Run, ERun
  <2> QED
    BY <2>1, <1>2, Zenon DEF UpdateDriverSet, stamps
<1>4. CASE EWrite1 \/ EWrite2
  <2>1. PcmCheckWrite /\ buffer_size' = buffer_size
    BY <1>4 DEF EWrite1, EWrite2
  <2>2. CASE writable /\ lag > 0
    BY <2>1, <2>2, <1>1 DEF PcmCheckWrite
  <2>3. CASE ~(writable /\ lag > 0)
    BY <2>1, <2>3, <1>2 DEF PcmCheckWrite
  <2> QED
    BY <2>2, <2>3
<1>5. CASE ERender
  BY <1>1, <1>5 DEF ERender
<1>6. ASSUME ~Run, ~EWrite1, ~EWrite2, ~ERender PROVE UNCHANGED <<lag, buffer_size>>
  BY <1>6, StepCases
  DEF RunDirectly, AddJob, UpdateDrivers, Enqueue, WakeEngine, SemWait, Pop, EPop, Trash, ETrash,
      WakeOwner, EWakeOwner, EPrepare, EPoll, ECheck, EConst, EIpc, ENext, EPollTimeout, DriverReady,
      OPrepare, OPoll, OPollOther, OCheck, ONotes, OTrash, ORtJobs, OJoin, OStop, OAtquit, OFrame,
      vars, stamps
<1> QED
  BY <1>2, <1>3, <1>4, <1>5, <1>6

(* For every sequence of driver changes, writes and render calls, the write *)
(* stamp is level with the render stamp or exactly one block behind: the    *)
(* assertion of pcm_check_write (engine.cc) holds for all block lengths.    *)
THEOREM StampsAlwaysInSync == Spec => []StampsInSync
<1>1. Init => TypeInv /\ StampsInSync
  BY InitType DEF Init, StampsInSync
<1>2. TypeInv /\ StampsInSync /\ [Next]_vars => (TypeInv /\ StampsInSync)'
  BY NextType, NextStamps
<1> QED
  BY <1>1, <1>2, PTL DEF Spec

-----------------------------------------------------------------------------
(* Wakeups *)

LEMMA NextJobWakeup == TypeInv /\ NoLostJobWakeup /\ [Next]_vars => NoLostJobWakeup'
<1> SUFFICES ASSUME TypeInv, NoLostJobWakeup, [Next]_vars PROVE NoLostJobWakeup'
  OBVIOUS
<1> USE DEF NoLostJobWakeup, JobsPending
<1>1. cpc \in [Clients -> {"idle", "wake", "wait"}]
  BY DEF TypeInv, TypeOK
<1>2. ASSUME NEW c \in Clients, NEW j, NEW k, NEW d, Enqueue(c, j, k, d) PROVE NoLostJobWakeup'
  <2>1. epc' = epc /\ atquit' = atquit /\ eventfd' = eventfd
    BY <1>2 DEF Enqueue, engine, control
  <2>2. CASE WasEmpty(k)
    BY <1>1, <1>2, <2>2 DEF Enqueue
  <2>3. CASE ~WasEmpty(k)
    <3>1. JobsPending
      BY <2>3 DEF WasEmpty
    <3>2. ASSUME NEW x \in Clients, cpc[x] = "wake" PROVE cpc'[x] = "wake"
      BY <1>1, <1>2, <3>2 DEF Enqueue, MayCall
    <3> QED
      BY <2>1, <3>1, <3>2
  <2> QED
    BY <2>2, <2>3
<1>3. CASE \E c \in Clients : WakeEngine(c)
  BY <1>3 DEF WakeEngine
<1>4. CASE EPrepare
  BY <1>4 DEF EPrepare, NeedsDispatch, EFrame, queues, control, fds
<1>5. ASSUME NEW c \in Clients, SemWait(c) PROVE NoLostJobWakeup'
  <2>1. ASSUME NEW x \in Clients, cpc[x] = "wake" PROVE cpc'[x] = "wake"
    BY <1>1, <1>5, <2>1 DEF SemWait
  <2> QED
    BY <1>5, <2>1 DEF SemWait, queues, engine, control, fds
<1>6. CASE OAtquit
  BY <1>6 DEF OAtquit
<1>7. CASE OStop
  BY <1>7 DEF OStop
<1>8. CASE epc' # "poll"
  BY <1>8
<1>9. CASE UNCHANGED <<epc, async, const, atquit, eventfd, cpc>>
  BY <1>9
<1>10. ASSUME NEW c \in Clients, NEW j \in Jobs, RunDirectly(c, j)
       PROVE UNCHANGED <<epc, async, const, atquit, eventfd, cpc>>
  BY <1>10 DEF RunDirectly, queues, engine, control, fds, clients
<1>11. CASE Pop \/ Run \/ Trash \/ WakeOwner
  <2>1. epc' # "poll"
    BY <1>11 DEF Pop, EPop, Run, ERun, Trash, ETrash, WakeOwner, EWakeOwner
  <2> QED
    BY <2>1, <1>8
<1>12. CASE EPoll \/ ECheck \/ EWrite1 \/ ERender \/ EWrite2 \/ EConst \/ EIpc \/ ENext \/ EPollTimeout
  <2>1. epc' # "poll"
    BY <1>12 DEF EPoll, ECheck, EWrite1, ERender, RtWakeup, EWrite2, EConst, ConstEntry, EIpc, ENext,
                 EPollTimeout
  <2> QED
    BY <2>1, <1>8
<1>13. CASE DriverReady
  BY <1>9, <1>13 DEF DriverReady, queues, engine, control, fds, clients
<1>14. CASE OPrepare \/ OPoll \/ OPollOther \/ OCheck \/ ONotes \/ OTrash \/ ORtJobs \/ OJoin
  BY <1>9, <1>14 DEF OPrepare, OPoll, OPollOther, OCheck, ONotes, OTrash, ORtJobs, OJoin, OFrame,
                     engine, clients, control, fds
<1>15. CASE UNCHANGED vars
  BY <1>9, <1>15 DEF vars, queues, engine, clients, control, fds
<1> HIDE DEF NoLostJobWakeup, JobsPending
<1> QED
  BY StepCases, OwnerAssumption, <1>2, <1>3, <1>4, <1>5, <1>6, <1>7, <1>9, <1>10, <1>11, <1>12, <1>13,
     <1>14, <1>15
  DEF AddJob, UpdateDrivers

(* No number of clients makes add_job_mt lose the wakeup of the engine: its *)
(* thread never sleeps on a queued job without a wakeup on the way.         *)
THEOREM JobWakeupNeverLost == Spec => []NoLostJobWakeup
<1>1. Init => TypeInv /\ NoLostJobWakeup
  BY InitType DEF Init, NoLostJobWakeup
<1>2. TypeInv /\ NoLostJobWakeup /\ [Next]_vars => (TypeInv /\ NoLostJobWakeup)'
  BY NextType, NextJobWakeup
<1> QED
  BY <1>1, <1>2, PTL DEF Spec

LEMMA NextOwnerWakeup == TypeInv /\ OwnerNotified /\ [Next]_vars => OwnerNotified'
<1> SUFFICES ASSUME TypeInv, OwnerNotified, [Next]_vars PROVE OwnerNotified'
  OBVIOUS
<1> USE DEF OwnerNotified, IpcPending
<1>1. user_notes \in Nat /\ rt_jobs \in Nat
  BY DEF TypeInv, TypeOK
<1>2. CASE opc' # "poll"
  BY <1>2
<1>3. CASE UNCHANGED <<opc, trash, user_notes, rt_jobs, ownerfd, epc>>
  BY <1>3
<1>4. CASE /\ UNCHANGED <<opc, trash, user_notes, rt_jobs, ownerfd>>
           /\ epc \notin {"wakeA1", "wakeA2", "wakeC", "rtwake"}
  BY <1>4
<1>5. ASSUME NEW j, NEW d, NEW failed, UpdateDrivers(j, d, failed) PROVE OwnerNotified'
  BY <1>5, <1>2 DEF UpdateDrivers, Enqueue, MayCall
<1>6. ASSUME NEW c, NEW j, NEW k, AddJob(c, j, k) PROVE OwnerNotified'
  BY <1>6, <1>3 DEF AddJob, Enqueue, engine
<1>7. CASE Trash
  <2>1. UNCHANGED <<opc, user_notes, rt_jobs, ownerfd>>
    BY <1>7 DEF Trash, ETrash, EFrame, owner, fds
  <2>2. CASE trash = {}
    BY <1>7, <2>2 DEF Trash, ETrash
  <2>3. CASE trash # {}
    BY <1>7, <2>1, <2>3 DEF Trash, ETrash
  <2> QED
    BY <2>2, <2>3
<1>8. CASE WakeOwner \/ EIpc
  BY <1>1, <1>8 DEF WakeOwner, EWakeOwner, EIpc, EFrame, queues, owner
<1>9. CASE ERender
  <2>1. UNCHANGED <<opc, trash, user_notes, ownerfd>>
    BY <1>9 DEF ERender, EFrame, owner, fds
  <2>2. epc = "render" /\ (rt_jobs' = rt_jobs \/ rt_jobs > 0 \/ epc' = "rtwake")
    BY <1>1, <1>9 DEF ERender, RtWakeup
  <2> QED
    BY <2>1, <2>2
<1>10. CASE Pop \/ Run
  <2>1. epc \notin {"wakeA1", "wakeA2", "wakeC", "rtwake"}
    BY <1>10 DEF Pop, Run, EPop, ERun
  <2>2. UNCHANGED <<opc, trash, user_notes, rt_jobs, ownerfd>>
    BY <1>10 DEF Pop, Run, EPop, ERun, EFrame, queues, owner, fds
  <2> QED
    BY <2>1, <2>2, <1>4
<1>11. CASE EPrepare \/ EPoll \/ ECheck \/ EWrite1 \/ EWrite2 \/ EConst \/ ENext \/ EPollTimeout
  <2>1. epc \notin {"wakeA1", "wakeA2", "wakeC", "rtwake"}
    BY <1>11 DEF EPrepare, EPoll, ECheck, EWrite1, EWrite2, EConst, ENext, EPollTimeout
  <2>2. UNCHANGED <<opc, trash, user_notes, rt_jobs, ownerfd>>
    BY <1>11 DEF EPrepare, EPoll, ECheck, EWrite1, EWrite2, EConst, ENext, EPollTimeout, EFrame,
                 queues, owner, fds
  <2> QED
    BY <2>1, <2>2, <1>4
<1>12. ASSUME NEW c, \/ WakeEngine(c) \/ SemWait(c) \/ \E j \in Jobs : RunDirectly(c, j)
       PROVE  OwnerNotified'
  BY <1>12, <1>3 DEF WakeEngine, SemWait, RunDirectly, queues, engine, owner, fds
<1>13. CASE DriverReady
  BY <1>13, <1>3 DEF DriverReady, queues, engine, owner, fds
<1>14. CASE OPrepare
  BY <1>14 DEF OPrepare, OFrame, fds, engine
<1>15. CASE OPoll \/ OPollOther \/ OCheck \/ ONotes \/ OTrash \/ ORtJobs \/ OJoin \/ OStop \/ OAtquit
  BY <1>15, <1>2 DEF OPoll, OPollOther, OCheck, ONotes, OTrash, ORtJobs, OJoin, OStop, OAtquit
<1>16. CASE UNCHANGED vars
  BY <1>16, <1>3 DEF vars, queues, engine, owner, fds
<1> HIDE DEF OwnerNotified, IpcPending
<1> QED
  BY StepCases, <1>5, <1>6, <1>7, <1>8, <1>9, <1>10, <1>11, <1>12, <1>13, <1>14, <1>15, <1>16

(* The owner never sleeps on executed jobs, user notes or RT calls without  *)
(* a wakeup that was or is about to be sent (process_jobs, queue_user_note, *)
(* RtJobQueue): none of them waits for an unrelated event of the main loop. *)
THEOREM OwnerAlwaysNotified == Spec => []OwnerNotified
<1>1. Init => TypeInv /\ OwnerNotified
  BY InitType DEF Init, OwnerNotified
<1>2. TypeInv /\ OwnerNotified /\ [Next]_vars => (TypeInv /\ OwnerNotified)'
  BY NextType, NextOwnerWakeup
<1> QED
  BY <1>1, <1>2, PTL DEF Spec

-----------------------------------------------------------------------------
(* Execution order of async_jobs_ *)

(* The inductive form of AsyncFIFO: what was pushed is what has run, then   *)
(* what process_jobs has popped from async_jobs_, then what is queued.      *)
PoppedAsync == IF epc \in {"runA1", "runA2"} THEN batch ELSE <<>>
AsyncHistory == apush = adone \o (PoppedAsync \o async)

LEMMA ConcatAppend ==
  ASSUME NEW s \in Seq(Jobs), NEW t \in Seq(Jobs), NEW u \in Seq(Jobs), NEW e \in Jobs
  PROVE  Append(s \o (t \o u), e) = s \o (t \o Append(u, e))
<1> DEFINE l == Append(s \o (t \o u), e)
           r == s \o (t \o Append(u, e))
<1>1. t \o u \in Seq(Jobs) /\ Append(u, e) \in Seq(Jobs)
  BY ConcatProperties, AppendInSeq
<1>2. s \o (t \o u) \in Seq(Jobs) /\ t \o Append(u, e) \in Seq(Jobs)
  BY <1>1, ConcatProperties
<1>3. l \in Seq(Jobs) /\ r \in Seq(Jobs)
  BY <1>1, <1>2, ConcatProperties, AppendInSeq
<1>4. Len(l) = Len(r) /\ \A i \in 1..Len(l) : l[i] = r[i]
  BY <1>1, <1>2
<1> HIDE DEF l, r
<1>5. l = r
  BY <1>3, <1>4, SeqEqual
<1> QED
  BY <1>5 DEF l, r

LEMMA ConcatHead ==
  ASSUME NEW S, NEW s \in Seq(S), NEW t \in Seq(S), NEW u \in Seq(S), t # <<>>
  PROVE  s \o (t \o u) = Append(s, Head(t)) \o (Tail(t) \o u)
<1> DEFINE l == s \o (t \o u)
           r == Append(s, Head(t)) \o (Tail(t) \o u)
<1>1. Head(t) \in S /\ Tail(t) \in Seq(S)
  BY HeadTailProperties
<1>2. t \o u \in Seq(S) /\ Append(s, Head(t)) \in Seq(S) /\ Tail(t) \o u \in Seq(S)
  BY <1>1, ConcatProperties, AppendInSeq
<1>3. l \in Seq(S) /\ r \in Seq(S)
  BY <1>2, ConcatProperties
<1>4. Len(l) = Len(r) /\ \A i \in 1..Len(l) : l[i] = r[i]
  BY <1>1, <1>2
<1> HIDE DEF l, r
<1>5. l = r
  BY <1>3, <1>4, SeqEqual
<1> QED
  BY <1>5 DEF l, r

LEMMA NextHistory == TypeInv /\ AsyncHistory /\ [Next]_vars => AsyncHistory'
<1> SUFFICES ASSUME TypeInv, AsyncHistory, [Next]_vars PROVE AsyncHistory'
  OBVIOUS
<1>1. /\ apush \in Seq(Jobs) /\ adone \in Seq(Jobs) /\ async \in Seq(Jobs) /\ batch \in Seq(Jobs)
      /\ PoppedAsync \in Seq(Jobs) /\ <<>> \in Seq(Jobs)
  BY DEF TypeInv, TypeOK, PoppedAsync
<1>2. CASE UNCHANGED <<apush, adone, async, PoppedAsync>>
  BY <1>2 DEF AsyncHistory
<1>3. ASSUME NEW c, NEW j \in Jobs, NEW k, NEW d, Enqueue(c, j, k, d) PROVE AsyncHistory'
  <2>1. PoppedAsync' = PoppedAsync /\ adone' = adone
    BY <1>3 DEF Enqueue, PoppedAsync, engine
  <2>2. CASE k = "const"
    BY <1>2, <1>3, <2>1, <2>2 DEF Enqueue
  <2>3. CASE k # "const"
    <3>1. apush' = Append(apush, j) /\ async' = Append(async, j)
      BY <1>3, <2>3 DEF Enqueue
    <3>2. PoppedAsync \in Seq(Jobs) /\ adone \in Seq(Jobs) /\ async \in Seq(Jobs)
      BY <1>1
    <3>3. Append(adone \o (PoppedAsync \o async), j) = adone \o (PoppedAsync \o Append(async, j))
      BY <3>2, ConcatAppend, Zenon
    <3> QED
      BY <2>1, <3>1, <3>3, Zenon DEF AsyncHistory
  <2> QED
    BY <2>2, <2>3
<1>4. CASE EPop("popA1", "runA1", "render") \/ EPop("popA2", "runA2", "popC")
  <2>1. PoppedAsync = <<>> /\ async' = <<>> /\ batch' = async /\ adone' = adone /\ apush' = apush
    BY <1>4 DEF PoppedAsync, EPop, PopReversed, EFrame, JobFrame
  <2>2. PoppedAsync' = batch'
    BY <1>4 DEF PoppedAsync, EPop
  <2>3. <<>> \o async = async /\ async \o <<>> = async
    BY <1>1, ConcatEmptySeq
  <2> QED
    BY <2>1, <2>2, <2>3 DEF AsyncHistory
<1>5. CASE ERun("runA1", "trashA1") \/ ERun("runA2", "trashA2")
  <2>1. PoppedAsync = batch /\ batch # <<>> /\ UNCHANGED <<async, apush>>
    BY <1>5 DEF PoppedAsync, ERun, EFrame, queues, TypeInv, BatchReady
  <2>2. adone' = Append(adone, Head(batch)) /\ batch' = Tail(batch)
    BY <1>5 DEF ERun
  <2>3. PoppedAsync' = batch'
    BY <1>5 DEF PoppedAsync, ERun
  <2>4. adone \o (batch \o async) = Append(adone, Head(batch)) \o (Tail(batch) \o async)
    BY <1>1, <2>1, ConcatHead
  <2> QED
    BY <2>1, <2>2, <2>3, <2>4, Zenon DEF AsyncHistory
<1>6. CASE EPop("popC", "runC", "ipc") \/ ERun("runC", "trashC")
  <2>1. PoppedAsync = <<>> /\ PoppedAsync' = <<>>
    BY <1>6 DEF PoppedAsync, EPop, ERun
  <2>2. UNCHANGED <<apush, adone, async>>
    BY <1>6 DEF EPop, ERun, EFrame, JobFrame, queues
  <2> QED
    BY <1>2, <2>1, <2>2
<1>7. CASE Trash \/ WakeOwner
  <2>1. PoppedAsync = <<>> /\ PoppedAsync' = <<>>
    BY <1>7 DEF PoppedAsync, Trash, ETrash, WakeOwner, EWakeOwner
  <2>2. UNCHANGED <<apush, adone, async>>
    BY <1>7 DEF Trash, ETrash, WakeOwner, EWakeOwner, EFrame, JobFrame, queues
  <2> QED
    BY <1>2, <2>1, <2>2
<1>8. CASE \/ EPrepare \/ EPoll \/ ECheck \/ EWrite1 \/ ERender \/ EWrite2 \/ EConst \/ EIpc \/ ENext
           \/ EPollTimeout
  <2>1. PoppedAsync = <<>> /\ PoppedAsync' = <<>>
    BY <1>8 DEF PoppedAsync, EPrepare, EPoll, ECheck, EWrite1, ERender, RtWakeup, EWrite2, EConst,
                ConstEntry, EIpc, ENext, EPollTimeout
  <2>2. UNCHANGED <<apush, adone, async>>
    BY <1>8 DEF EPrepare, EPoll, ECheck, EWrite1, ERender, EWrite2, EConst, EIpc, ENext, EPollTimeout,
                EFrame, JobFrame, queues
  <2> QED
    BY <1>2, <2>1, <2>2
<1>9. ASSUME NEW c, \/ WakeEngine(c) \/ SemWait(c) \/ \E j \in Jobs : RunDirectly(c, j)
      PROVE  AsyncHistory'
  BY <1>9, <1>2 DEF WakeEngine, SemWait, RunDirectly, PoppedAsync, queues, engine, history
<1>10. CASE DriverReady
  BY <1>10, <1>2 DEF DriverReady, PoppedAsync, queues, engine, history
<1>11. CASE \/ OPrepare \/ OPoll \/ OPollOther \/ OCheck \/ ONotes \/ OTrash \/ ORtJobs \/ OJoin
            \/ OStop \/ OAtquit
  <2>1. OFrame
    BY <1>11 DEF OPrepare, OPoll, OPollOther, OCheck, ONotes, OTrash, ORtJobs, OJoin, OStop, OAtquit
  <2> QED
    BY <2>1, <1>2 DEF OFrame, PoppedAsync, engine, history
<1>12. CASE UNCHANGED vars
  BY <1>12, <1>2 DEF vars, PoppedAsync, queues, engine, history
<1> QED
  BY StepCases, <1>3, <1>4, <1>5, <1>6, <1>7, <1>8, <1>9, <1>10, <1>11, <1>12
  DEF AddJob, UpdateDrivers, Pop, Run

LEMMA InitHistory == Init => AsyncHistory
<1> SUFFICES ASSUME Init PROVE AsyncHistory
  OBVIOUS
<1>1. apush = <<>> /\ adone = <<>> /\ async = <<>> /\ PoppedAsync = <<>>
  BY DEF Init, PoppedAsync
<1>2. <<>> \in Seq(Jobs)
  OBVIOUS
<1>3. <<>> \o <<>> = <<>>
  BY <1>2, ConcatEmptySeq
<1> QED
  BY <1>1, <1>3 DEF AsyncHistory

(* Jobs pushed onto async_jobs_ run exactly once and in push order, for any *)
(* number of clients and jobs (add_job_mt and both calls of process_jobs    *)
(* with async_jobs_).                                                       *)
THEOREM AsyncJobsInOrder == Spec => []AsyncFIFO
<1>1. Init => TypeInv /\ AsyncHistory
  BY InitType, InitHistory
<1>2. TypeInv /\ AsyncHistory /\ [Next]_vars => (TypeInv /\ AsyncHistory)'
  BY NextType, NextHistory
<1>3. TypeInv /\ AsyncHistory => AsyncFIFO
  <2> SUFFICES ASSUME TypeInv, AsyncHistory PROVE AsyncFIFO
    OBVIOUS
  <2>1. adone \in Seq(Jobs) /\ PoppedAsync \in Seq(Jobs) /\ async \in Seq(Jobs)
    BY DEF TypeInv, TypeOK, PoppedAsync
  <2>2. PoppedAsync \o async \in Seq(Jobs)
    BY <2>1, ConcatProperties
  <2>3. /\ Len(apush) = Len(adone) + Len(PoppedAsync \o async)
        /\ \A i \in 1..Len(adone) : apush[i] = adone[i]
    BY <2>1, <2>2 DEF AsyncHistory
  <2> QED
    BY <2>1, <2>2, <2>3, LenProperties DEF AsyncFIFO
<1> QED
  BY <1>1, <1>2, <1>3, PTL DEF Spec
-----------------------------------------------------------------------------
(* Who holds a job *)

Distinct(s) == \A i, k \in DOMAIN s : s[i] = s[k] => i = k

(* A job is in one list only, and once, so that executing or deleting it    *)
(* leaves no other reference to it behind.                                  *)
JobLists ==
  /\ Distinct(async) /\ Distinct(const) /\ Distinct(batch)
  /\ Range(async) \cap Range(const) = {}
  /\ Range(batch) \cap (Range(async) \cup Range(const)) = {}
OwnershipInv == JobsOwnedByEngine /\ JobLists /\ Range(ran) \cap trash = {}

(* What a step does to jobs, calls and drivers.                             *)
Enqueued(c, j, k, d) ==
  /\ Enqueue(c, j, k, d)
  /\ \/ d = NoDriver /\ dset' = dset
     \/ d \in Drivers /\ c = Owner /\ k = "sync" /\ dset' = d
Quiet == UNCHANGED <<async, const, batch, ran, trash, jst, kind, by, drv, mark, cpc, cjob, sem,
                     apush, adone, dset, pcm_driver, buffer_size>>
\* The engine's place in process_jobs changes by these operations, or:
PlainMove ==
  \/ epc' = epc
  \/ epc' \notin {"runA1", "popA2", "runA2", "trashA2", "wakeA2", "popC", "runC"}
  \/ epc = "wakeA2" /\ epc' = "popC"
  \/ epc' = "popA2" /\ const # <<>>

LEMMA JobCases ==
  ASSUME [Next]_vars
  PROVE  \/ \E c \in Clients, j \in Jobs : RunDirectly(c, j)
         \/ \E c \in Clients, j \in Jobs, k \in Kinds, d \in Drivers \cup {NoDriver} :
              Enqueued(c, j, k, d)
         \/ \E c \in Clients : WakeEngine(c)
         \/ \E c \in Clients : SemWait(c)
         \/ Pop \/ Run \/ Trash \/ OTrash
         \/ Quiet /\ PlainMove
<1>1. ASSUME NEW c \in Clients, NEW j \in Jobs, NEW k \in Kinds, AddJob(c, j, k)
      PROVE  Enqueued(c, j, k, NoDriver)
  BY <1>1 DEF AddJob, Enqueued
<1>2. ASSUME NEW j \in Jobs, NEW d \in Drivers, NEW failed \in BOOLEAN, UpdateDrivers(j, d, failed)
      PROVE  Enqueued(Owner, j, "sync", IF failed THEN NullDriver ELSE d)
  BY <1>2, DriverAssumption DEF UpdateDrivers, Enqueued
<1>3. \A failed \in BOOLEAN, d \in Drivers : (IF failed THEN NullDriver ELSE d) \in Drivers
  BY DriverAssumption
<1>4. "sync" \in Kinds
  BY DEF Kinds
<1> USE DEF PlainMove
<1>5. CASE \/ WakeOwner \/ EPrepare \/ EPoll \/ ECheck \/ EWrite1 \/ ERender \/ EWrite2 \/ EConst \/ EIpc
           \/ ENext \/ EPollTimeout
  BY <1>5 DEF WakeOwner, EWakeOwner, EPrepare, EPoll, ECheck, EWrite1, ERender, RtWakeup, EWrite2,
              EConst, ConstEntry, EIpc, ENext, EPollTimeout, EFrame, JobFrame, Quiet, queues, stamps, jobinfo, owner
<1>6. CASE DriverReady \/ UNCHANGED vars
  BY <1>6 DEF DriverReady, Quiet, vars, queues, engine, stamps, clients, owner, jobinfo, history
<1>7. CASE OPrepare \/ OPoll \/ OPollOther \/ OCheck \/ ONotes \/ ORtJobs \/ OJoin \/ OStop \/ OAtquit
  BY <1>7 DEF OPrepare, OPoll, OPollOther, OCheck, ONotes, ORtJobs, OJoin, OStop, OAtquit, OFrame, Quiet,
              engine, stamps, clients, jobinfo, history
<1> HIDE DEF PlainMove
<1> QED
  BY StepCases, OwnerAssumption, <1>1, <1>2, <1>3, <1>4, <1>5, <1>6, <1>7

LEMMA HeadFacts ==
  ASSUME NEW s \in Seq(Jobs), s # <<>>, Distinct(s)
  PROVE  /\ Head(s) \in Range(s) /\ Distinct(Tail(s))
         /\ Range(Tail(s)) = Range(s) \ {Head(s)}
<1>1. /\ Tail(s) \in Seq(Jobs) /\ Len(Tail(s)) = Len(s) - 1 /\ Head(s) = s[1] /\ Len(s) \in Nat \ {0}
      /\ \A i \in 1..Len(Tail(s)) : Tail(s)[i] = s[i + 1]
  BY HeadTailProperties
<1>2. DOMAIN s = 1..Len(s) /\ DOMAIN Tail(s) = 1..(Len(s) - 1)
  BY <1>1
<1> DEFINE t == Tail(s)
<1>3. \A i \in DOMAIN t : i + 1 \in DOMAIN s /\ t[i] = s[i + 1]
  BY <1>1, <1>2
<1>4. \A i \in DOMAIN s : i = 1 \/ (i - 1 \in DOMAIN t /\ t[i - 1] = s[i])
  BY <1>1, <1>2
<1>6. \A i \in DOMAIN t : i \in Nat
  BY <1>2
<1> HIDE DEF t
<1>5. Distinct(t)
  <2> SUFFICES ASSUME NEW i \in DOMAIN t, NEW k \in DOMAIN t, t[i] = t[k] PROVE i = k
    BY DEF Distinct
  <2>1. i + 1 = k + 1
    BY <1>3 DEF Distinct
  <2> QED
    BY <2>1, <1>6
<1>7. \A i \in DOMAIN t : s[i + 1] # s[1]
  <2> SUFFICES ASSUME NEW i \in DOMAIN t, s[i + 1] = s[1] PROVE FALSE
    OBVIOUS
  <2>1. i + 1 = 1
    BY <1>1, <1>2, <1>3 DEF Distinct
  <2> QED
    BY <2>1, <1>2, <1>6 DEF t
<1>8. Range(t) = Range(s) \ {s[1]}
  <2>1. ASSUME NEW x \in Range(t) PROVE x \in Range(s) \ {s[1]}
    BY <1>3, <1>7 DEF Range
  <2>2. ASSUME NEW x \in Range(s), x # s[1] PROVE x \in Range(t)
    BY <1>4, <2>2 DEF Range
  <2> QED
    BY <2>1, <2>2
<1>9. s[1] \in Range(s)
  BY <1>1, <1>2 DEF Range
<1> QED
  BY <1>1, <1>5, <1>8, <1>9 DEF t

LEMMA AppendFacts ==
  ASSUME NEW s \in Seq(Jobs), NEW e \in Jobs
  PROVE  /\ Range(Append(s, e)) = Range(s) \cup {e}
         /\ Distinct(s) /\ e \notin Range(s) => Distinct(Append(s, e))
<1> DEFINE a == Append(s, e)
           n == Len(s)
<1>1. /\ n \in Nat /\ DOMAIN s = 1..n /\ DOMAIN a = 1..(n + 1)
      /\ a[n + 1] = e /\ \A i \in 1..n : a[i] = s[i]
  OBVIOUS
<1> HIDE DEF a, n
<1>2. Range(a) = Range(s) \cup {e}
  <2>1. ASSUME NEW x \in Range(a) PROVE x \in Range(s) \cup {e}
    BY <1>1 DEF Range
  <2>2. ASSUME NEW x \in Range(s) \cup {e} PROVE x \in Range(a)
    BY <1>1 DEF Range
  <2> QED
    BY <2>1, <2>2
<1>3. Distinct(s) /\ e \notin Range(s) => Distinct(a)
  BY <1>1 DEF Distinct, Range
<1> QED
  BY <1>2, <1>3 DEF a

LEMMA EmptyFacts == Range(<<>>) = {} /\ Distinct(<<>>)
  BY DEF Range, Distinct

LEMMA InitOwnership == Init => OwnershipInv
  BY EmptyFacts DEF Init, OwnershipInv, JobLists, JobsOwnedByEngine

LEMMA NextOwnership == TypeInv /\ OwnershipInv /\ [Next]_vars => OwnershipInv'
<1> SUFFICES ASSUME TypeInv, OwnershipInv, [Next]_vars PROVE OwnershipInv'
  OBVIOUS
<1> USE DEF OwnershipInv, JobLists, JobsOwnedByEngine
<1>1. /\ async \in Seq(Jobs) /\ const \in Seq(Jobs) /\ batch \in Seq(Jobs) /\ ran \in Seq(Jobs)
      /\ trash \in SUBSET Jobs /\ jst \in [Jobs -> {"unused", "queued", "done", "deleted"}]
      /\ Range(async) \subseteq Jobs /\ Range(const) \subseteq Jobs /\ Range(batch) \subseteq Jobs
      /\ Range(ran) \subseteq Jobs
  BY RangeInSet DEF TypeInv, TypeOK
<1>2. ASSUME NEW c \in Clients, NEW j \in Jobs, RunDirectly(c, j) PROVE OwnershipInv'
  <2>1. UNCHANGED <<async, const, batch, ran, trash>>
    BY <1>2 DEF RunDirectly, queues, engine
  <2>2. jst[j] = "unused" /\ jst' = [jst EXCEPT ![j] = "deleted"]
    BY <1>2 DEF RunDirectly
  <2> QED
    BY <1>1, <2>1, <2>2
<1>3. ASSUME NEW c \in Clients, NEW j \in Jobs, NEW k \in Kinds, NEW d \in Drivers \cup {NoDriver},
             Enqueued(c, j, k, d)
      PROVE  OwnershipInv'
  <2>1. UNCHANGED <<batch, ran, trash>> /\ jst[j] = "unused" /\ jst' = [jst EXCEPT ![j] = "queued"]
    BY <1>3 DEF Enqueued, Enqueue, engine
  <2>2. /\ j \notin Range(async) /\ j \notin Range(const) /\ j \notin Range(batch)
        /\ j \notin Range(ran) /\ j \notin trash
    BY <2>1
  <2>3. CASE const' = Append(const, j) /\ async' = async
    BY <1>1, <2>1, <2>2, <2>3, AppendFacts
  <2>4. CASE async' = Append(async, j) /\ const' = const
    BY <1>1, <2>1, <2>2, <2>4, AppendFacts
  <2> QED
    BY <1>3, <2>3, <2>4 DEF Enqueued, Enqueue
<1>4. CASE Pop
  <2>1. UNCHANGED <<ran, trash, jst>>
    BY <1>4 DEF Pop, EPop, JobFrame
  <2>2. \/ batch' = const /\ const' = <<>> /\ async' = async
        \/ batch' = async /\ async' = <<>> /\ const' = const
    BY <1>4 DEF Pop, EPop, PopReversed
  <2> QED
    BY <2>1, <2>2, EmptyFacts
<1>5. CASE Run
  <2> DEFINE job == Head(batch)
  <2>1. batch # <<>>
    BY <1>5 DEF Run, ERun, TypeInv, BatchReady
  <2>2. /\ UNCHANGED <<async, const, trash>> /\ batch' = Tail(batch) /\ ran' = Append(ran, job)
        /\ jst' = [jst EXCEPT ![job] = "done"]
    BY <1>5 DEF Run, ERun, queues
  <2>3. /\ job \in Range(batch) /\ Distinct(Tail(batch)) /\ Range(Tail(batch)) = Range(batch) \ {job}
    BY <1>1, <2>1, HeadFacts
  <2> HIDE DEF job
  <2>4. job \in Jobs /\ job \notin trash /\ job \notin Range(async) /\ job \notin Range(const)
    BY <1>1, <2>3
  <2>5. Range(ran') = Range(ran) \cup {job}
    BY <1>1, <2>2, <2>4, AppendFacts
  <2> QED
    BY <1>1, <2>2, <2>3, <2>4, <2>5
<1>6. CASE Trash
  <2>1. /\ UNCHANGED <<async, const, batch, jst>> /\ trash' = trash \cup Range(ran) /\ ran' = <<>>
    BY <1>6 DEF Trash, ETrash, Chain, JobFrame
  <2> QED
    BY <2>1, EmptyFacts
<1>7. CASE OTrash
  <2>1. /\ UNCHANGED <<async, const, batch, ran>> /\ trash' = {}
        /\ jst' = [j \in Jobs |-> IF j \in trash THEN "deleted" ELSE jst[j]]
    BY <1>7 DEF OTrash, OFrame, engine, TrashedJobs
  <2>2. \A j \in Range(async) \cup Range(const) \cup Range(batch) \cup Range(ran) : j \notin trash
    OBVIOUS
  <2> QED
    BY <1>1, <2>1, <2>2
<1>8. CASE Quiet \/ (\E c \in Clients : WakeEngine(c) \/ SemWait(c))
  BY <1>8 DEF Quiet, WakeEngine, SemWait, queues, engine
<1> HIDE DEF OwnershipInv
<1> QED
  BY JobCases, <1>2, <1>3, <1>4, <1>5, <1>6, <1>7, <1>8

(* The engine never touches a freed job and the owner never frees one that  *)
(* is still to run or is being handed over, however pushes, process_jobs at *)
(* its three call sites and ipc_dispatch interleave.                        *)
THEOREM JobsNeverFreedEarly == Spec => []JobsOwnedByEngine
<1>1. Init => TypeInv /\ OwnershipInv
  BY InitType, InitOwnership
<1>2. TypeInv /\ OwnershipInv /\ [Next]_vars => (TypeInv /\ OwnershipInv)'
  BY NextType, NextOwnership
<1>3. OwnershipInv => JobsOwnedByEngine
  BY DEF OwnershipInv
<1> QED
  BY <1>1, <1>2, <1>3, PTL DEF Spec

-----------------------------------------------------------------------------
(* Blocking calls *)

(* A call in progress is about a job of its own client; a blocking job that *)
(* has not run has a caller that waits for it, and a semaphore is posted    *)
(* after the job of the present call.                                       *)
CallInv ==
  /\ \A c \in Clients : cpc[c] # "idle" =>
       /\ cjob[c] \in Jobs /\ by[cjob[c]] = c /\ jst[cjob[c]] # "unused"
       /\ cpc[c] = "wait" => Blocking(kind[cjob[c]])
  /\ \A j \in Jobs : jst[j] = "queued" /\ Blocking(kind[j]) =>
       cpc[by[j]] # "idle" /\ cjob[by[j]] = j
  /\ \A c \in Clients : sem[c] =>
       /\ cpc[c] # "idle" /\ Blocking(kind[cjob[c]])
       /\ jst[cjob[c]] \in {"done", "deleted"}

LEMMA InitCalls == Init => CallInv
  BY DEF Init, CallInv, Kinds

LEMMA NextCalls == TypeInv /\ OwnershipInv /\ CallInv /\ [Next]_vars => CallInv'
<1> SUFFICES ASSUME TypeInv, OwnershipInv, CallInv, [Next]_vars PROVE CallInv'
  OBVIOUS
<1> USE DEF CallInv
<1>1. /\ cpc \in [Clients -> {"idle", "wake", "wait"}] /\ cjob \in [Clients -> Jobs \cup {NoJob}]
      /\ sem \in [Clients -> BOOLEAN] /\ by \in [Jobs -> Clients] /\ kind \in [Jobs -> Kinds]
      /\ jst \in [Jobs -> {"unused", "queued", "done", "deleted"}]
  BY DEF TypeInv, TypeOK
<1>2. ASSUME NEW c \in Clients, NEW j \in Jobs, RunDirectly(c, j) PROVE CallInv'
  <2>1. UNCHANGED <<cpc, cjob, sem, by, kind>>
    BY <1>2 DEF RunDirectly, clients, jobinfo
  <2>2. jst[j] = "unused" /\ jst' = [jst EXCEPT ![j] = "deleted"]
    BY <1>2 DEF RunDirectly
  <2> QED
    BY <1>1, <2>1, <2>2
<1>3. ASSUME NEW c \in Clients, NEW j \in Jobs, NEW k \in Kinds, NEW d \in Drivers \cup {NoDriver},
             Enqueued(c, j, k, d)
      PROVE  CallInv'
  <2>1. /\ cpc[c] = "idle" /\ jst[j] = "unused" /\ sem' = sem
        /\ jst' = [jst EXCEPT ![j] = "queued"] /\ kind' = [kind EXCEPT ![j] = k]
        /\ by' = [by EXCEPT ![j] = c]
    BY <1>3 DEF Enqueued, Enqueue, MayCall
  <2>2. \E p \in {"idle", "wake", "wait"} :
          /\ cpc' = [cpc EXCEPT ![c] = p] /\ (p = "wait" => Blocking(k)) /\ (p = "idle" => ~Blocking(k))
          /\ cjob' = [cjob EXCEPT ![c] = IF p = "idle" THEN NoJob ELSE j]
    <3> DEFINE p == IF WasEmpty(k) THEN "wake" ELSE IF Blocking(k) THEN "wait" ELSE "idle"
    <3>1. cpc' = [cpc EXCEPT ![c] = p] /\ cjob' = [cjob EXCEPT ![c] = IF cpc'[c] = "idle" THEN NoJob ELSE j]
      BY <1>3 DEF Enqueued, Enqueue
    <3>2. cpc'[c] = p
      BY <1>1, <3>1
    <3> QED
      BY <3>1, <3>2
  <2>3. PICK p \in {"idle", "wake", "wait"} :
          /\ cpc' = [cpc EXCEPT ![c] = p] /\ (p = "wait" => Blocking(k)) /\ (p = "idle" => ~Blocking(k))
          /\ cjob' = [cjob EXCEPT ![c] = IF p = "idle" THEN NoJob ELSE j]
    BY <2>2
  <2>4. kind'[j] = k /\ by'[j] = c /\ jst'[j] = "queued"
    BY <1>1, <2>1
  <2>5. \A i \in Jobs : i # j => kind'[i] = kind[i] /\ by'[i] = by[i] /\ jst'[i] = jst[i]
    BY <1>1, <2>1
  <2>6. cpc'[c] = p /\ (p # "idle" => cjob'[c] = j)
    BY <1>1, <2>3
  <2>7. \A x \in Clients : x # c => cpc'[x] = cpc[x] /\ cjob'[x] = cjob[x]
    BY <1>1, <2>3
  <2>8. \A x \in Clients : cpc[x] # "idle" => x # c /\ cjob[x] # j /\ cjob[x] \in Jobs
    BY <1>1, <2>1
  <2>9. ASSUME NEW x \in Clients, cpc'[x] # "idle"
        PROVE  /\ cjob'[x] \in Jobs /\ by'[cjob'[x]] = x /\ jst'[cjob'[x]] # "unused"
               /\ cpc'[x] = "wait" => Blocking(kind'[cjob'[x]])
    <3>1. CASE x = c
      BY <2>3, <2>4, <2>6, <2>9, <3>1
    <3>2. CASE x # c
      BY <2>5, <2>7, <2>8, <2>9, <3>2
    <3> QED
      BY <3>1, <3>2
  <2>10. ASSUME NEW i \in Jobs, jst'[i] = "queued", Blocking(kind'[i])
         PROVE  cpc'[by'[i]] # "idle" /\ cjob'[by'[i]] = i
    <3>1. CASE i = j
      BY <2>3, <2>4, <2>6, <2>10, <3>1
    <3>2. CASE i # j
      <4>1. cpc[by[i]] # "idle" /\ cjob[by[i]] = i /\ by[i] \in Clients
        BY <1>1, <2>5, <2>10, <3>2
      <4> QED
        BY <2>5, <2>7, <2>8, <3>2, <4>1
    <3> QED
      BY <3>1, <3>2
  <2>11. ASSUME NEW x \in Clients, sem'[x]
         PROVE  /\ cpc'[x] # "idle" /\ Blocking(kind'[cjob'[x]])
                /\ jst'[cjob'[x]] \in {"done", "deleted"}
    BY <2>1, <2>5, <2>7, <2>8, <2>11
  <2> QED
    BY <2>9, <2>10, <2>11, Zenon
<1>4. ASSUME NEW c \in Clients, WakeEngine(c) PROVE CallInv'
  <2> DEFINE p == IF Blocking(kind[cjob[c]]) THEN "wait" ELSE "idle"
  <2>1. /\ cpc[c] = "wake" /\ UNCHANGED <<sem, jst, kind, by>> /\ cpc' = [cpc EXCEPT ![c] = p]
    BY <1>4 DEF WakeEngine, jobinfo
  <2>2. cjob' = [cjob EXCEPT ![c] = IF p = "idle" THEN NoJob ELSE @]
    BY <1>1, <1>4 DEF WakeEngine
  <2> QED
    BY <1>1, <2>1, <2>2
<1>5. ASSUME NEW c \in Clients, SemWait(c) PROVE CallInv'
  <2>1. /\ cpc[c] = "wait" /\ sem[c] /\ UNCHANGED <<jst, kind, by>>
        /\ cpc' = [cpc EXCEPT ![c] = "idle"] /\ cjob' = [cjob EXCEPT ![c] = NoJob]
        /\ sem' = [sem EXCEPT ![c] = FALSE]
    BY <1>5 DEF SemWait, jobinfo
  <2>2. jst[cjob[c]] # "queued"
    BY <2>1
  <2>3. \A i \in Jobs : jst[i] = "queued" /\ Blocking(kind[i]) => by[i] # c
    BY <2>2
  <2> QED
    BY <1>1, <2>1, <2>3
<1>6. CASE Pop \/ Trash \/ Quiet
  BY <1>6 DEF Pop, EPop, Trash, ETrash, EFrame, JobFrame, Quiet, jobinfo
<1>7. CASE Run
  <2> DEFINE job == Head(batch)
  <2>1. batch \in Seq(Jobs) /\ batch # <<>>
    BY <1>7 DEF Run, ERun, TypeInv, TypeOK, BatchReady
  <2>2. job \in Jobs /\ jst[job] = "queued"
    BY <2>1, HeadFacts, RangeInSet DEF OwnershipInv, JobLists, JobsOwnedByEngine
  <2>3. /\ UNCHANGED <<cpc, cjob, by, kind>> /\ jst' = [jst EXCEPT ![job] = "done"]
        /\ sem' = [c \in Clients |-> sem[c] \/ c \in Posted(job)]
    BY <1>7 DEF Run, ERun, EFrame, jobinfo
  <2> HIDE DEF job
  <2>4. jst'[job] = "done" /\ \A i \in Jobs : i # job => jst'[i] = jst[i]
    BY <1>1, <2>2, <2>3
  <2>5. \A c \in Clients : sem'[c] => sem[c] \/ (c = by[job] /\ Blocking(kind[job]))
    BY <2>3 DEF Posted
  <2>6. \A i \in Jobs : jst[i] \in {"done", "deleted"} => jst'[i] \in {"done", "deleted"}
    BY <2>4
  <2>7. ASSUME NEW c \in Clients, sem'[c]
        PROVE  /\ cpc[c] # "idle" /\ Blocking(kind[cjob[c]]) /\ jst'[cjob[c]] \in {"done", "deleted"}
    <3>1. CASE sem[c]
      BY <2>6, <3>1
    <3>2. CASE c = by[job] /\ Blocking(kind[job])
      BY <2>2, <2>4, <3>2
    <3> QED
      BY <2>5, <2>7, <3>1, <3>2
  <2>8. \A i \in Jobs : jst'[i] = "queued" => jst[i] = "queued"
    BY <2>4
  <2>9. \A i \in Jobs : jst[i] # "unused" => jst'[i] # "unused"
    BY <2>4
  <2> QED
    BY <2>3, <2>7, <2>8, <2>9
<1>8. CASE OTrash
  <2>1. /\ UNCHANGED <<cpc, cjob, sem, by, kind>>
        /\ jst' = [j \in Jobs |-> IF j \in trash THEN "deleted" ELSE jst[j]]
    BY <1>8 DEF OTrash, OFrame, TrashedJobs, clients, jobinfo
  <2>2. /\ \A i \in Jobs : jst'[i] = "queued" => jst[i] = "queued"
        /\ \A i \in Jobs : jst[i] # "unused" => jst'[i] # "unused"
        /\ \A i \in Jobs : jst[i] \in {"done", "deleted"} => jst'[i] \in {"done", "deleted"}
    BY <2>1
  <2> QED
    BY <2>1, <2>2
<1> HIDE DEF CallInv
<1> QED
  BY JobCases, <1>2, <1>3, <1>4, <1>5, <1>6, <1>7, <1>8

(* Ownership and calls together: all that the following theorems start from. *)
EngineInv == TypeInv /\ OwnershipInv /\ CallInv

LEMMA InitEngine == Init => EngineInv
  BY InitType, InitOwnership, InitCalls DEF EngineInv

LEMMA NextEngine == EngineInv /\ [Next]_vars => EngineInv'
  BY NextType, NextOwnership, NextCalls DEF EngineInv

(* No client of add_job_mt is released from its semaphore before its own    *)
(* job has run, whatever the other clients and the engine do meanwhile.     *)
THEOREM BlockingCallsReturnDone == Spec => []BlockingCallDone
<1>1. Init => EngineInv
  BY InitEngine
<1>2. EngineInv /\ [Next]_vars => EngineInv'
  BY NextEngine
<1>3. EngineInv => BlockingCallDone
  BY DEF EngineInv, CallInv, BlockingCallDone
<1> QED
  BY <1>1, <1>2, <1>3, PTL DEF Spec

-----------------------------------------------------------------------------
(* Driver changes *)

(* The engine's driver is the owner's choice, or a job that changes it is   *)
(* still queued and the owner waits for it.                                 *)
DriverInv ==
  /\ buffer_size = Min2(MAX_BUFFER_SIZE, BlockLength[pcm_driver])
  /\ \A j \in Jobs : jst[j] = "queued" /\ drv[j] # NoDriver =>
       by[j] = Owner /\ Blocking(kind[j]) /\ drv[j] = dset
  /\ pcm_driver = dset \/ \E j \in Jobs : jst[j] = "queued" /\ drv[j] = dset

LEMMA InitDriver == Init => DriverInv
  BY DEF Init, DriverInv

LEMMA NextDriver == EngineInv /\ DriverInv /\ [Next]_vars => DriverInv'
<1> SUFFICES ASSUME EngineInv, DriverInv, [Next]_vars PROVE DriverInv'
  OBVIOUS
<1> USE DriverAssumption DEF DriverInv
<1>1. /\ cpc \in [Clients -> {"idle", "wake", "wait"}] /\ by \in [Jobs -> Clients]
      /\ kind \in [Jobs -> Kinds] /\ drv \in [Jobs -> Drivers \cup {NoDriver}] /\ dset \in Drivers
      /\ jst \in [Jobs -> {"unused", "queued", "done", "deleted"}] /\ pcm_driver \in Drivers
  BY DEF EngineInv, TypeInv, TypeOK
<1>2. ASSUME UNCHANGED <<by, kind, drv, dset, pcm_driver, buffer_size>>,
             \A j \in Jobs : jst'[j] = "queued" <=> jst[j] = "queued"
      PROVE  DriverInv'
  BY <1>1, <1>2
<1>3. ASSUME NEW c \in Clients, NEW j \in Jobs, RunDirectly(c, j) PROVE DriverInv'
  BY <1>1, <1>2, <1>3 DEF RunDirectly, jobinfo, owner, stamps
<1>4. ASSUME NEW c \in Clients, NEW j \in Jobs, NEW k \in Kinds, NEW d \in Drivers \cup {NoDriver},
             Enqueued(c, j, k, d)
      PROVE  DriverInv'
  <2>1. /\ cpc[c] = "idle" /\ jst[j] = "unused" /\ UNCHANGED <<pcm_driver, buffer_size>>
        /\ jst' = [jst EXCEPT ![j] = "queued"] /\ kind' = [kind EXCEPT ![j] = k]
        /\ by' = [by EXCEPT ![j] = c] /\ drv' = [drv EXCEPT ![j] = d]
    BY <1>4 DEF Enqueued, Enqueue, MayCall, stamps
  <2>2. /\ kind'[j] = k /\ by'[j] = c /\ jst'[j] = "queued" /\ drv'[j] = d
        /\ \A i \in Jobs : i # j =>
             kind'[i] = kind[i] /\ by'[i] = by[i] /\ jst'[i] = jst[i] /\ drv'[i] = drv[i]
    BY <1>1, <2>1
  <2>3. CASE d = NoDriver /\ dset' = dset
    BY <1>1, <2>1, <2>2, <2>3
  <2>4. CASE d \in Drivers /\ c = Owner /\ k = "sync" /\ dset' = d
    <3>1. \A i \in Jobs : jst[i] = "queued" => drv[i] = NoDriver
      <4> SUFFICES ASSUME NEW i \in Jobs, jst[i] = "queued", drv[i] # NoDriver PROVE FALSE
        OBVIOUS
      <4>1. by[i] = Owner /\ Blocking(kind[i])
        OBVIOUS
      <4>2. cpc[by[i]] # "idle"
        BY <4>1 DEF EngineInv, CallInv
      <4> QED
        BY <2>1, <2>4, <4>1, <4>2
    <3>2. Blocking(k)
      BY <2>4 DEF Blocking
    <3> QED
      BY <2>1, <2>2, <2>4, <3>1, <3>2
  <2> QED
    BY <1>4, <2>3, <2>4 DEF Enqueued
<1>5. CASE Run
  <2> DEFINE job == Head(batch)
  <2>1. batch \in Seq(Jobs) /\ batch # <<>>
    BY <1>5 DEF Run, ERun, EngineInv, TypeInv, TypeOK, BatchReady
  <2>2. job \in Jobs /\ jst[job] = "queued"
    BY <2>1, HeadFacts, RangeInSet DEF EngineInv, OwnershipInv, JobLists, JobsOwnedByEngine
  <2>3. /\ UNCHANGED <<by, kind, drv, dset>> /\ jst' = [jst EXCEPT ![job] = "done"]
        /\ UpdateDriverSet(drv[job])
    BY <1>5 DEF Run, ERun, EFrame, jobinfo, owner
  <2> HIDE DEF job
  <2>4. /\ \A i \in Jobs : jst'[i] = "queued" => jst[i] = "queued"
        /\ \A i \in Jobs : jst[i] = "queued" => i = job \/ jst'[i] = "queued"
    BY <1>1, <2>2, <2>3
  <2>5. \A j \in Jobs : jst'[j] = "queued" /\ drv'[j] # NoDriver =>
          by'[j] = Owner /\ Blocking(kind'[j]) /\ drv'[j] = dset'
    BY <2>3, <2>4
  <2>6. CASE drv[job] # NoDriver /\ pcm_driver # drv[job]
    <3>1. pcm_driver' = drv[job] /\ buffer_size' = Min2(MAX_BUFFER_SIZE, BlockLength[drv[job]])
      BY <2>3, <2>6, Zenon DEF UpdateDriverSet
    <3>2. drv[job] = dset
      BY <2>2, <2>6
    <3> QED
      BY <2>3, <2>5, <3>1, <3>2
  <2>7. CASE ~(drv[job] # NoDriver /\ pcm_driver # drv[job])
    <3>1. UNCHANGED <<pcm_driver, buffer_size>>
      BY <2>3, <2>7, Zenon DEF UpdateDriverSet, stamps
    <3>2. pcm_driver = dset \/ \E j \in Jobs : jst'[j] = "queued" /\ drv[j] = dset
      BY <1>1, <2>2, <2>4, <2>7
    <3> QED
      BY <2>3, <2>5, <3>1, <3>2
  <2> QED
    BY <2>6, <2>7
<1>6. CASE OTrash
  <2>1. /\ UNCHANGED <<by, kind, drv, dset, pcm_driver, buffer_size>>
        /\ jst' = [j \in Jobs |-> IF j \in trash THEN "deleted" ELSE jst[j]]
    BY <1>6 DEF OTrash, OFrame, TrashedJobs, stamps, jobinfo
  <2>2. \A j \in trash : jst[j] = "done"
    BY DEF EngineInv, OwnershipInv, JobsOwnedByEngine
  <2> QED
    BY <1>1, <1>2, <2>1, <2>2
<1>7. CASE Pop \/ Trash
  BY <1>1, <1>2, <1>7 DEF Pop, EPop, Trash, ETrash, EFrame, JobFrame, jobinfo, owner, stamps
<1>8. CASE Quiet \/ \E c \in Clients : WakeEngine(c) \/ SemWait(c)
  BY <1>1, <1>2, <1>8 DEF Quiet, WakeEngine, SemWait, jobinfo, owner, stamps
<1> HIDE DEF DriverInv
<1> QED
  BY JobCases, <1>3, <1>4, <1>5, <1>6, <1>7, <1>8

(* Whenever the main loop thread is back in its event loop, the engine uses *)
(* the driver that update_drivers chose last, for any drivers and any block *)
(* lengths and whatever other clients queue meanwhile.                      *)
THEOREM DriverAlwaysSettled == Spec => []DriverSettled
<1>1. Init => EngineInv /\ DriverInv
  BY InitEngine, InitDriver
<1>2. EngineInv /\ DriverInv /\ [Next]_vars => (EngineInv /\ DriverInv)'
  BY NextEngine, NextDriver
<1>3. EngineInv /\ DriverInv => DriverSettled
  <2> SUFFICES ASSUME EngineInv, DriverInv, cpc[Owner] = "idle"
               PROVE  pcm_driver = dset /\ buffer_size = Min2(MAX_BUFFER_SIZE, BlockLength[dset])
    BY DEF DriverSettled
  <2>1. ASSUME NEW j \in Jobs, jst[j] = "queued", drv[j] = dset PROVE FALSE
    <3>1. by[j] = Owner /\ Blocking(kind[j])
      BY <2>1, DriverAssumption DEF DriverInv, EngineInv, TypeInv, TypeOK
    <3> QED
      BY <2>1, <3>1 DEF EngineInv, CallInv
  <2> QED
    BY <2>1 DEF DriverInv
<1> QED
  BY <1>1, <1>2, <1>3, PTL DEF Spec

-----------------------------------------------------------------------------
(* Const jobs *)

(* With the owner as only client: from the moment process_jobs has emptied  *)
(* async_jobs_ for the sake of const_jobs_, no modification is pending, as  *)
(* the client that could push one waits for its const job.                  *)
Gone == {"done", "deleted"}
ConstInv ==
  /\ \A j \in Range(async) : kind[j] # "const"
  /\ epc \in {"runA1", "runA2"} => \A j \in Range(batch) : kind[j] # "const"
  /\ \A j \in Range(const) : kind[j] = "const"
  /\ epc \in {"popA2", "runA2", "trashA2", "wakeA2", "popC"} => const # <<>>
  /\ epc \in {"runA2", "trashA2", "wakeA2", "popC", "runC"} => async = <<>>
  /\ epc = "runC" => \A j \in Range(batch) : kind[j] = "const"
  /\ \A i \in 1..Len(adone) : jst[adone[i]] \in Gone
  /\ \A j \in Jobs : mark[j] <= Len(apush) /\ (jst[j] = "unused" => kind[j] # "const")
  /\ \A j \in Jobs : kind[j] = "const" /\ jst[j] \in Gone => \A i \in 1..mark[j] : jst[apush[i]] \in Gone

LEMMA InitConst == Init => ConstInv
  BY EmptyFacts DEF Init, ConstInv, Kinds, Gone

\* A const job that has not run keeps the owner busy.
LEMMA ConstBlocks ==
  ASSUME Clients = {Owner}, EngineInv, NEW s \in {const, batch}, s # <<>>,
         \A j \in Range(s) : kind[j] = "const"
  PROVE  cpc[Owner] # "idle"
<1>1. s \in Seq(Jobs) /\ by \in [Jobs -> Clients]
  BY DEF EngineInv, TypeInv, TypeOK
<1>2. Head(s) \in Range(s)
  BY <1>1, HeadFacts DEF EngineInv, OwnershipInv, JobLists
<1> DEFINE j == Head(s)
<1>3. j \in Jobs /\ jst[j] = "queued" /\ kind[j] = "const"
  BY <1>1, <1>2, RangeInSet DEF EngineInv, OwnershipInv, JobsOwnedByEngine
<1> HIDE DEF j
<1>4. cpc[by[j]] # "idle"
  BY <1>3 DEF EngineInv, CallInv, Blocking
<1> QED
  BY <1>1, <1>3, <1>4

LEMMA NextConst ==
  Clients = {Owner} /\ EngineInv /\ AsyncHistory /\ ConstInv /\ [Next]_vars => ConstInv'
<1> SUFFICES ASSUME Clients = {Owner}, EngineInv, AsyncHistory, ConstInv, [Next]_vars PROVE ConstInv'
  OBVIOUS
<1> USE DEF ConstInv, Gone
<1>1. /\ async \in Seq(Jobs) /\ const \in Seq(Jobs) /\ batch \in Seq(Jobs)
      /\ apush \in Seq(Jobs) /\ adone \in Seq(Jobs) /\ mark \in [Jobs -> Nat]
      /\ kind \in [Jobs -> Kinds] /\ jst \in [Jobs -> {"unused", "queued", "done", "deleted"}]
      /\ Range(async) \subseteq Jobs /\ Range(const) \subseteq Jobs /\ Range(batch) \subseteq Jobs
  BY RangeInSet DEF EngineInv, TypeInv, TypeOK
<1>2. /\ Len(apush) \in Nat /\ \A i \in 1..Len(apush) : apush[i] \in Jobs
      /\ Len(adone) \in Nat /\ \A i \in 1..Len(adone) : adone[i] \in Jobs
  BY <1>1
<1>3. ASSUME NEW c \in Clients, NEW j \in Jobs, RunDirectly(c, j) PROVE ConstInv'
  <2>1. UNCHANGED <<epc, async, const, batch, apush, adone, kind, mark>>
    BY <1>3 DEF RunDirectly, queues, engine, history, jobinfo
  <2>2. jst[j] = "unused" /\ jst' = [jst EXCEPT ![j] = "deleted"]
    BY <1>3 DEF RunDirectly
  <2>3. \A i \in Jobs : i # j => jst'[i] = jst[i]
    BY <1>1, <2>2
  <2>4. \A i \in Jobs : jst[i] \in Gone => jst'[i] \in Gone
    BY <2>2, <2>3
  <2> QED
    BY <1>1, <1>2, <2>1, <2>2, <2>3, <2>4
<1>4. ASSUME NEW c \in Clients, NEW j \in Jobs, NEW k \in Kinds, NEW d \in Drivers \cup {NoDriver},
             Enqueued(c, j, k, d)
      PROVE  ConstInv'
  <2>1. const = <<>> /\ epc # "runC"
    <3>1. cpc[Owner] = "idle"
      BY <1>4 DEF Enqueued, Enqueue, MayCall
    <3>2. epc = "runC" => batch # <<>>
      BY DEF EngineInv, TypeInv, BatchReady
    <3> QED
      BY <3>1, <3>2, ConstBlocks
  <2>2. /\ UNCHANGED <<epc, batch, adone>> /\ jst[j] = "unused"
        /\ jst' = [jst EXCEPT ![j] = "queued"] /\ kind' = [kind EXCEPT ![j] = k]
        /\ mark' = [mark EXCEPT ![j] = Len(apush)]
    BY <1>4 DEF Enqueued, Enqueue, engine
  <2>3. /\ kind'[j] = k /\ jst'[j] = "queued" /\ mark'[j] = Len(apush)
        /\ \A i \in Jobs : i # j => kind'[i] = kind[i] /\ jst'[i] = jst[i] /\ mark'[i] = mark[i]
    BY <1>1, <2>2
  <2>4. j \notin Range(async) /\ j \notin Range(const) /\ j \notin Range(batch)
    BY <2>2 DEF EngineInv, OwnershipInv, JobsOwnedByEngine
  <2>5. \A i \in 1..Len(adone) : jst'[adone'[i]] \in Gone
    BY <1>2, <2>2, <2>3
  <2>6. /\ Len(apush') \in Nat /\ Len(apush) <= Len(apush')
        /\ \A i \in 1..Len(apush) : apush'[i] = apush[i]
    <3>1. apush' = apush \/ apush' = Append(apush, j)
      BY <1>4 DEF Enqueued, Enqueue
    <3>2. \A s \in Seq(Jobs) : /\ Len(s) \in Nat /\ Len(Append(s, j)) = Len(s) + 1
                               /\ \A i \in 1..Len(s) : Append(s, j)[i] = s[i]
      OBVIOUS
    <3>3. apush \in Seq(Jobs)
      BY <1>1
    <3> HIDE DEF ConstInv
    <3> QED
      BY <3>1, <3>2, <3>3
  <2>7. \A i \in Jobs : mark'[i] <= Len(apush') /\ (jst'[i] = "unused" => kind'[i] # "const")
    <3>1. ASSUME NEW i \in Jobs PROVE mark'[i] \in Nat /\ mark'[i] <= Len(apush)
      <4>1. i # j => mark'[i] = mark[i] /\ mark[i] \in Nat /\ mark[i] <= Len(apush)
        BY <1>1, <2>3
      <4>2. i = j => mark'[i] = Len(apush)
        BY <2>3
      <4> HIDE DEF ConstInv
      <4> QED
        BY <1>2, <4>1, <4>2
    <3>2. \A i \in Jobs : jst'[i] = "unused" => kind'[i] # "const"
      BY <2>3
    <3> HIDE DEF ConstInv
    <3> QED
      BY <1>2, <2>6, <3>1, <3>2
  <2>8. \A i \in Jobs : kind'[i] = "const" /\ jst'[i] \in Gone =>
          \A n \in 1..mark'[i] : jst'[apush'[n]] \in Gone
    <3> SUFFICES ASSUME NEW i \in Jobs, kind'[i] = "const", jst'[i] \in Gone, NEW n \in 1..mark'[i]
                 PROVE  jst'[apush'[n]] \in Gone
      OBVIOUS
    <3>1. i # j /\ mark'[i] = mark[i] /\ mark[i] <= Len(apush) /\ mark[i] \in Nat
      BY <1>1, <2>3
    <3>2. apush'[n] = apush[n] /\ jst[apush[n]] \in Gone /\ apush[n] \in Jobs
      BY <1>2, <2>3, <2>6, <3>1
    <3> QED
      BY <2>2, <2>3, <3>2
  <2>9. epc \notin {"popA2", "runA2", "trashA2", "wakeA2", "popC"}
    BY <2>1
  <2>10. epc' = "runC" => \A i \in Range(batch') : kind'[i] = "const"
    BY <1>1, <2>2, <2>3, <2>4
  <2>11. epc' = "runA1" => \A i \in Range(batch') : kind'[i] # "const"
    BY <1>1, <2>2, <2>3, <2>4
  <2>12. CASE k = "const" /\ const' = Append(const, j) /\ async' = async
    <3>1. Range(const') = {j}
      <4>1. Range(const) = {}
        BY <2>1, EmptyFacts
      <4>2. Range(Append(const, j)) = Range(const) \cup {j}
        BY <1>1, AppendFacts
      <4> QED
        BY <2>12, <4>1, <4>2
    <3>2. \A i \in Range(async') : kind'[i] # "const"
      BY <1>1, <2>3, <2>4, <2>12
    <3> QED
      BY <2>1, <2>2, <2>3, <2>5, <2>7, <2>8, <2>9, <2>10, <2>11, <2>12, <3>1, <3>2
  <2>13. CASE k # "const" /\ async' = Append(async, j) /\ const' = const
    <3>1. Range(async') = Range(async) \cup {j}
      BY <1>1, <2>13, AppendFacts
    <3>2. \A i \in Range(async') : kind'[i] # "const"
      BY <1>1, <2>3, <2>4, <2>13, <3>1
    <3>3. Range(const') = {}
      BY <2>1, <2>13, EmptyFacts
    <3> QED
      BY <2>1, <2>2, <2>5, <2>7, <2>8, <2>9, <2>10, <2>11, <3>2, <3>3
  <2> QED
    BY <1>4, <2>12, <2>13 DEF Enqueued, Enqueue
<1>5. ASSUME UNCHANGED <<apush, mark, kind>>, \A j \in Jobs : jst[j] \in Gone => jst'[j] \in Gone,
             \A j \in Jobs : jst'[j] = "unused" => jst[j] = "unused",
             \A j \in Jobs : kind[j] = "const" /\ jst'[j] \in Gone /\ jst[j] \notin Gone =>
               \A i \in 1..Len(apush) : jst'[apush[i]] \in Gone
      PROVE  /\ \A j \in Jobs : mark'[j] <= Len(apush') /\ (jst'[j] = "unused" => kind'[j] # "const")
             /\ \A j \in Jobs : kind'[j] = "const" /\ jst'[j] \in Gone =>
                  \A i \in 1..mark'[j] : jst'[apush'[i]] \in Gone
  <2>1. \A j \in Jobs : mark'[j] <= Len(apush') /\ (jst'[j] = "unused" => kind'[j] # "const")
    BY <1>5
  <2>2. ASSUME NEW j \in Jobs, kind'[j] = "const", jst'[j] \in Gone, NEW i \in 1..mark'[j]
        PROVE  jst'[apush'[i]] \in Gone
    <3>1. mark'[j] = mark[j] /\ mark[j] \in Nat /\ mark[j] <= Len(apush)
      BY <1>1, <1>5
    <3>2. i \in 1..Len(apush)
      BY <1>2, <3>1
    <3>3. CASE jst[j] \in Gone
      BY <1>2, <1>5, <2>2, <3>1, <3>2, <3>3
    <3>4. CASE jst[j] \notin Gone
      BY <1>5, <2>2, <3>2, <3>4
    <3> QED
      BY <3>3, <3>4
  <2> QED
    BY <2>1, <2>2
<1>6. CASE Pop
  <2>1. UNCHANGED <<apush, adone, mark, kind, jst>>
    BY <1>6 DEF Pop, EPop, EFrame, JobFrame, jobinfo
  <2>2. CASE EPop("popA1", "runA1", "render") \/ EPop("popA2", "runA2", "popC")
    <3>1. /\ batch' = async /\ async' = <<>> /\ const' = const
          /\ \/ epc = "popA1" /\ epc' \in {"runA1", "render"}
             \/ epc = "popA2" /\ epc' \in {"runA2", "popC"}
      BY <2>2 DEF EPop, PopReversed
    <3> QED
      BY <1>5, <2>1, <3>1, EmptyFacts
  <2>3. CASE EPop("popC", "runC", "ipc")
    <3>1. batch' = const /\ const' = <<>> /\ async' = async /\ epc = "popC" /\ epc' \in {"runC", "ipc"}
      BY <2>3 DEF EPop, PopReversed
    <3> QED
      BY <1>5, <2>1, <3>1, EmptyFacts
  <2> QED
    BY <1>6, <2>2, <2>3 DEF Pop
<1>7. CASE Run
  <2> DEFINE job == Head(batch)
  <2>1. batch # <<>>
    BY <1>7 DEF Run, ERun, EngineInv, TypeInv, BatchReady
  <2>2. /\ job \in Jobs /\ job \in Range(batch) /\ Range(Tail(batch)) \subseteq Range(batch)
        /\ jst[job] = "queued"
    BY <1>1, <2>1, HeadFacts DEF EngineInv, OwnershipInv, JobLists, JobsOwnedByEngine
  <2>3. /\ UNCHANGED <<async, const, apush, mark, kind>> /\ batch' = Tail(batch)
        /\ jst' = [jst EXCEPT ![job] = "done"]
    BY <1>7 DEF Run, ERun, EFrame, queues, jobinfo
  <2>4. \/ epc = "runC" /\ epc' \in {"runC", "trashC"} /\ adone' = adone
        \/ epc = "runA1" /\ epc' \in {"runA1", "trashA1"} /\ adone' = Append(adone, job)
        \/ epc = "runA2" /\ epc' \in {"runA2", "trashA2"} /\ adone' = Append(adone, job)
    BY <1>7 DEF Run, ERun
  <2> HIDE DEF job
  <2>5. jst'[job] = "done" /\ \A j \in Jobs : j # job => jst'[j] = jst[j]
    BY <1>1, <2>2, <2>3
  <2>6. \A i \in 1..Len(adone) : jst'[adone[i]] \in Gone
    BY <1>2, <2>5
  <2>7. \A i \in 1..Len(adone') : jst'[adone'[i]] \in Gone
    <3>1. CASE adone' = adone
      BY <2>6, <3>1
    <3>2. CASE adone' = Append(adone, job)
      <4>1. /\ Len(adone') = Len(adone) + 1 /\ adone'[Len(adone) + 1] = job
            /\ \A i \in 1..Len(adone) : adone'[i] = adone[i]
        BY <1>1, <2>2, <3>2
      <4> QED
        BY <1>2, <2>5, <2>6, <4>1
    <3> QED
      BY <2>4, <3>1, <3>2
  <2>8. epc = "runC" => \A i \in 1..Len(apush) : jst'[apush[i]] \in Gone
    <3> SUFFICES ASSUME epc = "runC" PROVE apush = adone
      BY <2>6
    <3>1. PoppedAsync = <<>> /\ async = <<>>
      BY DEF PoppedAsync
    <3>2. <<>> \o <<>> = <<>> /\ adone \o <<>> = adone
      BY <1>1, ConcatEmptySeq
    <3> QED
      BY <3>1, <3>2 DEF AsyncHistory
  <2>9. kind[job] = "const" => epc = "runC"
    BY <2>2, <2>4
  <2>10. /\ \A j \in Jobs : mark'[j] <= Len(apush') /\ (jst'[j] = "unused" => kind'[j] # "const")
         /\ \A j \in Jobs : kind'[j] = "const" /\ jst'[j] \in Gone =>
              \A i \in 1..mark'[j] : jst'[apush'[i]] \in Gone
    BY <1>5, <2>2, <2>3, <2>5, <2>8, <2>9
  <2> QED
    BY <2>2, <2>3, <2>4, <2>7, <2>10
<1>8. CASE Trash
  <2>1. UNCHANGED <<async, const, batch, apush, adone, mark, kind, jst>>
    BY <1>8 DEF Trash, ETrash, EFrame, JobFrame, jobinfo
  <2>2. \/ epc = "trashA1" /\ epc' \in {"wakeA1", "render"}
        \/ epc = "trashA2" /\ epc' \in {"wakeA2", "popC"}
        \/ epc = "trashC" /\ epc' \in {"wakeC", "ipc"}
    BY <1>8 DEF Trash, ETrash
  <2> QED
    BY <1>5, <2>1, <2>2
<1>9. CASE OTrash
  <2>1. UNCHANGED <<epc, async, const, batch, apush, adone, mark, kind>>
    BY <1>9 DEF OTrash, OFrame, engine, history, jobinfo
  <2>2. jst' = [j \in Jobs |-> IF j \in trash THEN "deleted" ELSE jst[j]]
    BY <1>9 DEF OTrash, TrashedJobs
  <2>3. \A j \in trash : jst[j] = "done"
    BY DEF EngineInv, OwnershipInv, JobsOwnedByEngine
  <2>4. \A j \in Jobs : jst'[j] = jst[j] \/ (jst[j] = "done" /\ jst'[j] = "deleted")
    BY <1>1, <2>2, <2>3
  <2>5. \A i \in 1..Len(adone') : jst'[adone'[i]] \in Gone
    BY <1>2, <2>1, <2>4
  <2> QED
    BY <1>5, <2>1, <2>4, <2>5
<1>10. CASE (Quiet /\ PlainMove) \/ \E c \in Clients : WakeEngine(c) \/ SemWait(c)
  <2>1. UNCHANGED <<async, const, batch, apush, adone, mark, kind, jst>> /\ PlainMove
    BY <1>10 DEF Quiet, PlainMove, WakeEngine, SemWait, queues, engine, jobinfo, history
  <2> QED
    BY <1>5, <2>1 DEF PlainMove
<1> HIDE DEF ConstInv
<1> QED
  BY JobCases, <1>3, <1>4, <1>6, <1>7, <1>8, <1>9, <1>10

(* With the main loop thread as only client, a const job sees all changes   *)
(* that were queued before it: driver_dispatcher empties async_jobs_ first, *)
(* for any number of jobs in any order.                                     *)
THEOREM ConstJobsSeeModifications == Clients = {Owner} => (Spec => []ConstSeesModifications)
<1> SUFFICES ASSUME Clients = {Owner} PROVE Spec => []ConstSeesModifications
  OBVIOUS
<1> DEFINE Inv == EngineInv /\ AsyncHistory /\ ConstInv
<1>1. Init => Inv
  BY InitEngine, InitHistory, InitConst
<1>2. Inv /\ [Next]_vars => Inv'
  BY NextEngine, NextHistory, NextConst DEF EngineInv
<1>3. Inv => ConstSeesModifications
  BY DEF ConstInv, Gone, ConstSeesModifications
<1> HIDE DEF Inv
<1> QED
  BY <1>1, <1>2, <1>3, PTL DEF Spec
=============================================================================
