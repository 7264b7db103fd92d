------------------------------ MODULE ENotify ------------------------------
(***************************************************************************)
(* The notification queue from AudioProcessor objects to their Devices     *)
(* (ase/processor.cc: enotify_enqueue_mt and enotify_dispatch) and the     *)
(* dirty bits of processor parameters that travel with it, one atomic      *)
(* access per step.                                                        *)
(*                                                                         *)
(* A processor is linked into the queue via nqueue_next_ (null while it is *)
(* not queued) and keeps itself alive with nqueue_guard_ meanwhile.  The   *)
(* main thread takes the whole queue and reports the NOTIFYMASK flags of   *)
(* each processor, and its dirty parameters, to the processor's device.    *)
(***************************************************************************)
EXTENDS Naturals, FiniteSets

CONSTANTS Notifiers,      \* threads that call enotify_enqueue_mt
          EngineThread,       \* the one of them that renders and sets parameters
          Procs,        \* AudioProcessor objects
          NoProc, QueueTail,   \* nullptr, enotify_queue_tail
          BusFlags,     \* BUSCONNECT, BUSDISCONNECT, INSERTION, REMOVAL
          ParamCount,   \* params_.count
          BlockBits,    \* bits of one atomic in params_.bits: 64
          LiveProps     \* parameters that have a Property (wprops not expired)

ASSUME ENotifyAssumption ==
  /\ EngineThread \in Notifiers
  /\ NoProc \notin Procs /\ QueueTail \notin Procs /\ NoProc # QueueTail
  /\ "PARAMCHANGE" \notin BusFlags
  /\ ParamCount \in Nat /\ BlockBits \in Nat \ {0}
  /\ LiveProps \subseteq 0..ParamCount-1

NOTIFYMASK == BusFlags \cup {"PARAMCHANGE"}
NotifyPtr == Procs \cup {NoProc, QueueTail}
ParamIndices == 0..ParamCount-1

VARIABLES
  flags,          \* notification bits of flags_
  nqueue_next,    \* nqueue_next_
  nqueue_guard,   \* nqueue_guard_ != nullptr
  queue_head,           \* enotify_queue_head
  dirty_bits,           \* params_.bits: dirty parameters
  has_device,         \* the processor has a Device, which keeps it alive
  freed,          \* the processor was destroyed
  npc, nproc, pushmask, expected,  \* per thread: enotify_enqueue_mt
  nparam,          \* per thread: the parameter that is being set
  dpc, dhead, notifying, nflags, block, bitmask, \* enotify_dispatch
  stale           \* history: parameters whose last value was not reported
queue    == <<flags, nqueue_next, nqueue_guard, queue_head>>
callers  == <<npc, nproc, pushmask, expected, nparam>>
dispatch == <<dpc, dhead, notifying, nflags, block, bitmask>>
notifyVars == <<queue, dirty_bits, has_device, freed, callers, dispatch, stale>>

NotifyTypeOK ==
  /\ flags \in [Procs -> SUBSET NOTIFYMASK]
  /\ nqueue_next \in [Procs -> NotifyPtr] /\ nqueue_guard \in [Procs -> BOOLEAN]
  /\ queue_head \in Procs \cup {QueueTail}       \* enotify_queue_head "must never be nullptr"
  /\ dirty_bits \in [Procs -> SUBSET ParamIndices] /\ stale \in [Procs -> SUBSET ParamIndices]
  /\ has_device \in [Procs -> BOOLEAN] /\ freed \in SUBSET Procs
  /\ npc \in [Notifiers -> {"idle", "setbit", "or", "cas", "guard", "load", "store", "push"}]
  /\ nproc \in [Notifiers -> Procs \cup {NoProc}] /\ pushmask \in [Notifiers -> SUBSET NOTIFYMASK]
  /\ expected \in [Notifiers -> NotifyPtr] /\ nparam \in [Notifiers -> ParamIndices \cup {0}]
  /\ dpc \in {"idle", "take", "unguard", "unlink", "flags", "bits", "report"}
  /\ dhead \in NotifyPtr /\ notifying \in Procs \cup {NoProc} /\ nflags \in SUBSET NOTIFYMASK
  /\ block \in Nat /\ bitmask \in SUBSET ParamIndices

NotifyInit ==
  /\ flags = [p \in Procs |-> {}]
  /\ nqueue_next = [p \in Procs |-> NoProc] /\ nqueue_guard = [p \in Procs |-> FALSE]
  /\ queue_head = QueueTail
  /\ dirty_bits = [p \in Procs |-> {}] /\ stale = [p \in Procs |-> {}]
  /\ has_device = [p \in Procs |-> TRUE] /\ freed = {}
  /\ npc = [t \in Notifiers |-> "idle"] /\ nproc = [t \in Notifiers |-> NoProc]
  /\ pushmask = [t \in Notifiers |-> {}] /\ expected = [t \in Notifiers |-> NoProc]
  /\ nparam = [t \in Notifiers |-> 0]
  /\ dpc = "idle" /\ dhead = QueueTail /\ notifying = NoProc /\ nflags = {} /\ block = 0 /\ bitmask = {}

-----------------------------------------------------------------------------
(* enotify_enqueue_mt and its callers *)

Goto(t, l) == npc' = [npc EXCEPT ![t] = l]
ReturnNotify(t) ==
  /\ Goto(t, "idle")
  /\ nproc' = [nproc EXCEPT ![t] = NoProc] /\ pushmask' = [pushmask EXCEPT ![t] = {}]
  /\ expected' = [expected EXCEPT ![t] = NoProc] /\ nparam' = [nparam EXCEPT ![t] = 0]
CallNotify(t, p, mask) ==
  /\ nproc' = [nproc EXCEPT ![t] = p] /\ pushmask' = [pushmask EXCEPT ![t] = mask]

\* A caller has bus changes to report; nothing happens without a device.
Enqueue(t, p, f) ==
  /\ npc[t] = "idle" /\ p \notin freed /\ has_device[p]
  /\ Goto(t, "or") /\ CallNotify(t, p, {f})
  /\ UNCHANGED <<queue, dirty_bits, has_device, freed, expected, nparam, dispatch, stale>>

\* AudioParams::value: the new value is stored first, ...
SetParam(p, i) ==
  /\ npc[EngineThread] = "idle" /\ p \notin freed /\ has_device[p] /\ i \in LiveProps
  /\ Goto(EngineThread, "setbit") /\ CallNotify(EngineThread, p, {"PARAMCHANGE"})
  /\ nparam' = [nparam EXCEPT ![EngineThread] = i]
  /\ stale' = [stale EXCEPT ![p] = @ \cup {i}]
  /\ UNCHANGED <<queue, dirty_bits, has_device, freed, expected, dispatch>>

\* ... then it is marked dirty; PARAMCHANGE is queued at the end of
\* render_block.
SetDirty(t) ==
  /\ npc[t] = "setbit"
  /\ dirty_bits' = [dirty_bits EXCEPT ![nproc[t]] = @ \cup {nparam[t]}]
  /\ Goto(t, "or")
  /\ UNCHANGED <<queue, has_device, freed, nproc, pushmask, expected, nparam, dispatch, stale>>

\* prev = flags_.fetch_or (pushmask); return unless there is something new
FetchOr(t) ==
  /\ npc[t] = "or"
  /\ flags' = [flags EXCEPT ![nproc[t]] = @ \cup pushmask[t]]
  /\ IF pushmask[t] \subseteq flags[nproc[t]]
       THEN ReturnNotify(t)
       ELSE Goto(t, "cas") /\ UNCHANGED <<nproc, pushmask, expected, nparam>>
  /\ UNCHANGED <<nqueue_next, nqueue_guard, queue_head, dirty_bits, has_device, freed, dispatch, stale>>

\* nqueue_next_.compare_exchange_strong (nullptr, tail): not queued so far?
Claim(t) ==
  /\ npc[t] = "cas"
  /\ IF nqueue_next[nproc[t]] = NoProc
       THEN /\ nqueue_next' = [nqueue_next EXCEPT ![nproc[t]] = QueueTail]
            /\ Goto(t, "guard") /\ UNCHANGED <<nproc, pushmask, expected, nparam>>
       ELSE ReturnNotify(t) /\ UNCHANGED nqueue_next
  /\ UNCHANGED <<flags, nqueue_guard, queue_head, dirty_bits, has_device, freed, dispatch, stale>>

\* nqueue_guard_ = shared_from_this()
Guard(t) ==
  /\ npc[t] = "guard"
  /\ nqueue_guard' = [nqueue_guard EXCEPT ![nproc[t]] = TRUE]
  /\ Goto(t, "load")
  /\ UNCHANGED <<flags, nqueue_next, queue_head, dirty_bits, has_device, freed, nproc, pushmask, expected, nparam,
                 dispatch, stale>>

LoadHead(t) ==
  /\ npc[t] = "load"
  /\ expected' = [expected EXCEPT ![t] = queue_head]
  /\ Goto(t, "store")
  /\ UNCHANGED <<queue, dirty_bits, has_device, freed, nproc, pushmask, nparam, dispatch, stale>>

\* nqueue_next_.store (expected)
StoreQueueNext(t) ==
  /\ npc[t] = "store"
  /\ nqueue_next' = [nqueue_next EXCEPT ![nproc[t]] = expected[t]]
  /\ Goto(t, "push")
  /\ UNCHANGED <<flags, nqueue_guard, queue_head, dirty_bits, has_device, freed, nproc, pushmask, expected, nparam,
                 dispatch, stale>>

PushHead(t) ==
  /\ npc[t] = "push"
  /\ IF queue_head = expected[t]
       THEN queue_head' = nproc[t] /\ ReturnNotify(t)
       ELSE /\ expected' = [expected EXCEPT ![t] = queue_head]
            /\ Goto(t, "store") /\ UNCHANGED <<queue_head, nproc, pushmask, nparam>>
  /\ UNCHANGED <<flags, nqueue_next, nqueue_guard, dirty_bits, has_device, freed, dispatch, stale>>

CallerStep(t) ==
  SetDirty(t) \/ FetchOr(t) \/ Claim(t) \/ Guard(t) \/ LoadHead(t) \/ StoreQueueNext(t) \/ PushHead(t)

-----------------------------------------------------------------------------
(* enotify_dispatch, in the main thread *)

DFrame == UNCHANGED <<has_device, callers>>

\* head = enotify_queue_head.exchange (tail), if enotify_pending()
DTakeAll ==
  /\ dpc = "idle" /\ queue_head # QueueTail
  /\ dhead' = queue_head /\ queue_head' = QueueTail /\ dpc' = "take"
  /\ UNCHANGED <<flags, nqueue_next, nqueue_guard, dirty_bits, freed, notifying, nflags, block, bitmask,
                 stale>> /\ DFrame

\* current = exchange (head, head->nqueue_next_)
DTake ==
  /\ dpc = "take"
  /\ IF dhead = QueueTail
       THEN dpc' = "idle" /\ UNCHANGED <<notifying, dhead>>
       ELSE notifying' = dhead /\ dhead' = nqueue_next[dhead] /\ dpc' = "unguard"
  /\ UNCHANGED <<queue, dirty_bits, freed, nflags, block, bitmask, stale>> /\ DFrame

\* procp = exchange (nqueue_guard_, nullptr): from here on the dispatcher
\* keeps the processor alive
DUnguard ==
  /\ dpc = "unguard"
  /\ nqueue_guard' = [nqueue_guard EXCEPT ![notifying] = FALSE]
  /\ dpc' = "unlink"
  /\ UNCHANGED <<flags, nqueue_next, queue_head, dirty_bits, freed, dhead, notifying, nflags, block, bitmask,
                 stale>> /\ DFrame

\* nqueue_next_.exchange (nullptr): the processor may be queued again
DUnlink ==
  /\ dpc = "unlink"
  /\ nqueue_next' = [nqueue_next EXCEPT ![notifying] = NoProc]
  /\ dpc' = "flags"
  /\ UNCHANGED <<flags, nqueue_guard, queue_head, dirty_bits, freed, dhead, notifying, nflags, block, bitmask,
                 stale>> /\ DFrame

\* procp goes out of scope
Finish == dpc' = "take" /\ notifying' = NoProc /\ nflags' = {} /\ block' = 0 /\ bitmask' = {}

\* nflags = flags_.fetch_and (~NOTIFYMASK); bus events are reported at once
DFlags ==
  /\ dpc = "flags"
  /\ flags' = [flags EXCEPT ![notifying] = {}]
  /\ IF has_device[notifying] /\ "PARAMCHANGE" \in flags[notifying] /\ ParamCount > 0
       THEN /\ nflags' = flags[notifying] /\ block' = 0 /\ dpc' = "bits"
            /\ UNCHANGED <<notifying, bitmask>>
       ELSE Finish
  /\ UNCHANGED <<nqueue_next, nqueue_guard, queue_head, dirty_bits, freed, dhead, stale>> /\ DFrame

\* bitmask = fetch_and (&bits[blockoffset >> 6], 0)
BlockOf(b) == {i \in ParamIndices : i >= b /\ i < b + BlockBits}
DBits ==
  /\ dpc = "bits"
  /\ bitmask' = dirty_bits[notifying] \cap BlockOf(block)
  /\ dirty_bits' = [dirty_bits EXCEPT ![notifying] = @ \ BlockOf(block)]
  /\ dpc' = "report"
  /\ UNCHANGED <<queue, freed, dhead, notifying, nflags, block, stale>> /\ DFrame

\* The loop over one block: bound = min (count, blockoffset | (64-1)), and
\* every dirty parameter idx < bound is reported with its present value.
\* After the last block, the device learns about PARAMCHANGE.
Bound == IF ParamCount < block + BlockBits - 1 THEN ParamCount ELSE block + BlockBits - 1
MoreBlocks == block + BlockBits < ParamCount
DReport ==
  /\ dpc = "report"
  /\ stale' = [stale EXCEPT ![notifying] = @ \ {i \in bitmask : i < Bound}]
  /\ IF MoreBlocks
       THEN /\ block' = block + BlockBits /\ bitmask' = {} /\ dpc' = "bits"
            /\ UNCHANGED <<notifying, nflags>>
       ELSE Finish
  /\ UNCHANGED <<queue, dirty_bits, freed, dhead>> /\ DFrame

\* mutant: flags_ is cleared while the processor is still linked
DFlagsFirst ==
  /\ dpc = "unlink" /\ dpc' = "flags"
  /\ nflags' = flags[notifying] /\ flags' = [flags EXCEPT ![notifying] = {}]
  /\ UNCHANGED <<nqueue_next, nqueue_guard, queue_head, dirty_bits, freed, dhead, notifying, block, bitmask,
                 stale>> /\ DFrame
DUnlinkLast ==
  /\ dpc = "flags"
  /\ nqueue_next' = [nqueue_next EXCEPT ![notifying] = NoProc]
  /\ IF has_device[notifying] /\ "PARAMCHANGE" \in nflags
       THEN dpc' = "bits" /\ UNCHANGED <<notifying, nflags, block, bitmask>>
       ELSE Finish
  /\ UNCHANGED <<flags, nqueue_guard, queue_head, dirty_bits, freed, dhead, stale>> /\ DFrame
DispatchReordered ==
  DTakeAll \/ DTake \/ DUnguard \/ DFlagsFirst \/ DUnlinkLast \/ DBits \/ DReport
DispatchStep == DTakeAll \/ DTake \/ DUnguard \/ DUnlink \/ DFlags \/ DBits \/ DReport

\* The main thread drops a Device.
DropDevice(p) ==
  /\ dpc = "idle" /\ has_device[p]
  /\ has_device' = [has_device EXCEPT ![p] = FALSE]
  /\ UNCHANGED <<queue, dirty_bits, freed, callers, dispatch, stale>>

\* A processor dies with its last reference: device, guard, the dispatcher's
\* procp and callers that use it.
Release(p) ==
  /\ ~has_device[p] /\ ~nqueue_guard[p] /\ p \notin freed
  /\ \A t \in Notifiers : nproc[t] # p
  /\ notifying = p => dpc = "unguard"   \* procp not assigned yet
  /\ freed' = freed \cup {p}
  /\ UNCHANGED <<queue, dirty_bits, has_device, callers, dispatch, stale>>

-----------------------------------------------------------------------------
NotifyNext ==
  \/ \E t \in Notifiers : CallerStep(t) \/ \E p \in Procs, f \in BusFlags : Enqueue(t, p, f)
  \/ \E p \in Procs : DropDevice(p) \/ Release(p) \/ \E i \in ParamIndices : SetParam(p, i)
  \/ DispatchStep

NotifyFairness == WF_notifyVars(DispatchStep) /\ \A t \in Notifiers : WF_notifyVars(CallerStep(t))
NotifySpec == NotifyInit /\ [][NotifyNext]_notifyVars /\ NotifyFairness

-----------------------------------------------------------------------------
(* Properties *)

QueuedOrTaken(p) ==
  \/ nqueue_next[p] # NoProc
  \/ \E t \in Notifiers : nproc[t] = p /\ npc[t] \in {"setbit", "or", "cas"}
  \/ notifying = p

(* No notification flag is left behind: while a flag is set, the processor  *)
(* is in the queue, about to be inserted by some thread, or under dispatch, *)
(* although callers skip the insertion if the flag or the link is set.      *)
FlagsReachQueue == \A p \in Procs : flags[p] # {} => QueuedOrTaken(p)

\* Bound leaves out the last parameter of a full block: AllParamsReported.
LastOfBlock == {i \in ParamIndices : \E k \in 1..ParamCount : i + 1 = k * BlockBits}

(* No other parameter change is left behind: a parameter whose last value   *)
(* was not reported is being set, or dirty with PARAMCHANGE still to be     *)
(* dispatched, or part of the bits just fetched.  (Clearing flags_ before   *)
(* fetching the bits is what makes this hold.)                              *)
StaleParamsReported ==
  \A p \in Procs : \A i \in stale[p] \ LastOfBlock : has_device[p] =>
    \/ \E t \in Notifiers : nproc[t] = p /\ nparam[t] = i /\ npc[t] = "setbit"
    \/ notifying = p /\ dpc = "report" /\ i \in bitmask
    \/ /\ i \in dirty_bits[p]
       /\ \/ "PARAMCHANGE" \in flags[p] /\ QueuedOrTaken(p)
          \/ \E t \in Notifiers : nproc[t] = p /\ npc[t] = "or" /\ "PARAMCHANGE" \in pushmask[t]
          \/ notifying = p /\ (dpc = "bits" \/ dpc = "report") /\ block <= i
             /\ (dpc = "report" => block + BlockBits <= i)

(* The dispatcher never touches a destroyed processor: whatever it has      *)
(* taken or can still take from the queue is kept alive by its guard, also  *)
(* if the device was dropped after the notification was queued.  Only the   *)
(* tentative link of an insertion that has yet to succeed may be outdated.  *)
NoUseAfterFree ==
  /\ queue_head \notin freed /\ dhead \notin freed
  /\ dpc \notin {"idle", "take"} => notifying \notin freed
  /\ \A p \in Procs \ freed :
       nqueue_next[p] \in freed => \E t \in Notifiers : nproc[t] = p /\ npc[t] \in {"store", "push"}

(* nqueue_guard_ is only set by the thread that claimed the processor, when *)
(* it is null: the assert_warn of enotify_enqueue_mt holds.                 *)
GuardIsNull == \A t \in Notifiers : npc[t] = "guard" => ~nqueue_guard[nproc[t]]

(* Notifications get lost neither by skipped insertions nor by a device     *)
(* that goes away, and what the dispatcher takes from the queue is alive.   *)
NotifySound ==
  NotifyTypeOK /\ FlagsReachQueue /\ StaleParamsReported /\ NoUseAfterFree /\ GuardIsNull

(* Every changed parameter value is eventually reported to its property,    *)
(* as "Dispatch all AudioProcessor notifications" says.                     *)
AllParamsReported ==
  \A p \in Procs : \A i \in LiveProps : i \in stale[p] ~> i \notin stale[p] \/ ~has_device[p]
=============================================================================
