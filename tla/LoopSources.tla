---------------------------- MODULE LoopSources -----------------------------
(***************************************************************************)
(* The event sources of a loop (src/ase/loop.cc): TimedSource, the timer   *)
(* behind exec_once(), USignalSource and PollFDSource, driven by the       *)
(* prepare / poll / check / dispatch cycle of one loop.  MainLoop models   *)
(* the cycle itself (priorities, several loops, adding and removing); here *)
(* it is the scheduler that calls the sources, one dispatch per turn.      *)
(*                                                                         *)
(* Time is counted in microseconds, MSEC of them in a millisecond; the     *)
(* clock is timestamp_realtime(), which may be set back.                   *)
(***************************************************************************)
EXTENDS Integers, FiniteSets, FiniteSetsExt, TLC

CONSTANTS
  MSEC,          \* microseconds per millisecond (1000 in the code)
  DelayMs,       \* initial delay of the repeating timer
  IntervalMs,    \* repeat interval of the repeating timer
  OnceMs,        \* delay of exec_once()
  MaxTime,       \* bound: the clock
  MaxOnce,       \* bound: exec_once() calls
  MaxRaises,     \* bound: raise() calls
  RacingRemoval  \* whether other threads remove the PollFDSource while it is dispatched

ASSUME LoopSourcesAssumption ==
  /\ MSEC \in Nat \ {0} /\ {DelayMs, IntervalMs, OnceMs} \subseteq Nat \ {0}
  /\ {MaxTime, MaxOnce, MaxRaises} \subseteq Nat /\ RacingRemoval \in BOOLEAN

VARIABLES
  clock,         \* timestamp_realtime()
  warped,        \* bound: the clock is set back once
  turn,          \* phase of the cycle, or the kind of source that is dispatched
  current_time,  \* state.current_time_usecs
  deadline,      \* when poll() times out
  timer,         \* TimedSources of the loop by id
  once_id,       \* *once_id
  closures,      \* exec_once() calls made
  usignal,       \* the bit of usignals_notified
  owed,          \* raise() calls the slot has not been called for
  raises,        \* raise() calls made
  fd,            \* pfd_.fd: "open" or "-1"
  fd_member,     \* the PollFDSource is in sources_
  destroyer,     \* another thread in PollFDSource::destroy(): "none", "enter", "closed" or "done"
  closed,        \* number of close() calls
  due,           \* sources in state NEEDS_DISPATCH
  eventfd_set    \* a wakeup is queued
sourceVars == <<clock, warped, turn, current_time, deadline, timer, once_id, closures, usignal, owed, raises,
                fd, fd_member, destroyer, closed, due, eventfd_set>>

REPEATING == MaxOnce + 1                  \* id of the repeating timer
Ids == DOMAIN timer
TimedSource(delay, interval, oneshot) ==
  [expiration |-> clock + MSEC * delay, interval |-> MSEC * interval, first |-> TRUE, oneshot |-> oneshot]

SourcesInit ==
  /\ clock = 0 /\ warped = FALSE /\ turn = "prepare" /\ current_time = 0 /\ deadline = 0
  /\ timer = (REPEATING :> TimedSource(DelayMs, IntervalMs, FALSE))
  /\ once_id = 0 /\ closures = 0
  /\ usignal = FALSE /\ owed = 0 /\ raises = 0
  /\ fd = "open" /\ fd_member = TRUE /\ destroyer = "none" /\ closed = 0
  /\ due = {} /\ eventfd_set = FALSE

timing  == <<clock, warped>>
polling == <<current_time, deadline, due, eventfd_set>>
timers  == <<timer, once_id, closures>>
signals == <<usignal, owed, raises>>
files   == <<fd, fd_member, destroyer, closed>>

SIGNAL == -1                               \* the USignalSource in due
POLLFD == -2                               \* the PollFDSource in due
Members == Ids \cup {SIGNAL} \cup IF fd_member THEN {POLLFD} ELSE {}

-----------------------------------------------------------------------------
(* prepare: a timer that waits longer than its interval saw the clock being *)
(* set back; the timeout of poll() is the shortest one, in milliseconds.    *)
ClockWarped(t) ==
  IF t.first \/ clock + t.interval >= t.expiration THEN t
  ELSE [t EXCEPT !.expiration = clock + t.interval]
Timeout(usecs) ==
  LET msecs == usecs \div MSEC IN MSEC * (IF usecs > 0 /\ msecs <= 0 THEN 1 ELSE msecs)
Never == 2 * (MaxTime + MSEC * (DelayMs + IntervalMs + OnceMs))
\* collect_sources_Lm: sources that still need dispatching take precedence
Candidates == IF due = {} THEN Members ELSE due \cup {SIGNAL}
Expired(s) == s \in Ids /\ clock >= timer[s].expiration
Prepare ==
  LET ready  == {s \in Candidates : \/ Expired(s)
                                    \/ s = SIGNAL /\ usignal
                                    \/ s = POLLFD /\ fd = "-1"}
      armed  == [i \in Ids |-> IF i \in Candidates /\ ~Expired(i) THEN ClockWarped(timer[i]) ELSE timer[i]]
      waits  == {armed[i].expiration - clock : i \in (Candidates \cap Ids) \ ready}
  IN /\ turn = "prepare" /\ turn' = "poll"
     /\ current_time' = clock /\ due' = ready /\ timer' = armed
     /\ deadline' = IF due \cup ready # {} THEN clock   \* dispatch_priority_ is set, do not wait
                    ELSE IF waits = {} THEN Never ELSE clock + Timeout(Min(waits))
     /\ UNCHANGED <<timing, once_id, closures, signals, files, eventfd_set>>

\* poll() and check(): every collected source is checked again
PollCheck(readable) ==
  /\ turn \in {"poll", "interrupted"}
  /\ readable => fd = "open" /\ fd_member
  /\ IF turn = "poll" THEN clock >= deadline \/ eventfd_set \/ readable ELSE TRUE
  /\ turn' = "pick" /\ current_time' = clock /\ eventfd_set' = FALSE
  /\ due' = {s \in Candidates \cap Members : \/ Expired(s)
                                             \/ s = SIGNAL /\ usignal
                                             \/ s = POLLFD /\ (fd = "-1" \/ readable)}
  /\ UNCHANGED <<timing, deadline, timers, signals, files>>

-----------------------------------------------------------------------------
(* dispatch: one source per turn, signals have the highest priority         *)
DispatchSignal ==
  /\ turn = "pick" /\ SIGNAL \in due
  /\ turn' = "slot" /\ due' = due \ {SIGNAL}
  /\ usignal' = FALSE /\ owed' = 0             \* cleared before the slot is called
  /\ UNCHANGED <<timing, current_time, deadline, eventfd_set, timers, raises, files>>
DispatchTimer(id) ==
  /\ turn = "pick" /\ id \in due \cap Ids /\ SIGNAL \notin due
  /\ due' = due \ {id}
  /\ timer' = [timer EXCEPT ![id].first = FALSE]
  /\ IF id = REPEATING THEN turn' = "repeating" /\ once_id' = once_id
     ELSE turn' = "once" /\ once_id' = 0       \* once_handler: *once_id = 0; vfunc();
  /\ UNCHANGED <<timing, current_time, deadline, eventfd_set, closures, signals, files>>
DispatchFd ==
  /\ turn = "pick" /\ POLLFD \in due \cap Members /\ SIGNAL \notin due
  /\ turn' = "fd" /\ due' = due \ {POLLFD}
  /\ UNCHANGED <<timing, current_time, deadline, eventfd_set, timers, signals, files>>
DispatchNone ==
  /\ turn = "pick" /\ due \cap Members = {}
  /\ turn' = "prepare" /\ due' = {}
  /\ UNCHANGED <<timing, current_time, deadline, eventfd_set, timers, signals, files>>

\* The slot returns.  The repeating timer's slot says whether it is called again.
SlotDone ==
  /\ turn = "slot" /\ turn' = "prepare"
  /\ UNCHANGED <<timing, polling, timers, signals, files>>
TimerDone(repeat) ==
  /\ turn = "repeating" /\ turn' = "prepare"
  /\ timer' = IF repeat THEN [timer EXCEPT ![REPEATING].expiration = clock + timer[REPEATING].interval]
              ELSE [i \in Ids \ {REPEATING} |-> timer[i]]
  /\ UNCHANGED <<timing, polling, once_id, closures, signals, files>>
\* dispatch() returns FALSE, dispatch_source_Lm() removes the timer
Fired(id) == id \in Ids /\ id # REPEATING /\ ~timer[id].first
OnceDone(id) ==
  /\ turn = "once" /\ Fired(id) /\ turn' = "prepare"
  /\ timer' = [i \in Ids \ {id} |-> timer[i]]
  /\ UNCHANGED <<timing, polling, once_id, closures, signals, files>>
\* PollFDSource::dispatch: the slot asks to go on, or the file is closed
FdDone(keep_alive) ==
  /\ turn = "fd"
  /\ IF keep_alive THEN turn' = "prepare" /\ UNCHANGED closed
     ELSE turn' = "closing" /\ closed' = closed + (IF fd = "open" THEN 1 ELSE 0)
  /\ UNCHANGED <<timing, polling, timers, signals, fd, fd_member, destroyer>>
FdClosed ==
  /\ turn = "closing" /\ turn' = "prepare"
  /\ fd' = "-1" /\ fd_member' = FALSE         \* remove_source_Lm: destroy() finds nothing to close
  /\ UNCHANGED <<timing, polling, timers, signals, destroyer, closed>>

InSlot == turn \in {"slot", "repeating", "once", "fd"}
(* exec_once(): a timer of an earlier call is removed, *once_id names the   *)
(* new one.  Called by callbacks in the loop's thread.                      *)
ExecOnce ==
  /\ InSlot /\ closures < MaxOnce
  /\ closures' = closures + 1 /\ once_id' = closures'
  /\ timer' = (closures' :> TimedSource(OnceMs, 0, TRUE)) @@ [i \in Ids \ {once_id} |-> timer[i]]
  /\ due' = due \ {once_id}
  /\ eventfd_set' = TRUE
  /\ UNCHANGED <<timing, turn, current_time, deadline, signals, files>>
\* clear_source() or exec_once() without a function
ClearOnce ==
  /\ InSlot /\ once_id # 0
  /\ timer' = [i \in Ids \ {once_id} |-> timer[i]] /\ due' = due \ {once_id} /\ once_id' = 0
  /\ eventfd_set' = TRUE
  /\ UNCHANGED <<timing, turn, current_time, deadline, closures, signals, files>>

(* try_remove() of the PollFDSource: by a callback, the one being           *)
(* dispatched included, or by another thread, whose destroy() runs while    *)
(* dispatch() may be in progress.                                           *)
RemoveFd ==
  /\ InSlot /\ fd_member
  /\ fd_member' = FALSE /\ closed' = closed + (IF fd = "open" THEN 1 ELSE 0) /\ fd' = "-1"
  /\ due' = due \ {POLLFD} /\ eventfd_set' = TRUE
  /\ UNCHANGED <<timing, turn, current_time, deadline, timers, signals, destroyer>>
OtherRemove ==
  /\ fd_member /\ (turn \in {"fd", "closing"} => RacingRemoval)
  /\ fd_member' = FALSE /\ destroyer' = "enter" /\ due' = due \ {POLLFD} /\ eventfd_set' = TRUE
  /\ UNCHANGED <<timing, turn, current_time, deadline, timers, signals, fd, closed>>
OtherDestroy ==
  /\ \/ /\ destroyer = "enter" /\ destroyer' = "closed"
        /\ closed' = closed + (IF fd = "open" THEN 1 ELSE 0) /\ UNCHANGED fd
     \/ /\ destroyer = "closed" /\ destroyer' = "done"
        /\ fd' = "-1" /\ UNCHANGED closed
  /\ UNCHANGED <<timing, turn, polling, timers, signals, fd_member>>

-----------------------------------------------------------------------------
\* USignalSource::raise(), in any thread: poll() returns with EINTR only if the
\* signal is delivered to the loop's thread while it polls
Raise(interrupts) ==
  /\ raises < MaxRaises
  /\ raises' = raises + 1 /\ usignal' = TRUE /\ owed' = owed + 1
  /\ turn' = IF interrupts /\ turn = "poll" THEN "interrupted" ELSE turn
  /\ UNCHANGED <<timing, polling, timers, files>>
Tick ==
  /\ clock < MaxTime /\ clock' = clock + 1
  /\ UNCHANGED <<warped, turn, polling, timers, signals, files>>
SetBack(t) ==
  /\ ~warped /\ t < clock /\ clock' = t /\ warped' = TRUE
  /\ UNCHANGED <<turn, polling, timers, signals, files>>

SourcesNext ==
  \/ Prepare \/ \E readable \in BOOLEAN : PollCheck(readable)
  \/ DispatchSignal \/ \E id \in Ids : DispatchTimer(id) \/ OnceDone(id)
  \/ DispatchFd \/ DispatchNone \/ SlotDone
  \/ \E repeat \in BOOLEAN : TimerDone(repeat) \/ FdDone(repeat) \/ Raise(repeat)
  \/ FdClosed \/ ExecOnce \/ ClearOnce \/ RemoveFd \/ OtherRemove \/ OtherDestroy
  \/ Tick \/ \E t \in 0..MaxTime : SetBack(t)
SourcesSpec == SourcesInit /\ [][SourcesNext]_sourceVars

-----------------------------------------------------------------------------
(* poll() never sleeps past the next timer by more than the millisecond it  *)
(* rounds up to, and a repeating timer is never waited for longer than its  *)
(* interval, even when the clock was set back (TimedSource::prepare).       *)
TimersPunctual ==
  turn = "poll" /\ deadline > current_time =>
    \A i \in Ids :
      /\ deadline <= timer[i].expiration \/ deadline = current_time + MSEC
      /\ timer[i].first \/ timer[i].expiration <= current_time + timer[i].interval
(* exec_once() keeps one timer per once_id: every timer of it that is still *)
(* going to fire is the one *once_id names, so no call is left that neither *)
(* a later exec_once() nor clear_source() can stop.                         *)
OncePending ==
  \A i \in Ids \cap 1..MaxOnce : timer[i].first => once_id = i
(* A signal raised while its slot runs, or at any other moment, is still    *)
(* flagged until the slot is called after it (USignalSource::dispatch).     *)
SignalsKept == owed > 0 => usignal
(* The file descriptor of a PollFDSource is closed once, however the source *)
(* comes to its end (its slot, a callback, another thread).                 *)
FdClosedOnce == closed <= 1
=============================================================================
