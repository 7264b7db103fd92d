------------------------------ MODULE MainLoop ------------------------------
(***************************************************************************)
(* MainLoop::run and iterate_loops_Lm (ase/loop.cc): a main loop and its   *)
(* sub loops collect, prepare, poll, check and dispatch event sources by   *)
(* priority and in round-robin order, while other threads add, remove and  *)
(* trigger sources or quit the loop.                                       *)
(*                                                                         *)
(* The mutex of the main loop is released only around the callbacks        *)
(* prepare(), check(), dispatch(), destroy() and around poll(): a step     *)
(* here is a section under the mutex, or one of the callbacks.             *)
(*                                                                         *)
(* Sources in Fds are PollFDSources, the others DispatcherSources: their   *)
(* prepare() and check() tell if something is pending, and whoever makes   *)
(* it pending calls wakeup().  GLib contexts and recursion (iterate() in a *)
(* callback) are left out.                                                 *)
(***************************************************************************)
EXTENDS Naturals, Sequences, Functions

CONSTANTS NLoops,         \* loops_: 1 is the main loop, others are sub loops
          Sources, Fds,   \* event sources, the PollFDSources among them
          LoopOf,         \* the loop a source is added to
          Priority,       \* priority_ of a source
          Initial,        \* sources that were added before run(), in that order
          MayQuit         \* whether quit() is called

ASSUME MainLoopAssumption ==
  /\ NLoops \in Nat \ {0} /\ Fds \subseteq Sources /\ Initial \in Seq(Sources)
  /\ LoopOf \in [Sources -> 1..NLoops] /\ Priority \in [Sources -> 1..999]
  /\ MayQuit \in BOOLEAN

Loops == 1..NLoops
\* The elements of a sequence that are in a set, in their order.
Kept(s, S) ==
  LET kept[n \in 0..Len(s)] ==
        IF n = 0 THEN <<>> ELSE IF s[n] \in S THEN Append(kept[n-1], s[n]) ELSE kept[n-1]
  IN kept[Len(s)]

UNDEFINED_PRIORITY == 0          \* less than any priority

VARIABLES
  sources,        \* sources_ of each loop
  life,           \* "new", "member" (source.loop_ is set) or "removed"
  loop_state,     \* loop_state_
  poll_sources,   \* poll_sources_ of each loop
  dispatch_priority, \* dispatch_priority_ of each loop
  dispatchable,   \* iterate_loops_Lm: per loop
  rr_index,       \* rr_index_ % NLoops
  loop_pc, loop, pos,  \* loop thread: phase, its loop and position in poll_sources_
  verdict,        \* result of a callback, or whether poll() saw a wakeup
  running, has_quit,
  eventfd,        \* a wakeup is queued in eventfd_
  ready,          \* the event of a source is pending
  revents,        \* PollFDSources: pfd_.revents
  waking          \* sources whose adding, removing or triggering thread is
                  \* about to call wakeup()
lists  == <<sources, life, loop_state>>
cycle  == <<poll_sources, dispatch_priority, dispatchable, rr_index>>
place  == <<loop_pc, loop, pos, verdict>>
quits  == <<running, has_quit>>
events == <<eventfd, ready, revents, waking>>
loopVars   == <<lists, cycle, place, quits, events>>

Phases == {"start", "collect", "prepare", "prepared", "poll", "polled", "check", "checked", "pick",
           "dispatch", "cleanup", "exit"}
LoopTypeOK ==
  /\ sources \in [Loops -> Seq(Sources)] /\ poll_sources \in [Loops -> Seq(Sources)]
  /\ life \in [Sources -> {"new", "member", "removed"}]
  /\ loop_state \in [Sources -> {"WAITING", "PREPARED", "NEEDS_DISPATCH"}]
  /\ dispatch_priority \in [Loops -> 0..999] /\ dispatchable \in [Loops -> BOOLEAN]
  /\ rr_index \in 0..NLoops-1
  /\ loop_pc \in Phases /\ loop \in Loops /\ pos \in Nat /\ verdict \in BOOLEAN
  /\ running \in BOOLEAN /\ has_quit \in BOOLEAN /\ eventfd \in BOOLEAN
  /\ ready \in [Sources -> BOOLEAN] /\ revents \in [Sources -> BOOLEAN] /\ waking \subseteq Sources

LoopInit ==
  /\ sources = [l \in Loops |-> Kept(Initial, {s \in Sources : LoopOf[s] = l})]
  /\ life = [s \in Sources |-> IF s \in Range(Initial) THEN "member" ELSE "new"]
  /\ loop_state = [s \in Sources |-> "WAITING"]
  /\ poll_sources = [l \in Loops |-> <<>>]
  /\ dispatch_priority = [l \in Loops |-> UNDEFINED_PRIORITY]
  /\ dispatchable = [l \in Loops |-> FALSE] /\ rr_index = 0
  /\ loop_pc = "start" /\ loop = 1 /\ pos = 1 /\ verdict = FALSE
  /\ running = FALSE /\ has_quit = FALSE
  /\ eventfd = FALSE /\ ready = [s \in Sources |-> FALSE]
  /\ revents = [s \in Sources |-> FALSE] /\ waking = {}

-----------------------------------------------------------------------------
(* The thread that runs the loop *)

Start ==
  /\ loop_pc = "start"
  /\ running' = ~has_quit
  /\ loop_pc' = IF has_quit THEN "cleanup" ELSE "collect"
  /\ UNCHANGED <<lists, cycle, loop, pos, verdict, has_quit, events>>

\* collect_sources_Lm: remaining NEEDS_DISPATCH sources take precedence, but
\* sources of higher priority are polled along with them.
Remaining(l) == {s \in Range(sources[l]) : loop_state[s] = "NEEDS_DISPATCH"}
TopPriority(S) == IF S = {} THEN UNDEFINED_PRIORITY
                  ELSE CHOOSE p \in {Priority[s] : s \in S} : \A s \in S : Priority[s] <= p
Collected(l, s) ==
  \/ Priority[s] > TopPriority(Remaining(l))
  \/ Priority[s] = TopPriority(Remaining(l)) /\ s \in Remaining(l)
Collect ==
  /\ loop_pc = "collect"
  /\ poll_sources' = [l \in Loops |-> Kept(sources[l], {s \in Range(sources[l]) : Collected(l, s)})]
  /\ dispatch_priority' = [l \in Loops |-> TopPriority(Remaining(l))]
  /\ loop_pc' = "prepare" /\ loop' = 1 /\ pos' = 1
  /\ UNCHANGED <<lists, dispatchable, rr_index, verdict, quits, events>>

Source == poll_sources[loop][pos]
AtSource == pos <= Len(poll_sources[loop])
\* Callbacks run only for sources that were not removed meanwhile.
Undestroyed(s) == life[s] = "member"

\* The end of prepare_sources_Lm or check_sources_Lm for one loop.
MoreLoops == loop < NLoops
LoopDone(phase, next) ==
  /\ loop_pc = phase /\ ~AtSource
  /\ dispatchable' = [dispatchable EXCEPT ![loop] =
       (phase = "check" /\ @) \/ dispatch_priority[loop] > UNDEFINED_PRIORITY]
  /\ pos' = 1
  /\ IF MoreLoops THEN loop' = loop + 1 /\ loop_pc' = loop_pc ELSE loop' = 1 /\ loop_pc' = next
  /\ UNCHANGED <<lists, poll_sources, dispatch_priority, rr_index, verdict, quits, events>>

\* A source that was removed meanwhile is skipped.
Skip(phase) ==
  /\ loop_pc = phase /\ AtSource /\ ~Undestroyed(Source)
  /\ pos' = pos + 1
  /\ UNCHANGED <<lists, cycle, loop_pc, loop, verdict, quits, events>>

\* source.prepare(), unlocked
PrepareCall ==
  /\ loop_pc = "prepare" /\ AtSource /\ Undestroyed(Source)
  /\ verdict' = (ready[Source] /\ Source \notin Fds)
  /\ revents' = [revents EXCEPT ![Source] = FALSE]
  /\ loop_pc' = "prepared"
  /\ UNCHANGED <<lists, cycle, loop, pos, quits, eventfd, ready, waking>>

\* The verdict of prepare() or check(); a source that is not ready is in
\* state `idle' next.  Sources removed during the callback are ignored.
Judge(phase, idle) ==
  /\ IF ~Undestroyed(Source)
       THEN UNCHANGED <<loop_state, dispatch_priority>>
       ELSE IF verdict
         THEN /\ loop_state' = [loop_state EXCEPT ![Source] = "NEEDS_DISPATCH"]
              /\ dispatch_priority' = [dispatch_priority EXCEPT ![loop] =
                                         IF @ < Priority[Source] THEN Priority[Source] ELSE @]
         ELSE loop_state' = [loop_state EXCEPT ![Source] = idle] /\ UNCHANGED dispatch_priority
  /\ pos' = pos + 1 /\ loop_pc' = phase /\ verdict' = FALSE
  /\ UNCHANGED <<sources, life, poll_sources, dispatchable, rr_index, loop, quits, events>>
PrepareDone == loop_pc = "prepared" /\ Judge("prepare", "PREPARED")

\* poll(): it does not block if a source is dispatchable; otherwise it waits
\* for eventfd_ or a file descriptor of a prepared source.
Polled == {s \in Fds \cap UNION {Range(poll_sources[l]) : l \in Loops} : loop_state[s] = "PREPARED"}
AnyDispatchable == \E l \in Loops : dispatchable[l]
Poll ==
  /\ loop_pc = "poll"
  /\ AnyDispatchable \/ eventfd \/ \E s \in Polled : ready[s]
  /\ revents' = [s \in Sources |-> IF s \in Polled THEN ready[s] ELSE revents[s]]
  /\ verdict' = eventfd /\ loop_pc' = "polled"
  /\ UNCHANGED <<lists, cycle, loop, pos, quits, eventfd, ready, waking>>

\* Timers and signals may end the poll as well.
PollTimeout ==
  /\ loop_pc = "poll" /\ ~AnyDispatchable /\ ~eventfd /\ \A s \in Polled : ~ready[s]
  /\ verdict' = FALSE /\ loop_pc' = "polled"
  /\ UNCHANGED <<lists, cycle, loop, pos, quits, events>>

\* eventfd_.flush(), if poll() reported a wakeup
Flush ==
  /\ loop_pc = "polled"
  /\ eventfd' = (eventfd /\ ~verdict) /\ loop_pc' = "check" /\ verdict' = FALSE
  /\ UNCHANGED <<lists, cycle, loop, pos, quits, ready, revents, waking>>

\* source.check(), unlocked.  Sources that need dispatching since prepare()
\* are checked as well: only removed ones are not.
CheckCall ==
  /\ loop_pc = "check" /\ AtSource /\ Undestroyed(Source)
  /\ verdict' = IF Source \in Fds THEN revents[Source] ELSE ready[Source]
  /\ loop_pc' = "checked"
  /\ UNCHANGED <<lists, cycle, loop, pos, quits, events>>
CheckDone == loop_pc = "checked" /\ Judge("check", "WAITING")

\* The round-robin search of iterate_loops_Lm among the dispatchable loops
\* of maximum dispatch_priority_; it has no step if there is none.
MaxPriority ==
  LET P == {dispatch_priority[l] : l \in {l \in Loops : dispatchable[l]}}
  IN CHOOSE p \in P : \A q \in P : q <= p
Qualified(l) == dispatchable[l] /\ dispatch_priority[l] >= MaxPriority
Nth(n) == ((rr_index + n) % NLoops) + 1
FirstQualified(n) == Qualified(Nth(n)) /\ \A m \in 0..n-1 : ~Qualified(Nth(m))

\* dispatch_source_Lm: the first source that still needs dispatching
PickedAny(l, s) == Undestroyed(s) /\ loop_state[s] = "NEEDS_DISPATCH" \* mutant
Picked(l, s) ==
  Undestroyed(s) /\ Priority[s] = dispatch_priority[l] /\ loop_state[s] = "NEEDS_DISPATCH"
PickNone ==
  /\ loop_pc = "pick" /\ ~AnyDispatchable
  /\ loop_pc' = "cleanup"
  /\ UNCHANGED <<lists, cycle, loop, pos, verdict, quits, events>>
Pick(n) ==
  LET l == Nth(n)
      I == {i \in DOMAIN poll_sources[l] : Picked(l, poll_sources[l][i])}
  IN /\ loop_pc = "pick" /\ AnyDispatchable /\ FirstQualified(n)
     /\ rr_index' = (rr_index + n + 1) % NLoops
     /\ dispatch_priority' = [dispatch_priority EXCEPT ![l] = UNDEFINED_PRIORITY]
     /\ \/ I = {} /\ loop_pc' = "cleanup" /\ UNCHANGED <<loop, pos, loop_state, ready>>
        \/ \E i \in I :
             /\ \A k \in I : i <= k
             /\ loop_pc' = "dispatch" /\ loop' = l /\ pos' = i
             /\ loop_state' = [loop_state EXCEPT ![poll_sources[l][i]] = "WAITING"]
             /\ ready' = [ready EXCEPT ![poll_sources[l][i]] = FALSE]  \* dispatch() handles the event
     /\ UNCHANGED <<sources, life, poll_sources, dispatchable, verdict, quits, eventfd, revents, waking>>

\* remove_source_Lm
Without(s) == [sources EXCEPT ![LoopOf[s]] = Kept(@, Sources \ {s})]
Unlink(s) ==
  /\ life' = [life EXCEPT ![s] = "removed"] /\ loop_state' = [loop_state EXCEPT ![s] = "WAITING"]
  /\ sources' = Without(s)

\* source.dispatch() returns keep_alive
DispatchDone(keep_alive) ==
  /\ loop_pc = "dispatch"
  /\ IF Undestroyed(Source) /\ ~keep_alive THEN Unlink(Source) ELSE UNCHANGED lists
  /\ loop_pc' = "cleanup"
  /\ UNCHANGED <<cycle, loop, pos, verdict, quits, events>>

Cleanup ==
  /\ loop_pc = "cleanup"
  /\ poll_sources' = [l \in Loops |-> <<>>] /\ dispatchable' = [l \in Loops |-> FALSE]
  /\ loop_pc' = IF running THEN "collect" ELSE "exit"
  /\ loop' = 1 /\ pos' = 1
  /\ has_quit' = (has_quit /\ running)
  /\ UNCHANGED <<lists, dispatch_priority, rr_index, verdict, running, events>>

LoopStep ==
  \/ Start \/ Collect \/ Skip("prepare") \/ PrepareCall \/ PrepareDone \/ LoopDone("prepare", "poll")
  \/ Poll \/ Flush \/ Skip("check") \/ CheckCall \/ CheckDone \/ LoopDone("check", "pick")
  \/ PickNone \/ \E n \in 0..NLoops-1 : Pick(n)
  \/ DispatchDone(TRUE) \/ Cleanup

-----------------------------------------------------------------------------
(* Other threads and callbacks: add, try_remove, quit and new events *)

Unlocked == loop_pc \in {"start", "prepared", "poll", "polled", "checked", "dispatch", "cleanup"}

AddUnwoken(s) ==                                           \* mutant
  /\ Unlocked /\ life[s] = "new"
  /\ life' = [life EXCEPT ![s] = "member"]
  /\ sources' = [sources EXCEPT ![LoopOf[s]] = Append(@, s)]
  /\ UNCHANGED <<loop_state, cycle, place, quits, events>>
Add(s) ==
  /\ Unlocked /\ life[s] = "new"
  /\ life' = [life EXCEPT ![s] = "member"]
  /\ sources' = [sources EXCEPT ![LoopOf[s]] = Append(@, s)]
  /\ waking' = waking \cup {s}
  /\ UNCHANGED <<loop_state, cycle, place, quits, eventfd, ready, revents>>

TryRemove(s) ==
  /\ Unlocked /\ life[s] = "member"
  /\ Unlink(s)
  /\ waking' = waking \cup {s}
  /\ UNCHANGED <<cycle, place, quits, eventfd, ready, revents>>

\* An event occurs; unless a file descriptor is involved, wakeup() follows.
Trigger(s) ==
  /\ ~ready[s] /\ life[s] # "removed"
  /\ ready' = [ready EXCEPT ![s] = TRUE]
  /\ waking' = IF s \in Fds THEN waking ELSE waking \cup {s}
  /\ UNCHANGED <<lists, cycle, place, quits, eventfd, revents>>

\* wakeup()
Wakeup(s) ==
  /\ s \in waking
  /\ waking' = waking \ {s} /\ eventfd' = TRUE
  /\ UNCHANGED <<lists, cycle, place, quits, ready, revents>>

QuitUnwoken ==                                             \* mutant
  /\ MayQuit /\ Unlocked /\ ~has_quit
  /\ has_quit' = TRUE /\ running' = FALSE
  /\ UNCHANGED <<lists, cycle, place, events>>
Quit ==
  /\ MayQuit /\ Unlocked /\ ~has_quit
  /\ has_quit' = TRUE /\ running' = FALSE /\ eventfd' = TRUE
  /\ UNCHANGED <<lists, cycle, place, ready, revents, waking>>

-----------------------------------------------------------------------------
LoopNext ==
  \/ LoopStep \/ PollTimeout \/ DispatchDone(FALSE) \/ Quit
  \/ \E s \in Sources : Add(s) \/ TryRemove(s) \/ Trigger(s) \/ Wakeup(s)

\* The loop thread runs and pending wakeups are sent; nothing else has to
\* happen, in particular no timeout of poll().
LoopFairness == WF_loopVars(LoopStep) /\ \A s \in Sources : WF_loopVars(Wakeup(s))
LoopSpec == LoopInit /\ [][LoopNext]_loopVars /\ LoopFairness

-----------------------------------------------------------------------------
(* Properties *)

(* poll() never blocks while a source has a pending event, unless a wakeup  *)
(* was or is about to be sent or its file descriptor is being polled: no    *)
(* event, added source or removal is missed between prepare() and poll().   *)
PollMissesNothing ==
  loop_pc = "poll" /\ ~AnyDispatchable =>
    \A s \in Sources : life[s] = "member" /\ ready[s] => s \in Polled \/ eventfd \/ s \in waking

(* Priorities hold within a loop: when a source is dispatched, no source of *)
(* the loop that needs dispatching has a higher priority.                   *)
PriorityOrder ==
  [][loop_pc = "pick" /\ loop_pc' = "dispatch" =>
       \A s \in Range(poll_sources[loop']) :
         loop_state[s] = "NEEDS_DISPATCH" =>
           Priority[s] <= Priority[poll_sources[loop'][pos']]]_loopVars

(* The loop never decides to call prepare(), check() or dispatch() of a     *)
(* source that try_remove() or a callback removed since poll_sources_, which *)
(* still refers to it, was collected.                                       *)
RemovedNotCalled ==
  [][loop_pc' \in {"prepared", "checked", "dispatch"} /\ loop_pc # loop_pc' =>
       life[poll_sources[loop'][pos']] = "member"]_loopVars

(* The search for the next loop ends: some dispatchable loop always has the *)
(* maximum priority.                                                        *)
SearchEnds == loop_pc = "pick" /\ AnyDispatchable => \E n \in 0..NLoops-1 : Qualified(Nth(n))

(* Every event of a source is dispatched, unless the source is removed or   *)
(* the loop quits: sources of the same priority, and loops, take turns.     *)
(* "priorities below PRIORITY_ASCENT only apply internally to a loop".      *)
EventsDispatched ==
  \A s \in Sources : life[s] = "member" /\ ready[s] ~> ~ready[s] \/ life[s] = "removed" \/ has_quit
                                                      \/ loop_pc = "exit"

(* run() returns after quit(), from wherever and whenever it is called.     *)
QuitReturns == has_quit ~> loop_pc = "exit"

(* Neither poll() nor the search for the next loop to dispatch gets stuck.  *)
LoopSound == LoopTypeOK /\ PollMissesNothing /\ SearchEnds

(* Callbacks are called in the order of priorities, and of members only.    *)
DispatchSound == PriorityOrder /\ RemovedNotCalled

(* The loop keeps dispatching until it is told to quit, and then quits.     *)
LoopProgress == EventsDispatched /\ QuitReturns

-----------------------------------------------------------------------------
(* Instances for TLC: a file and a timer in the main loop, and a source of *)
(* a sub loop.                                                              *)
MCInitial == <<"io", "timer">>
MCLoopOf == [s \in Sources |-> IF s = "gui" THEN 2 ELSE 1]
SamePriority == [s \in Sources |-> 500]                              \* PRIORITY_NORMAL
TimerHigher == [s \in Sources |-> IF s = "timer" THEN 700 ELSE 500]  \* PRIORITY_HIGH, PRIORITY_NORMAL
=============================================================================
