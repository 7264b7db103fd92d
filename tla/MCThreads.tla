----------------------------- MODULE MCThreads ------------------------------
(***************************************************************************)
(* Structures that threads share, for TLC.  They share no state, a         *)
(* behaviour is one of the component that the initial state selects.       *)
(*                                                                         *)
(* AtomicIntrusiveStack: three threads that push and pop three nodes.      *)
(* MpmcStack: two threads and three nodes; ABA needs two of each and a     *)
(* push of a node that was popped before.                                  *)
(* ENotify: the engine and another thread notify about two processors.     *)
(* MainLoop: sources come and go.                                          *)
(***************************************************************************)
EXTENDS AtomicIntrusiveStack, MpmcStack, ENotify, MainLoop, TLC

VARIABLE component  \* the component the behaviour is of
threadsVars == <<component, vars, mpmcVars, notifyVars, loopVars>>

(* How the nodes are dealt to the threads varies where they are used: for   *)
(* the other components one thread has them all.                           *)
ThreadsInit ==
  /\ component \in {"intrusive", "mpmc", "notify", "loop"}
  /\ Init /\ MpmcInit /\ NotifyInit /\ LoopInit
  /\ component # "intrusive" => \A t \in Threads \ MpmcThreads : fresh[t] = Nodes

ThreadsNext ==
  \/ component = "intrusive" /\ Next /\ UNCHANGED <<component, mpmcVars, notifyVars, loopVars>>
  \/ component = "mpmc" /\ MpmcNext /\ UNCHANGED <<component, vars, notifyVars, loopVars>>
  \/ component = "notify" /\ NotifyNext /\ UNCHANGED <<component, vars, mpmcVars, loopVars>>
  \/ component = "loop" /\ LoopNext /\ UNCHANGED <<component, vars, mpmcVars, notifyVars>>

ThreadsSpec == ThreadsInit /\ [][ThreadsNext]_threadsVars

Symmetry == Permutations(MpmcThreads) \cup Permutations(Nodes)

(* push(), pop() and pop_all() of both stacks are atomic, although pop()    *)
(* reads links of nodes it does not own: AtomicOperations and MpmcAtomic,   *)
(* each for behaviours of its component.                                    *)
OperationsAtomic ==
  /\ Abstract!Init /\ MpmcAbstract!Init
  /\ [][/\ component = "intrusive" => UNCHANGED Abstract!vars \/ Abstract!Next
        /\ component = "mpmc" => UNCHANGED MpmcAbstract!vars \/ MpmcAbstract!Next]_threadsVars
=============================================================================
