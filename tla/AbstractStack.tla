--------------------------- MODULE AbstractStack ---------------------------
(***************************************************************************)
(* What the lock-free stacks of ase/atomics.hh promise: every push, pop    *)
(* and pop_all takes effect at one instant, on one sequence of nodes.      *)
(***************************************************************************)
EXTENDS Sequences, SequencesExt, Naturals

CONSTANTS Threads, Nodes,
          MaxChain      \* bound: nodes that are pushed at once

VARIABLES stack,        \* the nodes, most recently pushed first
          held,         \* per thread: the nodes its last pop returned
          was_empty     \* per thread: what its last push returned

vars == <<stack, held, was_empty>>
Chains == {s \in UNION {[1..n -> Nodes] : n \in 1..MaxChain} : IsInjective(s)}
Taken == Range(stack) \cup UNION {Range(held[t]) : t \in Threads}

Init ==
  /\ stack = <<>>
  /\ held = [t \in Threads |-> <<>>]
  /\ was_empty = [t \in Threads |-> FALSE]

\* The nodes of a pushed chain become the top of the stack, in one step.
Push(t, s) ==
  /\ Range(s) \cap Taken = {}
  /\ stack' = s \o stack
  /\ was_empty' = [was_empty EXCEPT ![t] = (stack = <<>>)]
  /\ UNCHANGED held

\* All nodes move to the calling thread, oldest first (pop_reversed).
PopAll(t) ==
  /\ held[t] = <<>> /\ stack # <<>>
  /\ held' = [held EXCEPT ![t] = Reverse(stack)]
  /\ stack' = <<>>
  /\ UNCHANGED was_empty

\* The top node moves to the calling thread.
Pop(t) ==
  /\ held[t] = <<>> /\ stack # <<>>
  /\ held' = [held EXCEPT ![t] = <<Head(stack)>>]
  /\ stack' = Tail(stack)
  /\ UNCHANGED was_empty

\* The thread is done with the nodes it popped, they may be pushed again.
Drop(t) ==
  /\ held[t] # <<>>
  /\ held' = [held EXCEPT ![t] = <<>>]
  /\ UNCHANGED <<stack, was_empty>>

Next == \E t \in Threads : PopAll(t) \/ Pop(t) \/ Drop(t) \/ \E s \in Chains : Push(t, s)
Spec == Init /\ [][Next]_vars
=============================================================================
