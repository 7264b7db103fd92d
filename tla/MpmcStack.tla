----------------------------- MODULE MpmcStack -----------------------------
(***************************************************************************)
(* MpmcStack and AtomicStack of ase/atomics.hh, one atomic access per      *)
(* step.  pop() reads intr_ptr_ of a node that another thread may have     *)
(* popped, deallocated and pushed again in the meantime; the aba_counter   *)
(* next to the head pointer is what makes its compare-and-exchange fail.   *)
(* AtomicStack takes its nodes from a grow-only allocator that may reuse   *)
(* the memory of free nodes, so a free node's link reads as anything.      *)
(***************************************************************************)
EXTENDS Naturals, FiniteSets, Sequences, SequencesExt

CONSTANTS MpmcThreads, MpmcNodes, MpmcNull,
          TAIL,         \* end of list, ~uintptr_t (0)
          MaxPops       \* bound: pops in total, keeps aba_counter finite
ASSUME PtrAssumption ==
  /\ MpmcNull \notin MpmcNodes /\ TAIL \notin MpmcNodes /\ MpmcNull # TAIL
  /\ IsFiniteSet(MpmcNodes) /\ MaxPops \in Nat

VARIABLES
  mhead,                \* head_: record of next and aba_counter
  intr_ptr,             \* intr_ptr_ of each node
  free,                 \* nodes that belong to the allocator
  mpc,                  \* per thread: place in push or pop
  ohead, nhead, node,   \* per thread: local variables of push and pop
  mpmc_empty            \* per thread: result of its last push
mpmcVars == <<mhead, intr_ptr, free, mpc, ohead, nhead, node, mpmc_empty>>

MpmcPtr == MpmcNodes \cup {MpmcNull, TAIL}
Head_ == [next : MpmcPtr, aba_counter : 0..MaxPops]
NoHead == [next |-> MpmcNull, aba_counter |-> 0]
MpmcListFrom(ptr) ==
  LET at[n \in 0..Cardinality(MpmcNodes)] ==
        IF n = 0 THEN ptr ELSE IF at[n-1] \in MpmcNodes THEN intr_ptr[at[n-1]] ELSE TAIL
      len == Cardinality({n \in 0..Cardinality(MpmcNodes) : at[n] \in MpmcNodes})
  IN [i \in 1..len |-> at[i-1]]

(* head_ never becomes null ("valid stack: head.next != nullptr"), and a    *)
(* thread pushes only nodes that the allocator gave to it.                  *)
MpmcTypeOK ==
  /\ mhead \in Head_ /\ mhead.next # MpmcNull
  /\ intr_ptr \in [MpmcNodes -> MpmcPtr] /\ free \in SUBSET MpmcNodes
  /\ mpc \in [MpmcThreads -> {"idle", "pushlink", "pushcas", "popread", "popcas", "unlist", "popped"}]
  /\ ohead \in [MpmcThreads -> Head_] /\ nhead \in [MpmcThreads -> Head_]
  /\ node \in [MpmcThreads -> MpmcNodes \cup {MpmcNull}]
  /\ mpmc_empty \in [MpmcThreads -> BOOLEAN]

MpmcInit ==
  /\ mhead = [next |-> TAIL, aba_counter |-> 0]
  /\ intr_ptr = [n \in MpmcNodes |-> MpmcNull]
  /\ free = MpmcNodes
  /\ mpc = [t \in MpmcThreads |-> "idle"]
  /\ ohead = [t \in MpmcThreads |-> NoHead] /\ nhead = [t \in MpmcThreads |-> NoHead]
  /\ node = [t \in MpmcThreads |-> MpmcNull]
  /\ mpmc_empty = [t \in MpmcThreads |-> FALSE]

-----------------------------------------------------------------------------
\* AtomicStack::push: allocate and construct a node, then load head_.
MpmcPush(t) ==
  \E n \in free :
    /\ mpc[t] = "idle"
    /\ free' = free \ {n}
    /\ intr_ptr' = [intr_ptr EXCEPT ![n] = MpmcNull]
    /\ node' = [node EXCEPT ![t] = n]
    /\ ohead' = [ohead EXCEPT ![t] = mhead]
    /\ mpc' = [mpc EXCEPT ![t] = "pushlink"]
    /\ UNCHANGED <<mhead, nhead, mpmc_empty>>

\* node->intr_ptr_ = ohead.next; no increment, ABA needs pop()
PushLink(t) ==
  /\ mpc[t] = "pushlink"
  /\ intr_ptr' = [intr_ptr EXCEPT ![node[t]] = ohead[t].next]
  /\ nhead' = [nhead EXCEPT ![t] = [next |-> node[t], aba_counter |-> ohead[t].aba_counter]]
  /\ mpc' = [mpc EXCEPT ![t] = "pushcas"]
  /\ UNCHANGED <<mhead, free, ohead, node, mpmc_empty>>

\* compare_exchange_weak: fails if head_ differs from ohead (or spuriously)
MpmcPushCas(t) ==
  /\ mpc[t] = "pushcas"
  /\ \/ /\ mhead = ohead[t]
        /\ mhead' = nhead[t]
        /\ mpmc_empty' = [mpmc_empty EXCEPT ![t] = (ohead[t].next = TAIL)]
        /\ mpc' = [mpc EXCEPT ![t] = "idle"]
        /\ node' = [node EXCEPT ![t] = MpmcNull]
        /\ ohead' = [ohead EXCEPT ![t] = NoHead] /\ nhead' = [nhead EXCEPT ![t] = NoHead]
     \/ /\ ohead' = [ohead EXCEPT ![t] = mhead]
        /\ mpc' = [mpc EXCEPT ![t] = "pushlink"]
        /\ UNCHANGED <<mhead, mpmc_empty, node, nhead>>
  /\ UNCHANGED <<intr_ptr, free>>

\* pop: load head_; an empty stack yields nullptr at once
MpmcPopLoad(t) ==
  /\ mpc[t] = "idle" /\ mhead.next # TAIL /\ mhead.aba_counter < MaxPops
  /\ ohead' = [ohead EXCEPT ![t] = mhead]
  /\ mpc' = [mpc EXCEPT ![t] = "popread"]
  /\ UNCHANGED <<mhead, intr_ptr, free, nhead, node, mpmc_empty>>

\* nhead.next = node->intr_ptr_, maybe an access after another thread's pop
NextAbaSame(t) == ohead[t].aba_counter                     \* mutant
NextAba(t) == ohead[t].aba_counter + 1
PopRead(t) ==
  /\ mpc[t] = "popread"
  /\ nhead' = [nhead EXCEPT ![t] = [next |-> intr_ptr[ohead[t].next], aba_counter |-> NextAba(t)]]
  /\ mpc' = [mpc EXCEPT ![t] = "popcas"]
  /\ UNCHANGED <<mhead, intr_ptr, free, ohead, node, mpmc_empty>>

SameHeadPtr(t) == mhead.next = ohead[t].next                \* mutant
SameHead(t) == mhead = ohead[t]
MpmcPopCas(t) ==
  /\ mpc[t] = "popcas"
  /\ \/ /\ SameHead(t)
        /\ mhead' = nhead[t]
        /\ node' = [node EXCEPT ![t] = ohead[t].next]
        /\ ohead' = [ohead EXCEPT ![t] = NoHead] /\ nhead' = [nhead EXCEPT ![t] = NoHead]
        /\ mpc' = [mpc EXCEPT ![t] = "unlist"]
     \/ /\ ohead' = [ohead EXCEPT ![t] = IF mhead.next = TAIL THEN NoHead ELSE mhead]
        /\ nhead' = [nhead EXCEPT ![t] = NoHead]
        /\ mpc' = [mpc EXCEPT ![t] = IF mhead.next = TAIL THEN "idle" ELSE "popread"]
        /\ mhead.aba_counter < MaxPops
        /\ UNCHANGED <<mhead, node>>
  /\ UNCHANGED <<intr_ptr, free, mpmc_empty>>

\* node->intr_ptr_ = nullptr: the node is unlisted, the caller reads its value
Unlist(t) ==
  /\ mpc[t] = "unlist"
  /\ intr_ptr' = [intr_ptr EXCEPT ![node[t]] = MpmcNull]
  /\ mpc' = [mpc EXCEPT ![t] = "popped"]
  /\ UNCHANGED <<mhead, free, ohead, nhead, node, mpmc_empty>>

\* AtomicStack::pop: the node goes back to the allocator, which may write to it
Dealloc(t) ==
  /\ mpc[t] = "popped"
  /\ free' = free \cup {node[t]}
  /\ \E garbage \in MpmcPtr : intr_ptr' = [intr_ptr EXCEPT ![node[t]] = garbage]
  /\ node' = [node EXCEPT ![t] = MpmcNull]
  /\ mpc' = [mpc EXCEPT ![t] = "idle"]
  /\ UNCHANGED <<mhead, ohead, nhead, mpmc_empty>>

MpmcNext ==
  \E t \in MpmcThreads :
    \/ MpmcPush(t) \/ PushLink(t) \/ MpmcPushCas(t)
    \/ MpmcPopLoad(t) \/ PopRead(t) \/ MpmcPopCas(t) \/ Unlist(t) \/ Dealloc(t)
MpmcSpec == MpmcInit /\ [][MpmcNext]_mpmcVars

-----------------------------------------------------------------------------
Popped(t) == IF mpc[t] \in {"unlist", "popped"} THEN <<node[t]>> ELSE <<>>
MpmcAbstract == INSTANCE AbstractStack
  WITH Threads <- MpmcThreads, Nodes <- MpmcNodes, MaxChain <- 1, was_empty <- mpmc_empty,
       stack <- MpmcListFrom(mhead.next), held <- [t \in MpmcThreads |-> Popped(t)]

(* push() and pop() are atomic although pop() reads the link of a node it   *)
(* does not own: whatever a stale read returned, the compare-and-exchange   *)
(* succeeds only if the list is still the one that was read, so no node is  *)
(* lost, duplicated or replaced by garbage, also when nodes are recycled.   *)
MpmcAtomic == MpmcAbstract!Spec

(* A node is listed, in the hands of one thread or free, never two of them: *)
(* the allocator never hands out a node that is still part of the stack.    *)
MpmcAccounted ==
  /\ MpmcTypeOK
  /\ \A n \in MpmcNodes :
       Cardinality({t \in MpmcThreads : node[t] = n})
       + (IF n \in Range(MpmcListFrom(mhead.next)) THEN 1 ELSE 0)
       + (IF n \in free THEN 1 ELSE 0) = 1
=============================================================================
