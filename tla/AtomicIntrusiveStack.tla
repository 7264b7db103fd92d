------------------------ MODULE AtomicIntrusiveStack ------------------------
(***************************************************************************)
(* AtomicIntrusiveStack of ase/atomics.hh, one atomic access per step: the *)
(* list behind async_jobs_, const_jobs_, trash_jobs_, user_notes_ and      *)
(* main_rt_jobs_.  Any thread may push a node or a chain of nodes and pop  *)
(* the whole list; nodes are deleted and recycled after they were popped.  *)
(***************************************************************************)
EXTENDS Naturals, FiniteSets, Sequences, SequencesExt

CONSTANTS Threads, Nodes, NULL
ASSUME NullAssumption == NULL \notin Nodes /\ IsFiniteSet(Nodes)

VARIABLES
  head,            \* head_
  next,            \* atomic_next_ptrref() of each node
  pc,              \* per thread: place in push_chain, pop_all or pop_reversed
  exchange,        \* local variable `exchange'
  first, last,     \* parameters of push_chain
  current, prev,   \* local variables of pop_reversed; prev is what it returns
  fresh,           \* per thread: nodes it has allocated and not pushed
  was_empty        \* per thread: result of its last push
vars == <<head, next, pc, exchange, first, last, current, prev, fresh, was_empty>>

Ptr == Nodes \cup {NULL}
\* The nodes linked from `ptr' on, in list order; a function over the number
\* of links followed, so that a cyclic list would show as a repeated node.
ListFrom(ptr) ==
  LET at[n \in 0..Cardinality(Nodes)] ==
        IF n = 0 THEN ptr ELSE IF at[n-1] = NULL THEN NULL ELSE next[at[n-1]]
      len == Cardinality({n \in 0..Cardinality(Nodes) : at[n] # NULL})
  IN [i \in 1..len |-> at[i-1]]

TypeOK ==
  /\ head \in Ptr /\ next \in [Nodes -> Ptr]
  /\ pc \in [Threads -> {"idle", "link", "pushcas", "popcas", "reverse"}]
  /\ exchange \in [Threads -> Ptr] /\ first \in [Threads -> Ptr] /\ last \in [Threads -> Ptr]
  /\ current \in [Threads -> Ptr] /\ prev \in [Threads -> Ptr]
  /\ fresh \in [Threads -> SUBSET Nodes]
  /\ was_empty \in [Threads -> BOOLEAN]
  /\ \A t \in Threads : pc[t] = "reverse" => current[t] # NULL

Init ==
  /\ head = NULL
  /\ next = [n \in Nodes |-> NULL]
  /\ pc = [t \in Threads |-> "idle"]
  /\ exchange = [t \in Threads |-> NULL]
  /\ first = [t \in Threads |-> NULL] /\ last = [t \in Threads |-> NULL]
  /\ current = [t \in Threads |-> NULL] /\ prev = [t \in Threads |-> NULL]
  /\ fresh \in {f \in [Threads -> SUBSET Nodes] :
                  /\ UNION {f[t] : t \in Threads} = Nodes
                  /\ \A t, u \in Threads : t # u => f[t] \cap f[u] = {}}
  /\ was_empty = [t \in Threads |-> FALSE]

-----------------------------------------------------------------------------
\* push_chain: load head_ and enter the compare-and-exchange loop.  The code
\* refuses a chain whose end is linked.
StartPush(t, f, l) ==
  /\ pc[t] = "idle" /\ next[l] = NULL
  /\ pc' = [pc EXCEPT ![t] = "link"]
  /\ exchange' = [exchange EXCEPT ![t] = head]
  /\ first' = [first EXCEPT ![t] = f] /\ last' = [last EXCEPT ![t] = l]
  /\ UNCHANGED <<head, next, current, was_empty>>

\* push (el)
Push(t) ==
  \E el \in fresh[t] :
    /\ StartPush(t, el, el)
    /\ fresh' = [fresh EXCEPT ![t] = @ \ {el}]
    /\ UNCHANGED prev

\* push_chain of a list that was popped before, as process_jobs does
PushPopped(t) ==
  /\ prev[t] # NULL
  /\ StartPush(t, prev[t], Last(ListFrom(prev[t])))
  /\ prev' = [prev EXCEPT ![t] = NULL]
  /\ UNCHANGED fresh

\* last_nextptr = exchange
Link(t) ==
  /\ pc[t] = "link"
  /\ next' = [next EXCEPT ![last[t]] = exchange[t]]
  /\ pc' = [pc EXCEPT ![t] = "pushcas"]
  /\ UNCHANGED <<head, exchange, first, last, current, prev, fresh, was_empty>>

\* compare_exchange_strong() stores the value it found if it fails
PushCas(t) ==
  /\ pc[t] = "pushcas"
  /\ IF head = exchange[t]
       THEN /\ head' = first[t]
            /\ was_empty' = [was_empty EXCEPT ![t] = (exchange[t] = NULL)]
            /\ pc' = [pc EXCEPT ![t] = "idle"]
            /\ exchange' = [exchange EXCEPT ![t] = NULL]
            /\ first' = [first EXCEPT ![t] = NULL] /\ last' = [last EXCEPT ![t] = NULL]
       ELSE /\ exchange' = [exchange EXCEPT ![t] = head]
            /\ pc' = [pc EXCEPT ![t] = "link"]
            /\ UNCHANGED <<head, was_empty, first, last>>
  /\ UNCHANGED <<next, current, prev, fresh>>

\* pop_reversed calls pop_all: load head_, done if the list is empty
PopLoad(t) ==
  /\ pc[t] = "idle" /\ prev[t] = NULL /\ head # NULL
  /\ exchange' = [exchange EXCEPT ![t] = head]
  /\ pc' = [pc EXCEPT ![t] = "popcas"]
  /\ UNCHANGED <<head, next, first, last, current, prev, fresh, was_empty>>

\* exchange && !compare_exchange_strong (exchange, nullptr)
PopCas(t) ==
  /\ pc[t] = "popcas"
  /\ IF head = exchange[t]
       THEN /\ head' = NULL
            /\ current' = [current EXCEPT ![t] = exchange[t]]
            /\ exchange' = [exchange EXCEPT ![t] = NULL]
            /\ pc' = [pc EXCEPT ![t] = "reverse"]
       ELSE /\ exchange' = [exchange EXCEPT ![t] = head]
            /\ pc' = [pc EXCEPT ![t] = IF head = NULL THEN "idle" ELSE "popcas"]
            /\ UNCHANGED <<head, current>>
  /\ UNCHANGED <<next, first, last, prev, fresh, was_empty>>

\* One turn of the loop in pop_reversed.
ReversingLateLoad(t) ==                                    \* mutant
  /\ pc[t] = "reverse"
  /\ next' = [next EXCEPT ![current[t]] = prev[t]]
  /\ prev' = [prev EXCEPT ![t] = current[t]]
  /\ current' = [current EXCEPT ![t] = next'[current[t]]]
  /\ pc' = [pc EXCEPT ![t] = IF current'[t] = NULL THEN "idle" ELSE "reverse"]
  /\ UNCHANGED <<head, exchange, first, last, fresh, was_empty>>
Reversing(t) ==
  /\ pc[t] = "reverse"
  /\ next' = [next EXCEPT ![current[t]] = prev[t]]
  /\ prev' = [prev EXCEPT ![t] = current[t]]
  /\ current' = [current EXCEPT ![t] = next[current[t]]]
  /\ pc' = [pc EXCEPT ![t] = IF current'[t] = NULL THEN "idle" ELSE "reverse"]
  /\ UNCHANGED <<head, exchange, first, last, fresh, was_empty>>

\* The popped nodes are deleted; their memory may be allocated and pushed by
\* any thread `u' again, with next = nullptr.
Recycle(t, u) ==
  /\ pc[t] = "idle" /\ prev[t] # NULL
  /\ LET nodes == Range(ListFrom(prev[t]))
     IN /\ fresh' = [fresh EXCEPT ![u] = @ \cup nodes]
        /\ next' = [n \in Nodes |-> IF n \in nodes THEN NULL ELSE next[n]]
  /\ prev' = [prev EXCEPT ![t] = NULL]
  /\ UNCHANGED <<head, pc, exchange, first, last, current, was_empty>>

ThreadStep(t) == Link(t) \/ PushCas(t) \/ PopCas(t) \/ Reversing(t)
Next ==
  \E t \in Threads :
    \/ ThreadStep(t) \/ Push(t) \/ PushPopped(t) \/ PopLoad(t)
    \/ \E u \in Threads : Recycle(t, u)
Spec == Init /\ [][Next]_vars

-----------------------------------------------------------------------------
Held(t) == Reverse(ListFrom(current[t])) \o ListFrom(prev[t])
Abstract == INSTANCE AbstractStack
              WITH MaxChain <- Cardinality(Nodes), stack <- ListFrom(head),
                   held <- [t \in Threads |-> Held(t)]

(* Pushes and pops of the lock-free list are atomic: whatever the order of  *)
(* loads, link stores and compare-and-exchanges of several threads, and     *)
(* although nodes are recycled (so that head_ may return to an old value    *)
(* between load and exchange), each operation takes effect at its           *)
(* compare-and-exchange, was_empty is exact at that instant, pop_reversed   *)
(* returns the nodes in push order, and no node is lost or seen twice.      *)
AtomicOperations == Abstract!Spec

(* Every node is in exactly one place: the list, one thread's unfinished    *)
(* push, one thread's popped list or the allocator.  A node in two places   *)
(* would be executed or deleted twice, one in no place is leaked.  Links    *)
(* point to nodes, and a list that is being reversed is not empty.          *)
NodesAccounted ==
  /\ TypeOK
  /\ LET Pushing(t) == IF pc[t] \in {"link", "pushcas"}
                         THEN LET l == ListFrom(first[t])
                              IN {l[i] : i \in {k \in DOMAIN l : \A m \in 1..k-1 : l[m] # last[t]}}
                         ELSE {}
     IN \A n \in Nodes :
          Cardinality({t \in Threads : n \in fresh[t]})
          + Cardinality({t \in Threads : n \in Pushing(t)})
          + Cardinality({t \in Threads : n \in Range(Held(t))})
          + (IF n \in Range(ListFrom(head)) THEN 1 ELSE 0) = 1
=============================================================================
