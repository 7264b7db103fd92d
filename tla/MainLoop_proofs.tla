--------------------------- MODULE MainLoop_proofs ---------------------------
(***************************************************************************)
(* Theorems about MainLoop for any number of sources and loops and any     *)
(* priorities.                                                             *)
(***************************************************************************)
EXTENDS MainLoop, NatLemmas, TLAPS

-----------------------------------------------------------------------------
(* Kept, the filter that collect_sources_Lm applies                         *)

LEMMA RangeAppend ==
  ASSUME NEW X, NEW s \in Seq(X), NEW e \in X
  PROVE  Append(s, e) \in Seq(X) /\ Range(Append(s, e)) = Range(s) \cup {e}
<1> DEFINE a == Append(s, e)
           n == Len(s)
<1>1. a \in Seq(X) /\ n \in Nat /\ DOMAIN s = 1..n /\ DOMAIN a = 1..(n + 1)
      /\ a[n + 1] = e /\ \A i \in 1..n : a[i] = s[i]
  OBVIOUS
<1> HIDE DEF a, n
<1>2. ASSUME NEW x \in Range(a) PROVE x \in Range(s) \cup {e}
  BY <1>1 DEF Range
<1>3. ASSUME NEW x \in Range(s) \cup {e} PROVE x \in Range(a)
  BY <1>1 DEF Range
<1>4. Range(a) = Range(s) \cup {e}
  BY <1>2, <1>3
<1> QED
  BY <1>1, <1>4 DEF a

\* The equations of the function in Kept, for its values up to n.
Filters(f, s, S, n) ==
  /\ f[0] = <<>>
  /\ \A i \in 1..n : f[i] = IF s[i] \in S THEN Append(f[i-1], s[i]) ELSE f[i-1]

LEMMA FilterExists ==
  ASSUME NEW X, NEW s \in Seq(X), NEW S
  PROVE  \A n \in 0..Len(s) : \E f \in [0..n -> Seq(X)] : Filters(f, s, S, n)
<1> DEFINE T == {k \in 0..Len(s) : ~\E f \in [0..k -> Seq(X)] : Filters(f, s, S, k)}
<1> SUFFICES ASSUME T # {} PROVE FALSE
  OBVIOUS
<1>1. Len(s) \in Nat /\ \A i \in 1..Len(s) : s[i] \in X
  OBVIOUS
<1>2. T \subseteq Nat
  BY <1>1
<1>3. PICK k \in T : \A m \in T : k <= m
  BY <1>2, LeastNat
<1>4. k \in 0..Len(s) /\ k \in Nat /\ k <= Len(s) /\ ~\E f \in [0..k -> Seq(X)] : Filters(f, s, S, k)
  BY <1>1
<1>5. CASE k = 0
  <2> DEFINE f == [i \in 0..0 |-> <<>>]
  <2>1. f \in [0..k -> Seq(X)]
    BY <1>5
  <2>2. Filters(f, s, S, k)
    BY <1>5 DEF Filters
  <2> QED
    BY <1>4, <2>1, <2>2
<1>6. CASE k # 0
  <2>1. k - 1 \in 0..Len(s) /\ ~ (k <= k - 1)
    BY <1>1, <1>4, <1>6
  <2>2. k - 1 \notin T
    BY <1>3, <2>1
  <2>3. PICK f \in [0..k-1 -> Seq(X)] : Filters(f, s, S, k - 1)
    BY <2>1, <2>2
  <2>4. k \in 1..Len(s) /\ s[k] \in X /\ k - 1 \in 0..k-1 /\ f[k-1] \in Seq(X)
    BY <1>1, <1>4, <1>6, <2>1
  <2> DEFINE last == IF s[k] \in S THEN Append(f[k-1], s[k]) ELSE f[k-1]
             g == [i \in 0..k |-> IF i < k THEN f[i] ELSE last]
  <2>5. last \in Seq(X)
    BY <2>4
  <2> HIDE DEF T, last
  <2>6. g \in [0..k -> Seq(X)]
    <3> SUFFICES ASSUME NEW i \in 0..k PROVE (IF i < k THEN f[i] ELSE last) \in Seq(X)
      OBVIOUS
    <3>1. CASE i < k
      <4>1. i \in 0..k-1
        BY <1>4, <3>1
      <4> QED
        BY <3>1, <4>1
    <3>2. CASE ~ (i < k)
      BY <2>5, <3>2
    <3> QED
      BY <3>1, <3>2
  <2>7. g[k] = last /\ \A i \in 0..k-1 : g[i] = f[i]
    <3>1. k \in 0..k /\ ~ (k < k) /\ \A i \in 0..k-1 : i \in 0..k /\ i < k
      BY <1>4
    <3> QED
      BY <3>1
  <2> HIDE DEF g
  <2>8. g[0] = <<>>
    BY <1>4, <1>6, <2>3, <2>7 DEF Filters
  <2>9. ASSUME NEW i \in 1..k-1 PROVE g[i] = IF s[i] \in S THEN Append(g[i-1], s[i]) ELSE g[i-1]
    <3>1. i \in 0..k-1 /\ i - 1 \in 0..k-1
      BY <1>4
    <3>2. g[i] = f[i] /\ g[i-1] = f[i-1]
      BY <2>7, <3>1
    <3> QED
      BY <2>3, <3>2 DEF Filters
  <2>10. g[k] = IF s[k] \in S THEN Append(g[k-1], s[k]) ELSE g[k-1]
    BY <2>4, <2>7 DEF last
  <2>11. \A i \in 1..k : i \in 1..k-1 \/ i = k
    BY <1>4
  <2>12. Filters(g, s, S, k)
    BY <2>8, <2>9, <2>10, <2>11, Zenon DEF Filters
  <2> QED
    BY <1>4, <2>6, <2>12
<1> QED
  BY <1>5, <1>6

Firsts(s, k) == {s[i] : i \in 1..k}

LEMMA FilterRange ==
  ASSUME NEW X, NEW s \in Seq(X), NEW S, NEW f, Filters(f, s, S, Len(s))
  PROVE  \A k \in 0..Len(s) : f[k] \in Seq(X) /\ Range(f[k]) = Firsts(s, k) \cap S
<1> DEFINE Correct(k) == f[k] \in Seq(X) /\ Range(f[k]) = Firsts(s, k) \cap S
           T == {k \in 0..Len(s) : ~Correct(k)}
<1> SUFFICES ASSUME T # {} PROVE FALSE
  OBVIOUS
<1>1. Len(s) \in Nat /\ \A i \in 1..Len(s) : s[i] \in X
  OBVIOUS
<1>2. T \subseteq Nat
  BY <1>1
<1>3. PICK k \in T : \A m \in T : k <= m
  BY <1>2, LeastNat
<1>4. k \in 0..Len(s) /\ k \in Nat /\ k <= Len(s) /\ ~Correct(k)
  BY <1>1
<1>5. CASE k = 0
  <2>1. f[0] = <<>>
    BY DEF Filters
  <2>2. Range(<<>>) = {} /\ <<>> \in Seq(X) /\ Firsts(s, 0) = {}
    BY DEF Range, Firsts
  <2> QED
    BY <1>4, <1>5, <2>1, <2>2
<1>6. CASE k # 0
  <2>1. k - 1 \in 0..Len(s) /\ ~ (k <= k - 1) /\ k \in 1..Len(s)
    BY <1>1, <1>4, <1>6
  <2>2. Correct(k - 1)
    BY <1>3, <2>1
  <2>3. f[k] = IF s[k] \in S THEN Append(f[k-1], s[k]) ELSE f[k-1]
    BY <2>1 DEF Filters
  <2>4. Firsts(s, k) = Firsts(s, k - 1) \cup {s[k]}
    <3>1. \A i \in 1..k : i \in 1..k-1 \/ i = k
      BY <1>4
    <3>2. k \in 1..k /\ \A i \in 1..k-1 : i \in 1..k
      BY <1>4, <1>6
    <3> QED
      BY <3>1, <3>2 DEF Firsts
  <2>5. CASE s[k] \in S
    <3>1. f[k] = Append(f[k-1], s[k]) /\ s[k] \in X /\ f[k-1] \in Seq(X)
      BY <1>1, <2>1, <2>2, <2>3, <2>5
    <3>2. f[k] \in Seq(X) /\ Range(f[k]) = Range(f[k-1]) \cup {s[k]}
      BY <3>1, RangeAppend
    <3> QED
      BY <1>4, <2>2, <2>4, <2>5, <3>2
  <2>6. CASE s[k] \notin S
    BY <1>4, <2>2, <2>3, <2>4, <2>6
  <2> QED
    BY <2>5, <2>6
<1> QED
  BY <1>5, <1>6

LEMMA KeptRange ==
  ASSUME NEW X, NEW s \in Seq(X), NEW S
  PROVE  Kept(s, S) \in Seq(X) /\ Range(Kept(s, S)) = Range(s) \cap S
<1> DEFINE Body(f, n) == IF n = 0 THEN <<>> ELSE IF s[n] \in S THEN Append(f[n-1], s[n]) ELSE f[n-1]
           kept == CHOOSE f : f = [n \in 0..Len(s) |-> Body(f, n)]
<1>1. Len(s) \in Nat /\ Len(s) \in 0..Len(s)
  OBVIOUS
<1>2. PICK f \in [0..Len(s) -> Seq(X)] : Filters(f, s, S, Len(s))
  BY <1>1, FilterExists
<1>3. ASSUME NEW n \in 0..Len(s) PROVE f[n] = Body(f, n)
  <2>1. n = 0 \/ n \in 1..Len(s)
    BY <1>1
  <2> QED
    BY <1>2, <2>1 DEF Filters
<1> HIDE DEF Body
<1>4. f = [n \in 0..Len(s) |-> Body(f, n)]
  BY <1>3
<1>5. kept = [n \in 0..Len(s) |-> Body(kept, n)]
  BY <1>4, Zenon
<1>6. Kept(s, S) = kept[Len(s)]
  BY Zenon DEF Kept, Body
<1> HIDE DEF kept
<1>7. \A n \in 0..Len(s) : kept[n] = Body(kept, n)
  BY <1>5
<1>8. Filters(kept, s, S, Len(s))
  <2>1. 0 \in 0..Len(s) /\ \A i \in 1..Len(s) : i \in 0..Len(s) /\ i # 0
    BY <1>1
  <2> QED
    BY <1>7, <2>1 DEF Filters, Body
<1>9. Firsts(s, Len(s)) = Range(s)
  BY DEF Range, Firsts
<1>10. \A k \in 0..Len(s) : kept[k] \in Seq(X) /\ Range(kept[k]) = Firsts(s, k) \cap S
  BY <1>8, FilterRange
<1> QED
  BY <1>1, <1>6, <1>9, <1>10

-----------------------------------------------------------------------------
(* The inductive invariant                                                  *)

(* Whether a loop will be dispatchable: loops up to the present one were    *)
(* prepared, the others will be.                                            *)
WillDispatch ==
  \E l \in Loops : IF l < loop THEN dispatchable[l] ELSE dispatch_priority[l] > UNDEFINED_PRIORITY
\* prepare() of the source is still to be called.
Unprepared(s) ==
  \E l \in Loops : \E i \in DOMAIN poll_sources[l] :
    poll_sources[l][i] = s /\ (l > loop \/ (l = loop /\ i >= pos))
Woken(s) == eventfd \/ s \in waking
\* A source that may have to end poll().
Watched(s) == life[s] = "member" /\ (ready[s] \/ s \in Fds)

\* Callbacks are about a source of the present loop.
PlaceInv ==
  /\ pos # 0
  /\ loop_pc \in {"prepared", "checked", "dispatch"} => pos \in DOMAIN poll_sources[loop]
ListInv ==
  /\ \A l \in Loops : \A s \in Range(sources[l]) \cup Range(poll_sources[l]) : LoopOf[s] = l
  /\ \A s \in Sources : life[s] = "member" => s \in Range(sources[LoopOf[s]])
\* A source that needs dispatching raises the priority of its loop.
RaisedInv ==
  loop_pc \in {"prepare", "prepared", "poll", "polled", "check", "checked", "pick"} =>
    \A l \in Loops : \A s \in Range(poll_sources[l]) :
      loop_state[s] = "NEEDS_DISPATCH" => Priority[s] <= dispatch_priority[l]
\* An event between prepare() and its verdict comes with a wakeup.
VerdictInv ==
  loop_pc = "prepared" =>
    IF Source \in Fds THEN ~verdict ELSE ready[Source] => verdict \/ Woken(Source)
\* What can be said for each source that must not be missed by poll().
PrepareInv ==
  loop_pc \in {"prepare", "prepared"} =>
    \A s \in Sources : Watched(s) => Woken(s) \/ WillDispatch \/ Unprepared(s) \/ s \in Polled
PollInv ==
  loop_pc = "poll" =>
    \A s \in Sources : Watched(s) => Woken(s) \/ AnyDispatchable \/ s \in Polled
LoopInv == LoopTypeOK /\ PlaceInv /\ ListInv /\ RaisedInv /\ VerdictInv /\ PrepareInv /\ PollInv

LEMMA LoopCases ==
  ASSUME [LoopNext]_loopVars
  PROVE  \/ Start \/ Collect \/ Skip("prepare") \/ Skip("check") \/ PrepareCall \/ PrepareDone
         \/ LoopDone("prepare", "poll") \/ LoopDone("check", "pick")
         \/ Poll \/ PollTimeout \/ Flush \/ CheckCall \/ CheckDone \/ PickNone
         \/ \E n \in 0..NLoops-1 : Pick(n)
         \/ \E keep_alive \in BOOLEAN : DispatchDone(keep_alive)
         \/ Cleanup \/ Quit
         \/ \E s \in Sources : Add(s) \/ TryRemove(s) \/ Trigger(s) \/ Wakeup(s)
         \/ UNCHANGED loopVars
  BY Zenon DEF LoopNext, LoopStep

LEMMA TopPriorityMaximum ==
  ASSUME NEW S, S \subseteq Sources
  PROVE  /\ TopPriority(S) \in 0..999
         /\ \A s \in S : Priority[s] <= TopPriority(S) /\ Priority[s] \in 1..999
         /\ S # {} => \E s \in S : Priority[s] = TopPriority(S)
<1>1. \A s \in S : Priority[s] \in 1..999
  BY MainLoopAssumption
<1>2. CASE S = {}
  BY <1>2 DEF TopPriority, UNDEFINED_PRIORITY
<1>3. CASE S # {}
  <2> DEFINE P == {Priority[s] : s \in S}
  <2>a. P # {} /\ (\A s \in S : Priority[s] \in P) /\ \A p \in P : \E s \in S : p = Priority[s]
    BY <1>3
  <2>b. TopPriority(S) = CHOOSE p \in P : \A s \in S : Priority[s] <= p
    BY <1>3 DEF TopPriority
  <2> HIDE DEF P
  <2>1. ASSUME NEW p \in P PROVE p \in Nat /\ p <= 999
    <3>1. PICK s \in S : p = Priority[s]
      BY <2>a
    <3> QED
      BY <1>1, <3>1
  <2>2. \E n \in P : \A m \in P : m <= n
    <3> DEFINE b == 999
    <3>1. P \subseteq Nat /\ P # {} /\ b \in Nat /\ \A p \in P : p <= b
      BY <2>1, <2>a
    <3> HIDE DEF b
    <3> QED
      BY <3>1, GreatestNat
  <2>3. \E p \in P : \A s \in S : Priority[s] <= p
    BY <2>2, <2>a
  <2>4. TopPriority(S) \in P /\ \A s \in S : Priority[s] <= TopPriority(S)
    BY <2>3, <2>b
  <2> QED
    BY <1>1, <2>4, <2>a
<1> QED
  BY <1>2, <1>3

LEMMA LoopInitInv == LoopInit => LoopInv
<1> SUFFICES ASSUME LoopInit PROVE LoopInv
  OBVIOUS
<1> USE DEF LoopInit
<1>1. ASSUME NEW l \in Loops
      PROVE  /\ sources[l] \in Seq(Sources) /\ poll_sources[l] \in Seq(Sources)
             /\ Range(sources[l]) = Range(Initial) \cap {s \in Sources : LoopOf[s] = l}
             /\ Range(poll_sources[l]) = {}
  <2>1. /\ sources[l] = Kept(Initial, {s \in Sources : LoopOf[s] = l}) /\ poll_sources[l] = <<>>
        /\ Initial \in Seq(Sources)
    BY MainLoopAssumption
  <2>2. Range(<<>>) = {}
    BY DEF Range
  <2> QED
    BY <2>1, <2>2, KeptRange
<1>2. LoopTypeOK
  <2>1. sources \in [Loops -> Seq(Sources)] /\ poll_sources \in [Loops -> Seq(Sources)]
    BY <1>1
  <2>2. /\ life \in [Sources -> {"new", "member", "removed"}]
        /\ loop_state \in [Sources -> {"WAITING", "PREPARED", "NEEDS_DISPATCH"}]
        /\ ready \in [Sources -> BOOLEAN] /\ revents \in [Sources -> BOOLEAN] /\ waking \subseteq Sources
    OBVIOUS
  <2>3. dispatch_priority \in [Loops -> 0..999] /\ dispatchable \in [Loops -> BOOLEAN]
    BY DEF UNDEFINED_PRIORITY
  <2>4. rr_index \in 0..NLoops-1 /\ loop \in Loops /\ pos \in Nat
    BY MainLoopAssumption DEF Loops
  <2> QED
    BY <2>1, <2>2, <2>3, <2>4 DEF LoopTypeOK, Phases
<1>3. ListInv
  <2>1. \A s \in Sources : life[s] = "member" => s \in Range(Initial)
    OBVIOUS
  <2>2. \A s \in Sources : LoopOf[s] \in Loops
    BY MainLoopAssumption DEF Loops
  <2>3. ASSUME NEW l \in Loops, NEW s \in Range(sources[l]) \cup Range(poll_sources[l])
        PROVE  LoopOf[s] = l
    <3>1. s \in Range(Initial) \cap {x \in Sources : LoopOf[x] = l}
      BY <1>1
    <3> QED
      BY <3>1
  <2>4. ASSUME NEW s \in Sources, life[s] = "member" PROVE s \in Range(sources[LoopOf[s]])
    <3>1. Range(sources[LoopOf[s]]) = Range(Initial) \cap {x \in Sources : LoopOf[x] = LoopOf[s]}
      BY <1>1, <2>2
    <3> QED
      BY <3>1, <2>1, <2>4
  <2> QED
    BY <2>3, <2>4 DEF ListInv
<1> QED
  BY <1>2, <1>3 DEF LoopInv, PlaceInv, RaisedInv, VerdictInv, PrepareInv, PollInv

LEMMA WithoutRange ==
  ASSUME LoopTypeOK, NEW s \in Sources
  PROVE  /\ Without(s) \in [Loops -> Seq(Sources)]
         /\ \A l \in Loops : Range(Without(s)[l]) \subseteq Range(sources[l])
         /\ \A x \in Sources : x # s /\ x \in Range(sources[LoopOf[x]]) => x \in Range(Without(s)[LoopOf[x]])
<1>1. sources \in [Loops -> Seq(Sources)] /\ \A x \in Sources : LoopOf[x] \in Loops
  BY MainLoopAssumption DEF LoopTypeOK, Loops
<1> DEFINE k == Kept(sources[LoopOf[s]], Sources \ {s})
<1>2. k \in Seq(Sources) /\ Range(k) = Range(sources[LoopOf[s]]) \cap (Sources \ {s})
  BY <1>1, KeptRange
<1> HIDE DEF k
<1>3. Without(s) = [sources EXCEPT ![LoopOf[s]] = k]
  BY DEF Without, k
<1> QED
  BY <1>1, <1>2, <1>3

LEMMA AddRange ==
  ASSUME LoopTypeOK, NEW s \in Sources, sources' = [sources EXCEPT ![LoopOf[s]] = Append(@, s)]
  PROVE  /\ sources' \in [Loops -> Seq(Sources)] /\ s \in Range(sources'[LoopOf[s]])
         /\ \A l \in Loops : Range(sources[l]) \subseteq Range(sources'[l])
         /\ \A l \in Loops : \A x \in Range(sources'[l]) : x \in Range(sources[l]) \/ (x = s /\ l = LoopOf[s])
<1>1. sources \in [Loops -> Seq(Sources)] /\ \A x \in Sources : LoopOf[x] \in Loops
  BY MainLoopAssumption DEF LoopTypeOK, Loops
<1> DEFINE k == Append(sources[LoopOf[s]], s)
<1>2. k \in Seq(Sources) /\ Range(k) = Range(sources[LoopOf[s]]) \cup {s}
  BY <1>1, RangeAppend
<1> HIDE DEF k
<1>3. sources' = [sources EXCEPT ![LoopOf[s]] = k]
  BY DEF k
<1> QED
  BY <1>1, <1>2, <1>3

\* What collect_sources_Lm leaves in poll_sources_ and dispatch_priority_.
LEMMA CollectFacts ==
  ASSUME LoopTypeOK, Collect, NEW l \in Loops
  PROVE  /\ poll_sources'[l] \in Seq(Sources) /\ dispatch_priority'[l] = TopPriority(Remaining(l))
         /\ dispatch_priority'[l] \in 0..999
         /\ Range(poll_sources'[l]) = {s \in Range(sources[l]) : Collected(l, s)}
         /\ \A s \in Remaining(l) : Priority[s] <= dispatch_priority'[l]
         /\ \A s \in Range(sources[l]) : Collected(l, s) \/ dispatch_priority'[l] > 0
<1>1. /\ poll_sources'[l] = Kept(sources[l], {s \in Range(sources[l]) : Collected(l, s)})
      /\ dispatch_priority'[l] = TopPriority(Remaining(l))
  BY DEF Collect
<1>2. sources[l] \in Seq(Sources)
  BY DEF LoopTypeOK
<1>3. Range(sources[l]) \subseteq Sources /\ Remaining(l) \subseteq Sources
  BY <1>2 DEF Range, Remaining
<1>4. poll_sources'[l] \in Seq(Sources)
      /\ Range(poll_sources'[l]) = Range(sources[l]) \cap {s \in Range(sources[l]) : Collected(l, s)}
  BY <1>1, <1>2, KeptRange
<1>5. /\ TopPriority(Remaining(l)) \in 0..999
      /\ \A s \in Remaining(l) : Priority[s] <= TopPriority(Remaining(l))
  BY <1>3, TopPriorityMaximum
<1>6. \A s \in Range(sources[l]) : Collected(l, s) \/ TopPriority(Remaining(l)) > 0
  <2> SUFFICES ASSUME NEW s \in Range(sources[l]), ~Collected(l, s) PROVE TopPriority(Remaining(l)) > 0
    OBVIOUS
  <2>1. Priority[s] \in 1..999
    BY <1>3, MainLoopAssumption
  <2>2. ~ (Priority[s] > TopPriority(Remaining(l)))
    BY DEF Collected
  <2> QED
    BY <1>5, <2>1, <2>2
<1> QED
  BY <1>1, <1>4, <1>5, <1>6

\* The source that the loop thread is at.
LEMMA SourceFacts ==
  ASSUME LoopTypeOK, PlaceInv
  PROVE  /\ AtSource => pos \in DOMAIN poll_sources[loop]
         /\ pos \in DOMAIN poll_sources[loop] => Source \in Sources /\ Source \in Range(poll_sources[loop])
<1>1. poll_sources[loop] \in Seq(Sources) /\ pos \in Nat /\ pos # 0
  BY DEF LoopTypeOK, PlaceInv
<1> QED
  BY <1>1 DEF AtSource, Source, Range

\* Nth visits loops only.
LEMMA NthLoop ==
  ASSUME LoopTypeOK, NEW n \in 0..NLoops-1
  PROVE  Nth(n) \in Loops /\ (rr_index + n + 1) % NLoops \in 0..NLoops-1
<1>1. NLoops \in Nat /\ NLoops > 0 /\ rr_index \in 0..NLoops-1
  BY MainLoopAssumption DEF LoopTypeOK
<1> QED
  BY <1>1 DEF Nth, Loops

\* LoopTypeOK in four parts, each for the variables that change together.
ListsType ==
  /\ sources \in [Loops -> Seq(Sources)] /\ life \in [Sources -> {"new", "member", "removed"}]
  /\ loop_state \in [Sources -> {"WAITING", "PREPARED", "NEEDS_DISPATCH"}]
CycleType ==
  /\ poll_sources \in [Loops -> Seq(Sources)] /\ dispatch_priority \in [Loops -> 0..999]
  /\ dispatchable \in [Loops -> BOOLEAN] /\ rr_index \in 0..NLoops-1
PlaceType == loop_pc \in Phases /\ loop \in Loops /\ pos \in Nat /\ verdict \in BOOLEAN
EventsType ==
  /\ running \in BOOLEAN /\ has_quit \in BOOLEAN /\ eventfd \in BOOLEAN
  /\ ready \in [Sources -> BOOLEAN] /\ revents \in [Sources -> BOOLEAN] /\ waking \subseteq Sources

LEMMA TypeParts ==
  /\ LoopTypeOK <=> ListsType /\ CycleType /\ PlaceType /\ EventsType
  /\ LoopTypeOK' <=> ListsType' /\ CycleType' /\ PlaceType' /\ EventsType'
  BY Zenon DEF LoopTypeOK, ListsType, CycleType, PlaceType, EventsType

LEMMA TypeKept ==
  /\ ListsType /\ UNCHANGED lists => ListsType'
  /\ CycleType /\ UNCHANGED cycle => CycleType'
  /\ EventsType /\ UNCHANGED <<quits, events>> => EventsType'
<1>1. ListsType /\ UNCHANGED lists => ListsType'
  BY DEF ListsType, lists
<1>2. CycleType /\ UNCHANGED cycle => CycleType'
  <2> SUFFICES ASSUME CycleType, UNCHANGED cycle PROVE CycleType'
    OBVIOUS
  <2>1. UNCHANGED poll_sources /\ UNCHANGED dispatch_priority /\ UNCHANGED dispatchable /\ UNCHANGED rr_index
    BY DEF cycle
  <2>2. rr_index' \in 0..NLoops-1
    BY <2>1, Zenon DEF CycleType
  <2> QED
    BY <2>1, <2>2 DEF CycleType
<1>3. EventsType /\ UNCHANGED <<quits, events>> => EventsType'
  BY DEF EventsType, quits, events
<1> QED
  BY <1>1, <1>2, <1>3

\* Type correctness, and callbacks are about a source of the present loop.
LEMMA NextType == LoopTypeOK /\ PlaceInv /\ [LoopNext]_loopVars => LoopTypeOK' /\ PlaceInv'
<1>d. SUFFICES ASSUME LoopTypeOK, PlaceInv PROVE [LoopNext]_loopVars => LoopTypeOK' /\ PlaceInv'
  OBVIOUS
<1> DEFINE Good == ListsType' /\ CycleType' /\ PlaceType' /\ EventsType' /\ PlaceInv'
<1>a. (AtSource => pos \in DOMAIN poll_sources[loop]) /\ (AtSource => Source \in Sources)
      /\ (loop_pc \in {"prepared", "checked", "dispatch"} => Source \in Sources)
  BY <1>d, SourceFacts DEF PlaceInv
<1>b. 1 \in Loops /\ NLoops \in Nat /\ \A s \in Sources : Priority[s] \in 0..999
  <2>1. NLoops \in Nat /\ NLoops > 0
    BY MainLoopAssumption
  <2>2. \A s \in Sources : Priority[s] \in 1..999
    BY MainLoopAssumption
  <2> QED
    BY <2>1, <2>2 DEF Loops
<1>c. ListsType /\ CycleType /\ PlaceType /\ EventsType
  BY <1>d, TypeParts
<1>1. ASSUME Start PROVE Good
  <2>1. ListsType' /\ CycleType' /\ EventsType'
    BY <1>1, <1>c, TypeKept DEF Start, EventsType, quits, events
  <2> QED
    BY <1>1, <1>c, <1>d, <2>1 DEF Start, PlaceType, PlaceInv, Phases
<1>2. ASSUME Collect PROVE Good
  <2>1. /\ poll_sources' \in [Loops -> Seq(Sources)] /\ dispatch_priority' \in [Loops -> 0..999]
    <3>1. /\ poll_sources' = [l \in Loops |-> poll_sources'[l]]
          /\ dispatch_priority' = [l \in Loops |-> dispatch_priority'[l]]
      BY <1>2 DEF Collect
    <3> QED
      BY <1>2, <1>d, <3>1, CollectFacts
  <2>2. loop_pc' = "prepare" /\ loop' = 1 /\ pos' = 1
        /\ UNCHANGED <<lists, dispatchable, rr_index, verdict, quits, events>>
    BY <1>2 DEF Collect
  <2>3. CycleType'
    BY <1>c, <2>1, <2>2 DEF CycleType
  <2> QED
    BY <1>b, <1>c, <2>2, <2>3, TypeKept DEF PlaceType, PlaceInv, Phases
<1>3. ASSUME Skip("prepare") \/ Skip("check") PROVE Good
  <2>1. /\ loop_pc \in {"prepare", "check"} /\ pos' = pos + 1
        /\ UNCHANGED <<lists, cycle, loop_pc, loop, verdict, quits, events>>
    BY <1>3 DEF Skip
  <2> QED
    BY <1>c, <2>1, TypeKept DEF PlaceType, PlaceInv
<1>4. ASSUME PrepareCall PROVE Good
  <2>1. EventsType'
    BY <1>4, <1>a, <1>c DEF PrepareCall, EventsType, quits
  <2>2. AtSource /\ loop_pc' = "prepared" /\ verdict' \in BOOLEAN /\ UNCHANGED <<lists, cycle, loop, pos>>
    BY <1>4, <1>c DEF PrepareCall, EventsType
  <2> QED
    BY <1>a, <1>c, <1>d, <2>1, <2>2, TypeKept DEF PlaceType, PlaceInv, Phases, cycle
<1>5. ASSUME PrepareDone \/ CheckDone PROVE Good
  <2>1. Judge("prepare", "PREPARED") \/ Judge("check", "WAITING")
    BY <1>5 DEF PrepareDone, CheckDone
  <2>2. Source \in Sources
    BY <1>5, <1>a DEF PrepareDone, CheckDone
  <2>3. \/ UNCHANGED loop_state
        \/ \E x \in {"WAITING", "PREPARED", "NEEDS_DISPATCH"} :
             loop_state' = [loop_state EXCEPT ![Source] = x]
    BY <2>1 DEF Judge
  <2>5. \/ UNCHANGED dispatch_priority
        \/ dispatch_priority' = [dispatch_priority EXCEPT ![loop] =
                                   IF @ < Priority[Source] THEN Priority[Source] ELSE @]
    BY <2>1 DEF Judge
  <2>7. /\ pos' = pos + 1 /\ loop_pc' \in {"prepare", "check"} /\ verdict' = FALSE
        /\ UNCHANGED <<sources, life, poll_sources, dispatchable, rr_index, loop, quits, events>>
    BY <2>1 DEF Judge
  <2> HIDE DEF Source
  <2>4. ListsType'
    BY <1>c, <2>3, <2>7 DEF ListsType
  <2>6. CycleType'
    <3>1. \/ UNCHANGED dispatch_priority
          \/ \E p \in 0..999 : dispatch_priority' = [dispatch_priority EXCEPT ![loop] = p]
      <4>1. dispatch_priority[loop] \in 0..999 /\ Priority[Source] \in 0..999
        BY <1>b, <1>c, <2>2 DEF CycleType, PlaceType
      <4> QED
        BY <2>5, <4>1
    <3>2. dispatch_priority' \in [Loops -> 0..999]
      <4>1. dispatch_priority \in [Loops -> 0..999]
        BY <1>c DEF CycleType
      <4> QED
        BY <3>1, <4>1
    <3> QED
      BY <1>c, <2>7, <3>2 DEF CycleType
  <2>8. EventsType'
    BY <1>c, <2>7, TypeKept
  <2>9. PlaceType' /\ PlaceInv'
    <3>1. pos \in Nat /\ loop \in Loops
      BY <1>c DEF PlaceType
    <3>2. pos' \in Nat /\ pos' # 0 /\ loop' \in Loops /\ loop_pc' \in {"prepare", "check"} /\ verdict' = FALSE
      BY <2>7, <3>1
    <3> QED
      BY <3>2 DEF PlaceType, PlaceInv, Phases
  <2> QED
    BY <2>4, <2>6, <2>8, <2>9
<1>6. ASSUME LoopDone("prepare", "poll") \/ LoopDone("check", "pick") PROVE Good
  <2>1. \E b \in BOOLEAN : dispatchable' = [dispatchable EXCEPT ![loop] = b]
    <3> DEFINE d(phase) == (phase = "check" /\ dispatchable[loop]) \/ dispatch_priority[loop] > UNDEFINED_PRIORITY
    <3>1. \E phase \in {"prepare", "check"} : dispatchable' = [dispatchable EXCEPT ![loop] = d(phase)]
      BY <1>6, Zenon DEF LoopDone
    <3>2. \A phase : d(phase) \in BOOLEAN
      OBVIOUS
    <3> HIDE DEF d
    <3> QED
      BY <3>1, <3>2
  <2>2. loop' \in Loops
    BY <1>6, <1>b, <1>c DEF LoopDone, PlaceType, MoreLoops, Loops
  <2>3. /\ pos' = 1 /\ loop_pc' \in {"prepare", "check", "poll", "pick"}
        /\ UNCHANGED <<lists, poll_sources, dispatch_priority, rr_index, verdict, quits, events>>
    BY <1>6 DEF LoopDone
  <2>4. CycleType'
    BY <1>c, <2>1, <2>3 DEF CycleType
  <2> QED
    BY <1>c, <2>2, <2>3, <2>4, TypeKept DEF PlaceType, PlaceInv, Phases
<1>7. ASSUME Poll \/ PollTimeout PROVE Good
  <2>1. EventsType'
    BY <1>7, <1>c DEF Poll, PollTimeout, EventsType, quits, events
  <2>2. loop_pc' = "polled" /\ verdict' \in BOOLEAN /\ UNCHANGED <<lists, cycle, loop, pos>>
    BY <1>7, <1>c DEF Poll, PollTimeout, EventsType
  <2> QED
    BY <1>c, <1>d, <2>1, <2>2, TypeKept DEF PlaceType, PlaceInv, Phases
<1>8. ASSUME Flush PROVE Good
  <2>1. EventsType'
    BY <1>8, <1>c DEF Flush, EventsType, quits
  <2>2. loop_pc' = "check" /\ verdict' \in BOOLEAN /\ UNCHANGED <<lists, cycle, loop, pos>>
    BY <1>8 DEF Flush
  <2> QED
    BY <1>c, <1>d, <2>1, <2>2, TypeKept DEF PlaceType, PlaceInv, Phases
<1>9. ASSUME CheckCall PROVE Good
  <2>1. AtSource /\ loop_pc' = "checked" /\ verdict' \in BOOLEAN /\ UNCHANGED <<lists, cycle, loop, pos, quits, events>>
    BY <1>9, <1>a, <1>c DEF CheckCall, EventsType
  <2> QED
    BY <1>a, <1>c, <1>d, <2>1, TypeKept DEF PlaceType, PlaceInv, Phases, cycle
<1>10. ASSUME PickNone PROVE Good
  BY <1>10, <1>c, <1>d, TypeKept DEF PickNone, PlaceType, PlaceInv, Phases
<1>11. ASSUME NEW n \in 0..NLoops-1, Pick(n) PROVE Good
  <2> DEFINE l == Nth(n)
  <2>1. l \in Loops /\ rr_index' \in 0..NLoops-1
    BY <1>11, <1>d, NthLoop DEF Pick
  <2> HIDE DEF l
  <2>2. /\ dispatch_priority' = [dispatch_priority EXCEPT ![l] = UNDEFINED_PRIORITY]
        /\ UNCHANGED <<sources, life, poll_sources, dispatchable, verdict, quits, eventfd, revents, waking>>
    BY <1>11 DEF Pick, l
  <2>3. \/ loop_pc' = "cleanup" /\ UNCHANGED <<loop, pos, loop_state, ready>>
        \/ \E i \in DOMAIN poll_sources[l] :
             /\ loop_pc' = "dispatch" /\ loop' = l /\ pos' = i
             /\ loop_state' = [loop_state EXCEPT ![poll_sources[l][i]] = "WAITING"]
             /\ ready' = [ready EXCEPT ![poll_sources[l][i]] = FALSE]
    BY <1>11 DEF Pick, l
  <2>4. CycleType'
    <3>1. UNDEFINED_PRIORITY \in 0..999
      BY DEF UNDEFINED_PRIORITY
    <3> QED
      BY <1>c, <2>1, <2>2, <3>1 DEF CycleType
  <2>5. PlaceType' /\ PlaceInv'
    <3>1. poll_sources[l] \in Seq(Sources)
      BY <1>c, <2>1 DEF CycleType
    <3> QED
      BY <1>c, <1>d, <2>1, <2>2, <2>3, <3>1 DEF PlaceType, PlaceInv, Phases
  <2>6. ListsType' /\ EventsType'
    <3>1. \/ UNCHANGED <<loop_state, ready>>
          \/ \E s : /\ loop_state' = [loop_state EXCEPT ![s] = "WAITING"]
                    /\ ready' = [ready EXCEPT ![s] = FALSE]
      BY <2>3
    <3>2. ListsType'
      BY <1>c, <2>2, <3>1 DEF ListsType
    <3>3. EventsType'
      BY <1>c, <2>2, <3>1 DEF EventsType, quits
    <3> QED
      BY <3>2, <3>3
  <2> QED
    BY <2>4, <2>5, <2>6
<1>12. ASSUME NEW s \in Sources, Unlink(s) PROVE ListsType'
  <2>1. sources' \in [Loops -> Seq(Sources)]
    BY <1>12, <1>d, WithoutRange DEF Unlink
  <2> QED
    BY <1>12, <1>c, <2>1 DEF Unlink, ListsType
<1>13. ASSUME NEW keep_alive \in BOOLEAN, DispatchDone(keep_alive) PROVE Good
  <2>1. ListsType'
    BY <1>13, <1>a, <1>c, <1>12, TypeKept DEF DispatchDone
  <2> QED
    BY <1>13, <1>c, <1>d, <2>1, TypeKept DEF DispatchDone, PlaceType, PlaceInv, Phases
<1>14. ASSUME Cleanup PROVE Good
  <2>1. poll_sources' \in [Loops -> Seq(Sources)] /\ dispatchable' \in [Loops -> BOOLEAN]
    BY <1>14 DEF Cleanup
  <2>2. /\ loop_pc' \in {"collect", "exit"} /\ loop' = 1 /\ pos' = 1 /\ has_quit' \in BOOLEAN
        /\ UNCHANGED <<lists, dispatch_priority, rr_index, verdict, running, events>>
    BY <1>14, <1>c DEF Cleanup, EventsType
  <2>3. CycleType'
    BY <1>c, <2>1, <2>2 DEF CycleType
  <2>4. EventsType'
    BY <1>c, <2>2 DEF EventsType, events
  <2> QED
    BY <1>b, <1>c, <2>2, <2>3, <2>4, TypeKept DEF PlaceType, PlaceInv, Phases
<1>15. ASSUME Quit PROVE Good
  <2>1. EventsType' /\ UNCHANGED <<lists, cycle, place>>
    BY <1>15, <1>c DEF Quit, EventsType
  <2> QED
    BY <1>c, <1>d, <2>1, TypeKept DEF PlaceType, PlaceInv, place, cycle
<1>16. ASSUME NEW s \in Sources, Add(s) \/ TryRemove(s) PROVE Good
  <2>1. ListsType'
    <3>1. CASE Add(s)
      <4>1. sources' \in [Loops -> Seq(Sources)]
        BY <1>d, <3>1, AddRange DEF Add
      <4> QED
        BY <1>c, <3>1, <4>1 DEF Add, ListsType
    <3> QED
      BY <1>16, <1>12, <3>1 DEF TryRemove
  <2>2. EventsType' /\ UNCHANGED <<cycle, place>>
    BY <1>16, <1>c DEF Add, TryRemove, EventsType, quits
  <2> QED
    BY <1>c, <1>d, <2>1, <2>2, TypeKept DEF PlaceType, PlaceInv, place, cycle
<1>17. ASSUME NEW s \in Sources, Trigger(s) \/ Wakeup(s) PROVE Good
  <2>1. UNCHANGED <<lists, cycle, place>>
    BY <1>17 DEF Trigger, Wakeup
  <2>2. EventsType'
    <3>1. CASE Trigger(s)
      BY <1>c, <3>1 DEF Trigger, EventsType, quits
    <3>2. CASE Wakeup(s)
      BY <1>c, <3>2 DEF Wakeup, EventsType, quits
    <3> QED
      BY <1>17, <3>1, <3>2
  <2> QED
    BY <1>c, <1>d, <2>1, <2>2, TypeKept DEF PlaceType, PlaceInv, place, cycle
<1>18. ASSUME UNCHANGED loopVars PROVE Good
  BY <1>18, <1>c, <1>d, TypeKept DEF loopVars, PlaceType, PlaceInv, place, cycle
<1> HIDE DEF Good
<1>19. [LoopNext]_loopVars => Good
  BY <1>1, <1>2, <1>3, <1>4, <1>5, <1>6, <1>7, <1>8, <1>9, <1>10, <1>11, <1>13, <1>14,
     <1>15, <1>16, <1>17, <1>18, LoopCases
<1> QED
  BY <1>19, TypeParts DEF Good

\* The steps that change which sources a loop has and polls.
LEMMA ListChanges ==
  ASSUME LoopTypeOK, PlaceInv, [LoopNext]_loopVars
  PROVE  \/ Collect \/ Cleanup
         \/ \E s \in Sources : Add(s)
         \/ \E s \in Sources : Unlink(s) /\ UNCHANGED poll_sources
         \/ UNCHANGED <<sources, life, poll_sources>>
<1> DEFINE Kept3 == UNCHANGED <<sources, life, poll_sources>>
           Unlinked == \E s \in Sources : Unlink(s) /\ UNCHANGED poll_sources
<1>1. ASSUME NEW s \in Sources, TryRemove(s) PROVE Unlinked
  BY <1>1 DEF TryRemove, cycle
<1>2. ASSUME NEW keep_alive \in BOOLEAN, DispatchDone(keep_alive) PROVE Unlinked \/ Kept3
  <2>1. Source \in Sources
    BY <1>2, SourceFacts DEF DispatchDone, PlaceInv
  <2> QED
    BY <1>2, <2>1 DEF DispatchDone, cycle, lists
<1>3. ASSUME NEW s \in Sources, Trigger(s) \/ Wakeup(s) PROVE Kept3
  BY <1>3 DEF Trigger, Wakeup, lists, cycle
<1>4. ASSUME NEW n \in 0..NLoops-1, Pick(n) PROVE Kept3
  BY <1>4 DEF Pick
<1>5. ASSUME Start \/ Skip("prepare") \/ Skip("check") \/ PrepareCall \/ Poll \/ PollTimeout \/ Flush
             \/ CheckCall \/ PickNone \/ Quit \/ UNCHANGED loopVars
      PROVE  Kept3
  BY <1>5 DEF Start, Skip, PrepareCall, Poll, PollTimeout, Flush, CheckCall, PickNone, Quit,
              loopVars, lists, cycle
<1>6. ASSUME PrepareDone \/ CheckDone \/ LoopDone("prepare", "poll") \/ LoopDone("check", "pick")
      PROVE  Kept3
  BY <1>6 DEF PrepareDone, CheckDone, Judge, LoopDone, lists
<1> HIDE DEF Kept3, Unlinked
<1>7. Collect \/ Cleanup \/ (\E s \in Sources : Add(s)) \/ Unlinked \/ Kept3
  BY <1>1, <1>2, <1>3, <1>4, <1>5, <1>6, LoopCases
<1> QED
  BY <1>7 DEF Kept3, Unlinked

\* A source is only in the lists of its loop, and there while it is a member.
LEMMA NextList == LoopTypeOK /\ PlaceInv /\ ListInv /\ [LoopNext]_loopVars => ListInv'
<1> DEFINE Own == \A l \in Loops : \A s \in Range(sources[l]) \cup Range(poll_sources[l]) : LoopOf[s] = l
           Member == \A s \in Sources : life[s] = "member" => s \in Range(sources[LoopOf[s]])
<1> SUFFICES ASSUME LoopTypeOK, PlaceInv, Own, Member, [LoopNext]_loopVars PROVE Own' /\ Member'
  BY DEF ListInv
<1>a. \A s \in Sources : LoopOf[s] \in Loops
  BY MainLoopAssumption DEF Loops
<1>b. life \in [Sources -> {"new", "member", "removed"}]
  BY DEF LoopTypeOK
<1>1. CASE Collect
  <2>1. UNCHANGED <<sources, life>>
    BY <1>1 DEF Collect, lists
  <2>2. \A l \in Loops : Range(poll_sources'[l]) \subseteq Range(sources[l])
    BY <1>1, CollectFacts
  <2> QED
    BY <2>1, <2>2
<1>2. CASE Cleanup
  <2>1. UNCHANGED <<sources, life>> /\ \A l \in Loops : poll_sources'[l] = <<>>
    BY <1>2 DEF Cleanup, lists
  <2>2. Range(<<>>) = {}
    BY DEF Range
  <2> QED
    BY <2>1, <2>2
<1>3. ASSUME NEW s \in Sources, Add(s) PROVE Own' /\ Member'
  <2>1. /\ UNCHANGED poll_sources /\ life' = [life EXCEPT ![s] = "member"]
        /\ s \in Range(sources'[LoopOf[s]])
        /\ \A l \in Loops : Range(sources[l]) \subseteq Range(sources'[l])
        /\ \A l \in Loops : \A x \in Range(sources'[l]) : x \in Range(sources[l]) \/ (x = s /\ l = LoopOf[s])
    BY <1>3, AddRange DEF Add, cycle
  <2>2. \A x \in Sources : life'[x] = "member" => x = s \/ life[x] = "member"
    BY <2>1, <1>b
  <2> QED
    BY <1>a, <2>1, <2>2
<1>4. ASSUME NEW s \in Sources, Unlink(s), UNCHANGED poll_sources PROVE Own' /\ Member'
  <2>1. /\ life' = [life EXCEPT ![s] = "removed"]
        /\ \A l \in Loops : Range(sources'[l]) \subseteq Range(sources[l])
        /\ \A x \in Sources : x # s /\ x \in Range(sources[LoopOf[x]]) => x \in Range(sources'[LoopOf[x]])
    BY <1>4, WithoutRange DEF Unlink
  <2>2. \A x \in Sources : life'[x] = "member" => x # s /\ life[x] = "member"
    BY <2>1, <1>b
  <2> QED
    BY <1>4, <1>a, <2>1, <2>2
<1>5. CASE UNCHANGED <<sources, life, poll_sources>>
  BY <1>5
<1> QED
  BY <1>1, <1>2, <1>3, <1>4, <1>5, ListChanges

\* The loop thread gets to dispatching from collect_sources_Lm.
Judging == {"prepare", "prepared", "poll", "polled", "check", "checked", "pick"}



\* The verdict of a callback raises the priority of the loop if it has to.
LEMMA JudgeFacts ==
  ASSUME LoopTypeOK, PlaceInv, PrepareDone \/ CheckDone
  PROVE  /\ Source \in Sources /\ Source \in Range(poll_sources[loop])
         /\ \A s \in Sources : s # Source => loop_state'[s] = loop_state[s]
         /\ \A l \in Loops : dispatch_priority[l] <= dispatch_priority'[l]
         /\ Undestroyed(Source) /\ verdict =>
              Priority[Source] <= dispatch_priority'[loop] /\ dispatch_priority'[loop] > 0
         /\ Undestroyed(Source) /\ ~verdict => loop_state'[Source] = IF loop_pc = "prepared" THEN "PREPARED" ELSE "WAITING"
         /\ ~Undestroyed(Source) => loop_state' = loop_state
<1>1. Source \in Sources /\ Source \in Range(poll_sources[loop])
  BY SourceFacts DEF PrepareDone, CheckDone, PlaceInv
<1>2. \/ Judge("prepare", "PREPARED") /\ loop_pc = "prepared"
      \/ Judge("check", "WAITING") /\ loop_pc = "checked"
  BY Zenon DEF PrepareDone, CheckDone
<1>3. /\ loop_state \in [Sources -> {"WAITING", "PREPARED", "NEEDS_DISPATCH"}]
      /\ dispatch_priority \in [Loops -> 0..999] /\ loop \in Loops
  BY DEF LoopTypeOK
<1>4. Priority[Source] \in 1..999
  <2>1. \A s \in Sources : Priority[s] \in 1..999
    BY MainLoopAssumption
  <2> QED
    BY <1>1, <2>1
<1>5. /\ ~Undestroyed(Source) => loop_state' = loop_state /\ dispatch_priority' = dispatch_priority
      /\ Undestroyed(Source) /\ verdict =>
           /\ loop_state' = [loop_state EXCEPT ![Source] = "NEEDS_DISPATCH"]
           /\ dispatch_priority' = [dispatch_priority EXCEPT ![loop] =
                                      IF @ < Priority[Source] THEN Priority[Source] ELSE @]
      /\ Undestroyed(Source) /\ ~verdict =>
           /\ loop_state' = [loop_state EXCEPT ![Source] = IF loop_pc = "prepared" THEN "PREPARED" ELSE "WAITING"]
           /\ dispatch_priority' = dispatch_priority
  BY <1>2 DEF Judge
<1> HIDE DEF Source
<1>6. \A l \in Loops : dispatch_priority[l] \in 0..999
  BY <1>3
<1>7. dispatch_priority' = dispatch_priority => \A l \in Loops : dispatch_priority[l] <= dispatch_priority'[l]
  BY <1>6
<1>8. ASSUME Undestroyed(Source), verdict
      PROVE  /\ \A l \in Loops : dispatch_priority[l] <= dispatch_priority'[l]
             /\ Priority[Source] <= dispatch_priority'[loop] /\ dispatch_priority'[loop] > 0
  <2> DEFINE p == Priority[Source]
             d == dispatch_priority[loop]
  <2>1. p \in 1..999 /\ d \in 0..999
    BY <1>3, <1>4, <1>6
  <2>2. dispatch_priority' = [dispatch_priority EXCEPT ![loop] = IF d < p THEN p ELSE d]
    BY <1>5, <1>8
  <2>3. dispatch_priority'[loop] = IF d < p THEN p ELSE d
    BY <1>3, <2>2
  <2>4. \A l \in Loops : l # loop => dispatch_priority'[l] = dispatch_priority[l]
    BY <1>3, <2>2
  <2> HIDE DEF p, d
  <2>5. d <= dispatch_priority'[loop] /\ p <= dispatch_priority'[loop] /\ dispatch_priority'[loop] > 0
    <3>1. d < p \/ p <= d
      BY <2>1
    <3>2. dispatch_priority'[loop] \in 1..999 /\ d <= dispatch_priority'[loop] /\ p <= dispatch_priority'[loop]
      BY <2>1, <2>3, <3>1
    <3> QED
      BY <3>2
  <2> QED
    BY <1>6, <2>4, <2>5 DEF p, d
<1> QED
  BY <1>1, <1>3, <1>5, <1>7, <1>8

\* The steps that change which source needs dispatching, or a priority of a loop.
LEMMA RaiseChanges ==
  ASSUME LoopTypeOK, PlaceInv, [LoopNext]_loopVars, loop_pc' \in Judging
  PROVE  \/ Collect \/ PrepareDone \/ CheckDone
         \/ \E s \in Sources : Unlink(s) /\ UNCHANGED <<poll_sources, dispatch_priority, loop_pc>>
         \/ UNCHANGED <<poll_sources, dispatch_priority, loop_state>> /\ loop_pc \in Judging
<1> DEFINE Kept3 == UNCHANGED <<poll_sources, dispatch_priority, loop_state>> /\ loop_pc \in Judging
           Unlinked == \E s \in Sources : Unlink(s) /\ UNCHANGED <<poll_sources, dispatch_priority, loop_pc>>
<1>1. ASSUME NEW s \in Sources, TryRemove(s) PROVE Unlinked
  BY <1>1 DEF TryRemove, cycle, place
<1>2. ASSUME NEW s \in Sources, Add(s) \/ Trigger(s) \/ Wakeup(s) PROVE Kept3
  BY <1>2 DEF Add, Trigger, Wakeup, lists, cycle, place
<1>3. /\ \A keep_alive \in BOOLEAN : ~DispatchDone(keep_alive)
      /\ \A n \in 0..NLoops-1 : ~Pick(n)
      /\ ~Start /\ ~PickNone /\ ~Cleanup
  BY DEF DispatchDone, Pick, Start, PickNone, Cleanup, Judging
<1>4. ASSUME Skip("prepare") \/ Skip("check") \/ PrepareCall \/ Poll \/ PollTimeout \/ Flush
             \/ CheckCall \/ Quit \/ UNCHANGED loopVars
      PROVE  Kept3
  BY <1>4 DEF Skip, PrepareCall, Poll, PollTimeout, Flush, CheckCall, Quit, loopVars, lists, cycle,
              place, Judging
<1>5. ASSUME LoopDone("prepare", "poll") \/ LoopDone("check", "pick") PROVE Kept3
  BY <1>5 DEF LoopDone, lists, Judging
<1> HIDE DEF Kept3, Unlinked
<1>6. Collect \/ PrepareDone \/ CheckDone \/ Unlinked \/ Kept3
  BY <1>1, <1>2, <1>3, <1>4, <1>5, LoopCases
<1> QED
  BY <1>6 DEF Kept3, Unlinked

\* The priority of a loop is at least that of its sources that need dispatching.
LEMMA NextRaised ==
  LoopTypeOK /\ PlaceInv /\ ListInv /\ RaisedInv /\ [LoopNext]_loopVars => RaisedInv'
<1> SUFFICES ASSUME LoopTypeOK, PlaceInv, ListInv, RaisedInv, [LoopNext]_loopVars, loop_pc' \in Judging,
                    NEW l \in Loops, NEW s \in Range(poll_sources'[l]), loop_state'[s] = "NEEDS_DISPATCH"
             PROVE  Priority[s] <= dispatch_priority'[l]
  BY DEF RaisedInv, Judging
<1>1. CASE Collect
  <2>1. UNCHANGED loop_state /\ s \in Range(sources[l])
    BY <1>1, CollectFacts DEF Collect, lists
  <2>2. s \in Remaining(l)
    BY <2>1 DEF Remaining
  <2> QED
    BY <1>1, <2>2, CollectFacts
<1>a. s \in Range(poll_sources[l]) /\ loop_pc \in Judging /\ loop_state[s] = "NEEDS_DISPATCH"
        => Priority[s] <= dispatch_priority[l] /\ s \in Sources
  <2>1. poll_sources[l] \in Seq(Sources)
    BY DEF LoopTypeOK
  <2> QED
    BY <2>1 DEF RaisedInv, Judging, Range
<1>2. CASE PrepareDone \/ CheckDone
  <2>1. UNCHANGED poll_sources /\ loop_pc \in Judging
    BY <1>2 DEF PrepareDone, CheckDone, Judge, Judging
  <2>2. LoopOf[s] = l /\ LoopOf[Source] = loop
    BY <1>2, <2>1, JudgeFacts DEF ListInv, LoopTypeOK
  <2>3. s \in Sources
    <3>1. poll_sources[l] \in Seq(Sources)
      BY DEF LoopTypeOK
    <3> QED
      BY <2>1, <3>1 DEF Range
  <2>4. CASE s = Source /\ Undestroyed(Source)
    <3>1. verdict
      BY <1>2, <2>4, JudgeFacts
    <3> QED
      BY <1>2, <2>2, <2>4, <3>1, JudgeFacts
  <2>5. CASE ~(s = Source /\ Undestroyed(Source))
    <3>1. loop_state[s] = "NEEDS_DISPATCH"
      BY <1>2, <2>3, <2>5, JudgeFacts
    <3>2. Priority[s] <= dispatch_priority[l] /\ dispatch_priority[l] <= dispatch_priority'[l]
      BY <1>2, <1>a, <2>1, <3>1, JudgeFacts
    <3>3. Priority[s] \in Nat /\ dispatch_priority[l] \in Nat /\ dispatch_priority'[l] \in Nat
      <4>1. Priority[s] \in 1..999
        <5>1. \A x \in Sources : Priority[x] \in 1..999
          BY MainLoopAssumption
        <5> QED
          BY <2>3, <5>1
      <4>2. dispatch_priority \in [Loops -> 0..999] /\ dispatch_priority' \in [Loops -> 0..999]
        BY NextType DEF LoopTypeOK
      <4>3. dispatch_priority[l] \in 0..999 /\ dispatch_priority'[l] \in 0..999
        BY <4>2
      <4>4. \A x : x \in 0..999 \/ x \in 1..999 => x \in Nat
        OBVIOUS
      <4>5. Priority[s] \in Nat
        BY <4>1, <4>4
      <4>6. dispatch_priority[l] \in Nat
        BY <4>3, <4>4
      <4>7. dispatch_priority'[l] \in Nat
        BY <4>3, <4>4
      <4> QED
        BY <4>5, <4>6, <4>7
    <3> DEFINE c == Priority[s]
               a == dispatch_priority[l]
               b == dispatch_priority'[l]
    <3>4. a \in Nat /\ b \in Nat /\ c \in Nat /\ c <= a /\ a <= b
      BY <3>2, <3>3, Zenon
    <3> HIDE DEF a, b, c
    <3>5. c <= b
      BY <3>4
    <3> QED
      BY <3>5 DEF b, c
  <2> QED
    BY <2>4, <2>5
<1>3. ASSUME NEW x \in Sources, Unlink(x), UNCHANGED <<poll_sources, dispatch_priority, loop_pc>>
      PROVE  Priority[s] <= dispatch_priority'[l]
  <2>1. loop_state[s] = "NEEDS_DISPATCH"
    <3>1. s \in Sources
      BY <1>3 DEF LoopTypeOK, Range
    <3> QED
      BY <1>3, <3>1 DEF Unlink, LoopTypeOK
  <2> QED
    BY <1>3, <1>a, <2>1
<1>4. CASE UNCHANGED <<poll_sources, dispatch_priority, loop_state>> /\ loop_pc \in Judging
  BY <1>4, <1>a
<1> QED
  BY <1>1, <1>2, <1>3, <1>4, RaiseChanges

\* What other threads do.
Other == Quit \/ \E s \in Sources : Add(s) \/ TryRemove(s) \/ Trigger(s) \/ Wakeup(s)

\* Whatever may have to end poll() comes with a wakeup.
LEMMA OtherFacts ==
  ASSUME LoopTypeOK, Other
  PROVE  /\ UNCHANGED <<cycle, place>>
         /\ \A x \in Sources : Woken(x) => Woken(x)'
         /\ \A x \in Sources : Watched(x)' => Woken(x)' \/ (Watched(x) /\ loop_state'[x] = loop_state[x])
         /\ \A x \in Sources : ready'[x] /\ x \notin Fds => ready[x] \/ Woken(x)'
<1> DEFINE Goal == /\ UNCHANGED <<cycle, place>>
                   /\ \A x \in Sources : Woken(x) => Woken(x)'
                   /\ \A x \in Sources : Watched(x)' => Woken(x)' \/ (Watched(x) /\ loop_state'[x] = loop_state[x])
                   /\ \A x \in Sources : ready'[x] /\ x \notin Fds => ready[x] \/ Woken(x)'
<1>a. /\ life \in [Sources -> {"new", "member", "removed"}] /\ ready \in [Sources -> BOOLEAN]
      /\ loop_state \in [Sources -> {"WAITING", "PREPARED", "NEEDS_DISPATCH"}]
  BY DEF LoopTypeOK
<1>1. ASSUME Quit PROVE Goal
  BY <1>1 DEF Quit, Woken, Watched, lists
<1>2. ASSUME NEW s \in Sources, Add(s) PROVE Goal
  BY <1>2, <1>a DEF Add, Woken, Watched
<1>3. ASSUME NEW s \in Sources, TryRemove(s) PROVE Goal
  <2>1. /\ life' = [life EXCEPT ![s] = "removed"] /\ loop_state' = [loop_state EXCEPT ![s] = "WAITING"]
        /\ waking' = waking \cup {s} /\ UNCHANGED <<cycle, place, quits, eventfd, ready, revents>>
    BY <1>3 DEF TryRemove, Unlink
  <2> QED
    BY <2>1, <1>a DEF Woken, Watched
<1>4. ASSUME NEW s \in Sources, Trigger(s) PROVE Goal
  BY <1>4, <1>a DEF Trigger, Woken, Watched, lists
<1>5. ASSUME NEW s \in Sources, Wakeup(s) PROVE Goal
  BY <1>5, <1>a DEF Wakeup, Woken, Watched, lists
<1> HIDE DEF Goal
<1>6. Goal
  BY <1>1, <1>2, <1>3, <1>4, <1>5 DEF Other
<1> QED
  BY <1>6 DEF Goal

\* How the loop gets to prepare(), and from there to poll().
LEMMA PhaseCases ==
  ASSUME [LoopNext]_loopVars
  PROVE  /\ loop_pc' = "prepared" => PrepareCall \/ Other \/ UNCHANGED loopVars
         /\ loop_pc' = "prepare" => \/ Collect \/ Skip("prepare") \/ PrepareDone
                                    \/ LoopDone("prepare", "poll") /\ MoreLoops
                                    \/ Other \/ UNCHANGED loopVars
         /\ loop_pc' = "poll" => \/ LoopDone("prepare", "poll") /\ ~MoreLoops
                                 \/ Other \/ UNCHANGED loopVars
<1>1. Quit \/ (\E s \in Sources : Add(s) \/ TryRemove(s) \/ Trigger(s) \/ Wakeup(s)) => Other
  BY DEF Other
<1>2. /\ Start => loop_pc' \in {"collect", "cleanup"}
      /\ Collect => loop_pc' = "prepare"
      /\ Skip("prepare") => loop_pc' = "prepare"
      /\ Skip("check") => loop_pc' = "check"
      /\ PrepareCall => loop_pc' = "prepared"
      /\ Poll \/ PollTimeout => loop_pc' = "polled"
      /\ Flush => loop_pc' = "check"
      /\ CheckCall => loop_pc' = "checked"
      /\ PickNone => loop_pc' = "cleanup"
      /\ Cleanup => loop_pc' \in {"collect", "exit"}
  BY DEF Start, Collect, Skip, PrepareCall, Poll, PollTimeout, Flush, CheckCall, PickNone, Cleanup
<1>3. /\ PrepareDone => loop_pc' = "prepare"
      /\ CheckDone => loop_pc' = "check"
  BY DEF PrepareDone, CheckDone, Judge
<1>4. /\ LoopDone("prepare", "poll") => loop_pc' = IF MoreLoops THEN "prepare" ELSE "poll"
      /\ LoopDone("check", "pick") => loop_pc' \in {"check", "pick"}
  BY DEF LoopDone
<1>5. /\ \A n \in 0..NLoops-1 : Pick(n) => loop_pc' \in {"cleanup", "dispatch"}
      /\ \A keep_alive \in BOOLEAN : DispatchDone(keep_alive) => loop_pc' = "cleanup"
  BY DEF Pick, DispatchDone
<1> QED
  BY <1>1, <1>2, <1>3, <1>4, <1>5, LoopCases

LEMMA PolledIs ==
  /\ \A s : s \in Polled <=> /\ s \in Fds /\ loop_state[s] = "PREPARED"
                             /\ \E l \in Loops : s \in Range(poll_sources[l])
  /\ \A s : s \in Polled' <=> /\ s \in Fds /\ loop_state'[s] = "PREPARED"
                              /\ \E l \in Loops : s \in Range(poll_sources'[l])
<1>1. \A s : s \in UNION {Range(poll_sources[l]) : l \in Loops} <=> \E l \in Loops : s \in Range(poll_sources[l])
  OBVIOUS
<1>2. \A s : s \in UNION {Range(poll_sources'[l]) : l \in Loops} <=> \E l \in Loops : s \in Range(poll_sources'[l])
  OBVIOUS
<1>3. \A s : s \in Polled <=> /\ s \in UNION {Range(poll_sources[l]) : l \in Loops}
                              /\ s \in Fds /\ loop_state[s] = "PREPARED"
  BY DEF Polled
<1>4. \A s : s \in Polled' <=> /\ s \in UNION {Range(poll_sources'[l]) : l \in Loops}
                               /\ s \in Fds /\ loop_state'[s] = "PREPARED"
  BY DEF Polled
<1> QED
  BY <1>1, <1>2, <1>3, <1>4, Zenon

\* The verdict of prepare() is not outdated without a wakeup.
LEMMA NextVerdict == LoopTypeOK /\ PlaceInv /\ VerdictInv /\ [LoopNext]_loopVars => VerdictInv'
<1> DEFINE Fresh == IF Source \in Fds THEN ~verdict ELSE ready[Source] => verdict \/ Woken(Source)
<1> SUFFICES ASSUME LoopTypeOK, PlaceInv, loop_pc = "prepared" => Fresh, [LoopNext]_loopVars,
                    loop_pc' = "prepared"
             PROVE  Fresh'
  BY DEF VerdictInv
<1>1. CASE PrepareCall
  <2>1. /\ Source' = Source /\ ready' = ready /\ verdict' = (ready[Source] /\ Source \notin Fds)
    BY <1>1 DEF PrepareCall, Source, cycle
  <2> QED
    BY <2>1
<1>2. CASE Other
  <2>1. UNCHANGED <<cycle, place>>
    BY <1>2, OtherFacts
  <2>2. Source' = Source /\ verdict' = verdict /\ loop_pc = "prepared"
    BY <2>1 DEF cycle, place, Source
  <2>3. Source \in Sources
    BY <2>2, SourceFacts DEF PlaceInv
  <2>4. PICK x \in Sources : x = Source
    BY <2>3
  <2>5. IF x \in Fds THEN ~verdict ELSE ready[x] => verdict \/ Woken(x)
    BY <2>2, <2>4 DEF Woken
  <2> HIDE DEF Source
  <2>6. x \notin Fds /\ ready'[x] => verdict \/ Woken(x)'
    BY <1>2, <2>5, OtherFacts
  <2> QED
    BY <2>2, <2>4, <2>5, <2>6 DEF Woken
<1>3. CASE UNCHANGED loopVars
  <2>1. loop_pc = "prepared" /\ Fresh
    BY <1>3 DEF loopVars, place
  <2> QED
    BY <1>3, <2>1 DEF loopVars, cycle, place, events, Source, Woken
<1> QED
  BY <1>1, <1>2, <1>3, PhaseCases

\* The end of prepare_sources_Lm: a loop with something to dispatch is dispatchable.
LEMMA PrepareLoopDone ==
  ASSUME LoopTypeOK, PlaceInv, LoopDone("prepare", "poll")
  PROVE  /\ UNCHANGED <<life, ready, loop_state, poll_sources, eventfd, waking>>
         /\ MoreLoops => /\ WillDispatch => WillDispatch'
                         /\ \A s : Unprepared(s) => Unprepared(s)'
         /\ ~MoreLoops => /\ WillDispatch => AnyDispatchable'
                          /\ \A s : ~Unprepared(s)
<1>1. /\ dispatchable' = [dispatchable EXCEPT ![loop] = dispatch_priority[loop] > UNDEFINED_PRIORITY]
      /\ pos' = 1 /\ ~AtSource
      /\ MoreLoops => loop' = loop + 1
      /\ UNCHANGED <<life, ready, loop_state, poll_sources, dispatch_priority, eventfd, waking>>
  BY DEF LoopDone, lists, events
<1>2. dispatchable \in [Loops -> BOOLEAN] /\ loop \in Loops /\ loop \in Nat /\ pos \in Nat /\ NLoops \in Nat
  BY MainLoopAssumption DEF LoopTypeOK, Loops
<1>3. \A l \in Loops : poll_sources[l] \in Seq(Sources) /\ l \in Nat /\ l <= NLoops
  BY <1>2 DEF LoopTypeOK, Loops
<1>4. /\ dispatchable'[loop] <=> dispatch_priority[loop] > UNDEFINED_PRIORITY
      /\ \A l \in Loops : l # loop => dispatchable'[l] = dispatchable[l]
  <2> DEFINE b == dispatch_priority[loop] > UNDEFINED_PRIORITY
  <2>1. dispatchable' = [dispatchable EXCEPT ![loop] = b]
    BY <1>1
  <2> HIDE DEF b
  <2>2. dispatchable'[loop] = b /\ \A l \in Loops : l # loop => dispatchable'[l] = dispatchable[l]
    BY <1>2, <2>1
  <2>3. dispatchable'[loop] <=> b
    BY <2>2, Zenon
  <2> QED
    BY <2>2, <2>3 DEF b
<1>5. \A s : Unprepared(s) => \E l \in Loops : l > loop /\ \E i \in DOMAIN poll_sources[l] : poll_sources[l][i] = s
  <2>1. \A i \in DOMAIN poll_sources[loop] : ~(i >= pos)
    BY <1>1, <1>2, <1>3 DEF AtSource
  <2> QED
    BY <2>1 DEF Unprepared
<1>6. CASE MoreLoops
  <2>1. ASSUME WillDispatch PROVE WillDispatch'
    <3>1. PICK l \in Loops : IF l < loop THEN dispatchable[l] ELSE dispatch_priority[l] > UNDEFINED_PRIORITY
      BY <2>1 DEF WillDispatch
    <3>2. IF l < loop + 1 THEN dispatchable'[l] ELSE dispatch_priority'[l] > UNDEFINED_PRIORITY
      <4>1. l \in Nat /\ (l < loop \/ l = loop \/ l > loop)
        BY <1>2, <1>3
      <4>2. CASE l < loop
        BY <1>2, <1>4, <3>1, <4>1, <4>2
      <4>3. CASE l = loop
        BY <1>2, <1>4, <3>1, <4>1, <4>3
      <4>4. CASE l > loop
        BY <1>1, <1>2, <3>1, <4>1, <4>4
      <4> QED
        BY <4>1, <4>2, <4>3, <4>4
    <3>3. IF l < loop' THEN dispatchable'[l] ELSE dispatch_priority'[l] > UNDEFINED_PRIORITY
      BY <1>1, <1>6, <3>2
    <3> QED
      BY <3>3 DEF WillDispatch
  <2>2. ASSUME NEW s, Unprepared(s) PROVE Unprepared(s)'
    <3>a. PICK l \in Loops : l > loop /\ \E i \in DOMAIN poll_sources[l] : poll_sources[l][i] = s
      BY <1>5, <2>2
    <3>1. PICK i \in DOMAIN poll_sources[l] : l > loop /\ poll_sources[l][i] = s
      BY <3>a
    <3>b. loop' = loop + 1 /\ pos' = 1 /\ loop \in Nat /\ l \in Nat
      BY <1>1, <1>2, <1>3, <1>6
    <3>c. i \in Nat /\ i >= 1
      BY <1>3, <3>1
    <3>2. l > loop' \/ (l = loop' /\ i >= pos')
      BY <3>b, <3>c, <3>1
    <3> QED
      BY <1>1, <3>1, <3>2 DEF Unprepared
  <2> QED
    BY <1>1, <1>6, <2>1, <2>2
<1>7. CASE ~MoreLoops
  <2>1. loop = NLoops
    BY <1>2, <1>3, <1>7 DEF MoreLoops
  <2>2. ASSUME WillDispatch PROVE AnyDispatchable'
    <3>1. PICK l \in Loops : IF l < loop THEN dispatchable[l] ELSE dispatch_priority[l] > UNDEFINED_PRIORITY
      BY <2>2 DEF WillDispatch
    <3>2. dispatchable'[l]
      <4>1. l < loop \/ l = loop
        BY <1>2, <1>3, <2>1
      <4> QED
        BY <1>2, <1>3, <1>4, <3>1, <4>1
    <3> QED
      BY <3>2 DEF AnyDispatchable
  <2>3. ASSUME NEW s, Unprepared(s) PROVE FALSE
    BY <1>2, <1>3, <1>5, <2>1, <2>3
  <2> QED
    BY <1>1, <1>7, <2>2, <2>3
<1> QED
  BY <1>6, <1>7

\* prepare() of every source that may have to end poll() is still to be
\* called, or it will not be missed anyway.
LEMMA NextPrepare ==
  LoopTypeOK /\ PlaceInv /\ ListInv /\ VerdictInv /\ PrepareInv /\ [LoopNext]_loopVars => PrepareInv'
<1> DEFINE Safe(s) == Woken(s) \/ WillDispatch \/ Unprepared(s) \/ s \in Polled
<1> SUFFICES ASSUME LoopTypeOK, PlaceInv, ListInv, VerdictInv, PrepareInv, [LoopNext]_loopVars,
                    loop_pc' \in {"prepare", "prepared"}, NEW s \in Sources, Watched(s)'
             PROVE  Safe(s)'
  BY DEF PrepareInv
<1>a. loop_pc \in {"prepare", "prepared"} /\ Watched(s) => Safe(s)
  BY DEF PrepareInv
<1>b. \A l \in Loops : l \in Nat /\ l <= NLoops /\ poll_sources[l] \in Seq(Sources)
  <2>1. NLoops \in Nat
    BY MainLoopAssumption
  <2> QED
    BY <2>1 DEF LoopTypeOK, Loops
<1>c. loop \in Loops /\ loop \in Nat /\ pos \in Nat
  BY <1>b DEF LoopTypeOK
<1>1. CASE Collect
  <2> DEFINE l == LoopOf[s]
  <2>1. l \in Loops /\ l \in Nat /\ l >= 1
    BY MainLoopAssumption DEF Loops
  <2>2. s \in Range(sources[l])
    BY <1>1 DEF Collect, ListInv, lists, Watched
  <2>3. loop' = 1 /\ pos' = 1
    BY <1>1 DEF Collect
  <2> HIDE DEF l
  <2>4. CASE Collected(l, s)
    <3>1. s \in Range(poll_sources'[l]) /\ poll_sources'[l] \in Seq(Sources)
      BY <1>1, <2>1, <2>2, <2>4, CollectFacts
    <3>2. PICK i \in DOMAIN poll_sources'[l] : poll_sources'[l][i] = s
      BY <3>1 DEF Range
    <3>3. i \in Nat /\ i >= 1
      BY <3>1, <3>2
    <3>4. l > loop' \/ (l = loop' /\ i >= pos')
      BY <2>1, <2>3, <3>3
    <3>5. Unprepared(s)'
      BY <2>1, <3>2, <3>4 DEF Unprepared
    <3> QED
      BY <3>5
  <2>5. CASE dispatch_priority'[l] > 0
    <3>1. ~(l < loop')
      BY <2>1, <2>3
    <3>2. WillDispatch'
      BY <2>1, <2>5, <3>1 DEF WillDispatch, UNDEFINED_PRIORITY
    <3> QED
      BY <3>2
  <2> QED
    BY <1>1, <2>1, <2>2, <2>4, <2>5, CollectFacts
<1>2. CASE Skip("prepare")
  <2>1. /\ loop_pc = "prepare" /\ ~Undestroyed(Source) /\ pos' = pos + 1
        /\ UNCHANGED <<life, loop_state, poll_sources, dispatch_priority, dispatchable, loop, eventfd, ready, waking>>
    BY <1>2 DEF Skip, lists, cycle, events
  <2>2. Watched(s)
    BY <2>1 DEF Watched
  <2>3. Safe(s)
    BY <1>a, <2>1, <2>2
  <2>4. ASSUME Unprepared(s) PROVE Unprepared(s)'
    <3>1. PICK l \in Loops : \E i \in DOMAIN poll_sources[l] :
                               poll_sources[l][i] = s /\ (l > loop \/ (l = loop /\ i >= pos))
      BY <2>4 DEF Unprepared
    <3>2. PICK i \in DOMAIN poll_sources[l] : poll_sources[l][i] = s /\ (l > loop \/ (l = loop /\ i >= pos))
      BY <3>1
    <3>3. i \in Nat
      BY <1>b, <3>2
    <3>4. ~(l = loop /\ i = pos)
      BY <2>1, <2>2, <3>2 DEF Source, Undestroyed, Watched
    <3>5. l > loop' \/ (l = loop' /\ i >= pos')
      BY <1>b, <1>c, <2>1, <3>2, <3>3, <3>4
    <3> QED
      BY <2>1, <3>2, <3>5 DEF Unprepared
  <2>5. Woken(s) \/ s \in Polled \/ WillDispatch => Woken(s)' \/ s \in Polled' \/ WillDispatch'
    <3>1. Woken(s) => Woken(s)'
      BY <2>1 DEF Woken
    <3>2. s \in Polled => s \in Polled'
      BY <2>1, PolledIs
    <3>3. WillDispatch => WillDispatch'
      BY <2>1 DEF WillDispatch
    <3> QED
      BY <3>1, <3>2, <3>3
  <2> QED
    BY <2>3, <2>4, <2>5
<1>3. CASE PrepareCall
  <2>1. /\ loop_pc = "prepare"
        /\ UNCHANGED <<life, loop_state, poll_sources, dispatch_priority, dispatchable, loop, pos, eventfd, ready, waking>>
    BY <1>3 DEF PrepareCall, lists, cycle
  <2>2. Watched(s)
    BY <2>1 DEF Watched
  <2>3. Safe(s)
    BY <1>a, <2>1, <2>2
  <2>4. Woken(s) => Woken(s)'
    BY <2>1 DEF Woken
  <2>5. s \in Polled => s \in Polled'
    BY <2>1, PolledIs
  <2>6. WillDispatch => WillDispatch'
    BY <2>1 DEF WillDispatch
  <2>7. Unprepared(s) => Unprepared(s)'
    BY <2>1 DEF Unprepared
  <2> QED
    BY <2>3, <2>4, <2>5, <2>6, <2>7
<1>4. CASE PrepareDone
  <2>1. /\ loop_pc = "prepared" /\ pos' = pos + 1
        /\ UNCHANGED <<life, poll_sources, dispatchable, loop, eventfd, ready, waking>>
    BY <1>4 DEF PrepareDone, Judge, events
  <2>2. Watched(s)
    BY <2>1 DEF Watched
  <2>3. Safe(s)
    BY <1>a, <2>1, <2>2
  <2>4. Woken(s) => Woken(s)'
    BY <2>1 DEF Woken
  <2>5. ASSUME WillDispatch PROVE WillDispatch'
    <3>1. PICK l \in Loops : IF l < loop THEN dispatchable[l] ELSE dispatch_priority[l] > UNDEFINED_PRIORITY
      BY <2>5 DEF WillDispatch
    <3>2. dispatch_priority[l] \in 0..999 /\ dispatch_priority'[l] \in 0..999
      <4>1. dispatch_priority \in [Loops -> 0..999] /\ dispatch_priority' \in [Loops -> 0..999]
        BY NextType DEF LoopTypeOK
      <4> QED
        BY <4>1
    <3>3. dispatch_priority[l] <= dispatch_priority'[l]
      BY <1>4, JudgeFacts
    <3>4. dispatch_priority[l] > 0 => dispatch_priority'[l] > 0
      <4> DEFINE a == dispatch_priority[l]
                 b == dispatch_priority'[l]
      <4>1. a \in 0..999 /\ b \in 0..999 /\ a <= b
        BY <3>2, <3>3, Zenon
      <4> HIDE DEF a, b
      <4>2. a > 0 => b > 0
        BY <4>1
      <4> QED
        BY <4>2 DEF a, b
    <3>5. IF l < loop' THEN dispatchable'[l] ELSE dispatch_priority'[l] > UNDEFINED_PRIORITY
      BY <2>1, <3>1, <3>4 DEF UNDEFINED_PRIORITY
    <3> QED
      BY <3>5 DEF WillDispatch
  <2>6. CASE s = Source
    <3>1. Undestroyed(Source)
      BY <2>2, <2>6 DEF Watched, Undestroyed
    <3>2. CASE verdict
      <4>1. dispatch_priority'[loop] > 0 /\ ~(loop < loop)
        BY <1>4, <1>c, <3>1, <3>2, JudgeFacts
      <4>2. WillDispatch'
        BY <1>c, <2>1, <4>1 DEF WillDispatch, UNDEFINED_PRIORITY
      <4> QED
        BY <4>2
    <3>3. CASE ~verdict /\ s \notin Fds
      <4>1. Woken(s)
        BY <2>1, <2>2, <2>6, <3>3 DEF VerdictInv, Watched, Woken
      <4> QED
        BY <2>4, <4>1
    <3>4. CASE ~verdict /\ s \in Fds
      <4>1. loop_state'[s] = "PREPARED" /\ s \in Range(poll_sources'[loop])
        BY <1>4, <2>1, <2>6, <3>1, <3>4, JudgeFacts
      <4>2. s \in Polled'
        BY <1>c, <3>4, <4>1, PolledIs
      <4> QED
        BY <4>2
    <3> QED
      BY <3>2, <3>3, <3>4
  <2>7. CASE s # Source
    <3>1. ASSUME Unprepared(s) PROVE Unprepared(s)'
      <4>1. PICK l \in Loops : \E i \in DOMAIN poll_sources[l] :
                                 poll_sources[l][i] = s /\ (l > loop \/ (l = loop /\ i >= pos))
        BY <3>1 DEF Unprepared
      <4>2. PICK i \in DOMAIN poll_sources[l] : poll_sources[l][i] = s /\ (l > loop \/ (l = loop /\ i >= pos))
        BY <4>1
      <4>3. i \in Nat
        BY <1>b, <4>2
      <4>4. ~(l = loop /\ i = pos)
        BY <2>7, <4>2 DEF Source
      <4>5. l > loop' \/ (l = loop' /\ i >= pos')
        BY <1>b, <1>c, <2>1, <4>2, <4>3, <4>4
      <4> QED
        BY <2>1, <4>2, <4>5 DEF Unprepared
    <3>2. s \in Polled => s \in Polled'
      <4>1. loop_state'[s] = loop_state[s]
        BY <1>4, <2>7, JudgeFacts
      <4> QED
        BY <2>1, <4>1, PolledIs
    <3> QED
      BY <2>3, <2>4, <2>5, <3>1, <3>2
  <2> QED
    BY <2>6, <2>7
<1>5. CASE LoopDone("prepare", "poll") /\ MoreLoops
  <2>1. loop_pc = "prepare" /\ UNCHANGED <<life, ready, loop_state, poll_sources, eventfd, waking>>
    BY <1>5, PrepareLoopDone DEF LoopDone
  <2>2. Safe(s)
    BY <1>a, <2>1 DEF Watched
  <2>3. Woken(s) => Woken(s)'
    BY <2>1 DEF Woken
  <2>4. s \in Polled => s \in Polled'
    BY <2>1, PolledIs
  <2>5. (WillDispatch => WillDispatch') /\ (Unprepared(s) => Unprepared(s)')
    BY <1>5, PrepareLoopDone
  <2> QED
    BY <2>2, <2>3, <2>4, <2>5
<1>6. CASE Other \/ UNCHANGED loopVars
  <2>1. UNCHANGED <<poll_sources, dispatch_priority, dispatchable, loop_pc, loop, pos>>
    BY <1>6, OtherFacts DEF loopVars, cycle, place
  <2>2. (Woken(s) => Woken(s)') /\ (Woken(s)' \/ (Watched(s) /\ loop_state'[s] = loop_state[s]))
    <3>1. CASE Other
      BY <3>1, OtherFacts
    <3>2. CASE UNCHANGED loopVars
      BY <3>2 DEF loopVars, lists, events, Woken, Watched
    <3> QED
      BY <1>6, <3>1, <3>2
  <2>3. CASE Watched(s) /\ loop_state'[s] = loop_state[s]
    <3>1. Safe(s)
      BY <1>a, <2>1, <2>3
    <3>2. s \in Polled => s \in Polled'
      BY <2>1, <2>3, PolledIs
    <3>3. WillDispatch => WillDispatch'
      BY <2>1 DEF WillDispatch
    <3>4. Unprepared(s) => Unprepared(s)'
      BY <2>1 DEF Unprepared
    <3> QED
      BY <2>2, <3>1, <3>2, <3>3, <3>4
  <2> QED
    BY <2>2, <2>3
<1> QED
  BY <1>1, <1>2, <1>3, <1>4, <1>5, <1>6, PhaseCases

\* So nothing is missed when all are prepared.
LEMMA NextPoll ==
  LoopTypeOK /\ PlaceInv /\ PrepareInv /\ PollInv /\ [LoopNext]_loopVars => PollInv'
<1> DEFINE Safe(s) == Woken(s) \/ AnyDispatchable \/ s \in Polled
<1> SUFFICES ASSUME LoopTypeOK, PlaceInv, PrepareInv, PollInv, [LoopNext]_loopVars,
                    loop_pc' = "poll", NEW s \in Sources, Watched(s)'
             PROVE  Safe(s)'
  BY DEF PollInv
<1>1. CASE LoopDone("prepare", "poll") /\ ~MoreLoops
  <2>1. loop_pc = "prepare" /\ UNCHANGED <<life, ready, loop_state, poll_sources, eventfd, waking>>
    BY <1>1, PrepareLoopDone DEF LoopDone
  <2>2. Woken(s) \/ WillDispatch \/ Unprepared(s) \/ s \in Polled
    BY <2>1 DEF PrepareInv, Watched
  <2>3. Woken(s) => Woken(s)'
    BY <2>1 DEF Woken
  <2>4. s \in Polled => s \in Polled'
    BY <2>1, PolledIs
  <2>5. (WillDispatch => AnyDispatchable') /\ ~Unprepared(s)
    BY <1>1, PrepareLoopDone
  <2> QED
    BY <2>2, <2>3, <2>4, <2>5
<1>2. CASE Other \/ UNCHANGED loopVars
  <2>1. UNCHANGED <<poll_sources, dispatchable, loop_pc>>
    BY <1>2, OtherFacts DEF loopVars, cycle, place
  <2>2. (Woken(s) => Woken(s)') /\ (Woken(s)' \/ (Watched(s) /\ loop_state'[s] = loop_state[s]))
    <3>1. CASE Other
      BY <3>1, OtherFacts
    <3>2. CASE UNCHANGED loopVars
      BY <3>2 DEF loopVars, lists, events, Woken, Watched
    <3> QED
      BY <1>2, <3>1, <3>2
  <2>3. CASE Watched(s) /\ loop_state'[s] = loop_state[s]
    <3>1. Safe(s)
      BY <2>1, <2>3 DEF PollInv
    <3>2. s \in Polled => s \in Polled'
      BY <2>1, <2>3, PolledIs
    <3>3. AnyDispatchable => AnyDispatchable'
      BY <2>1 DEF AnyDispatchable
    <3> QED
      BY <2>2, <3>1, <3>2, <3>3
  <2> QED
    BY <2>2, <2>3
<1> QED
  BY <1>1, <1>2, PhaseCases

LEMMA LoopNextInv == LoopInv /\ [LoopNext]_loopVars => LoopInv'
  BY NextType, NextList, NextRaised, NextVerdict, NextPrepare, NextPoll DEF LoopInv

-----------------------------------------------------------------------------
(* The theorems                                                             *)

\* Any loop comes up in the round-robin search.
LEMMA NthReaches ==
  ASSUME LoopTypeOK, NEW l \in Loops
  PROVE  \E n \in 0..NLoops-1 : Nth(n) = l
<1>1. NLoops \in Nat /\ NLoops > 0 /\ l \in 1..NLoops /\ rr_index \in 0..NLoops-1
  BY MainLoopAssumption DEF LoopTypeOK, Loops
<1>2. \A k \in 0..NLoops-1 : k % NLoops = k /\ (k + NLoops) % NLoops = k
  BY <1>1
<1>3. CASE rr_index <= l-1
  <2> DEFINE n == l-1-rr_index
             k == l-1
  <2>1. n \in 0..NLoops-1 /\ rr_index + n = k /\ k \in 0..NLoops-1 /\ k + 1 = l
    BY <1>1, <1>3
  <2> HIDE DEF n, k
  <2>2. (rr_index + n) % NLoops = k
    BY <1>2, <2>1
  <2> QED
    BY <2>1, <2>2 DEF Nth
<1>4. CASE rr_index > l-1
  <2> DEFINE n == l-1-rr_index+NLoops
             k == l-1
  <2>1. n \in 0..NLoops-1 /\ rr_index + n = k + NLoops /\ k \in 0..NLoops-1 /\ k + 1 = l
    BY <1>1, <1>4
  <2> HIDE DEF n, k
  <2>2. (rr_index + n) % NLoops = k
    BY <1>2, <2>1
  <2> QED
    BY <2>1, <2>2 DEF Nth
<1> QED
  BY <1>1, <1>3, <1>4

LEMMA SearchFinds == LoopTypeOK => SearchEnds
<1> SUFFICES ASSUME LoopTypeOK, AnyDispatchable PROVE \E n \in 0..NLoops-1 : Qualified(Nth(n))
  BY DEF SearchEnds
<1> DEFINE D == {l \in Loops : dispatchable[l]}
           P == {dispatch_priority[l] : l \in D}
<1>1. D # {} /\ D \subseteq Loops /\ \A l \in D : dispatchable[l]
  BY DEF AnyDispatchable
<1>2. MaxPriority = CHOOSE p \in P : \A q \in P : q <= p
  BY DEF MaxPriority
<1> HIDE DEF D
<1>3. P # {} /\ (\A l \in D : dispatch_priority[l] \in P) /\ \A p \in P : \E l \in D : p = dispatch_priority[l]
  BY <1>1
<1> HIDE DEF P
<1> DEFINE b == 999
<1>4. P \subseteq Nat /\ b \in Nat /\ \A p \in P : p <= b
  <2>1. ASSUME NEW p \in P PROVE p \in Nat /\ p <= 999
    <3>1. PICK l \in Loops : p = dispatch_priority[l]
      BY <1>1, <1>3
    <3>2. dispatch_priority[l] \in 0..999
      <4>1. dispatch_priority \in [Loops -> 0..999]
        BY DEF LoopTypeOK
      <4> QED
        BY <4>1
    <3> QED
      BY <3>1, <3>2
  <2> QED
    BY <2>1
<1> HIDE DEF b
<1>5. \E p \in P : \A q \in P : q <= p
  BY <1>3, <1>4, GreatestNat
<1>6. MaxPriority \in P /\ \A q \in P : q <= MaxPriority
  BY <1>2, <1>5
<1>7. PICK l \in D : MaxPriority = dispatch_priority[l]
  BY <1>3, <1>6
<1>8. dispatch_priority[l] >= MaxPriority
  <2>1. dispatch_priority[l] \in 0..999
    BY <1>1 DEF LoopTypeOK
  <2> QED
    BY <1>7, <2>1
<1>9. Qualified(l)
  BY <1>1, <1>8 DEF Qualified
<1> QED
  BY <1>1, <1>9, NthReaches

LEMMA LoopAlwaysInv == LoopSpec => []LoopInv
  BY LoopInitInv, LoopNextInv, PTL DEF LoopSpec

(* poll() never blocks while something is pending that nobody will wake it  *)
(* up for, and the search for the next loop always ends.                    *)
THEOREM LoopAlwaysSound == LoopSpec => []LoopSound
<1>1. LoopInv => PollMissesNothing
  BY DEF LoopInv, PollInv, PollMissesNothing, Watched, Woken
<1>2. LoopInv => LoopSound
  BY <1>1, SearchFinds DEF LoopInv, LoopSound
<1> QED
  BY <1>2, LoopAlwaysInv, PTL

(* Sources of a loop are dispatched by priority, and no callback of a       *)
(* removed source is called.                                                *)
THEOREM DispatchAlwaysSound == LoopSpec => DispatchSound
<1>1. ASSUME LoopInv, [LoopNext]_loopVars, loop_pc = "pick", loop_pc' = "dispatch"
      PROVE  \A s \in Range(poll_sources[loop']) :
               loop_state[s] = "NEEDS_DISPATCH" => Priority[s] <= Priority[poll_sources[loop'][pos']]
  <2>1. PICK n \in 0..NLoops-1 : Pick(n)
    <3>1. /\ ~Start /\ ~Collect /\ ~Skip("prepare") /\ ~Skip("check") /\ ~PrepareCall /\ ~PrepareDone
          /\ ~LoopDone("prepare", "poll") /\ ~LoopDone("check", "pick") /\ ~Poll /\ ~PollTimeout /\ ~Flush
          /\ ~CheckCall /\ ~CheckDone /\ ~PickNone /\ ~Cleanup /\ ~Quit
          /\ \A keep_alive \in BOOLEAN : ~DispatchDone(keep_alive)
      BY <1>1 DEF Start, Collect, Skip, PrepareCall, PrepareDone, LoopDone, Poll, PollTimeout, Flush,
                  CheckCall, CheckDone, PickNone, Cleanup, Quit, DispatchDone, Unlocked
    <3>2. \A s \in Sources : ~Add(s) /\ ~TryRemove(s) /\ ~Trigger(s) /\ ~Wakeup(s)
      BY <1>1 DEF Add, TryRemove, Trigger, Wakeup, Unlocked, place
    <3>3. ~UNCHANGED loopVars
      BY <1>1 DEF loopVars, place
    <3> QED
      BY <1>1, <3>1, <3>2, <3>3, LoopCases
  <2> DEFINE l == Nth(n)
  <2>2. l \in Loops
    BY <1>1, <2>1, NthLoop DEF LoopInv
  <2>3. PICK i \in DOMAIN poll_sources[l] : Picked(l, poll_sources[l][i]) /\ loop' = l /\ pos' = i
    BY <1>1, <2>1 DEF Pick
  <2> HIDE DEF l
  <2>4. Priority[poll_sources[loop'][pos']] = dispatch_priority[l]
    BY <2>3 DEF Picked
  <2>5. \A s \in Range(poll_sources[l]) : loop_state[s] = "NEEDS_DISPATCH" => Priority[s] <= dispatch_priority[l]
    BY <1>1, <2>2 DEF LoopInv, RaisedInv
  <2> QED
    BY <2>3, <2>4, <2>5
<1>2. ASSUME LoopInv, [LoopNext]_loopVars, loop_pc' \in {"prepared", "checked", "dispatch"}, loop_pc # loop_pc'
      PROVE  life[poll_sources[loop'][pos']] = "member"
  <2>1. ASSUME PrepareCall \/ CheckCall PROVE life[poll_sources[loop'][pos']] = "member"
    BY <2>1 DEF PrepareCall, CheckCall, Undestroyed, Source, cycle
  <2>2. ASSUME NEW n \in 0..NLoops-1, Pick(n) PROVE life[poll_sources[loop'][pos']] = "member"
    <3> DEFINE l == Nth(n)
    <3>1. PICK i \in DOMAIN poll_sources[l] : Picked(l, poll_sources[l][i]) /\ loop' = l /\ pos' = i
      BY <1>2, <2>2 DEF Pick
    <3> HIDE DEF l
    <3> QED
      BY <3>1 DEF Picked, Undestroyed
  <2>3. /\ ~Start /\ ~Collect /\ ~Skip("prepare") /\ ~Skip("check") /\ ~PrepareDone
        /\ ~LoopDone("prepare", "poll") /\ ~LoopDone("check", "pick") /\ ~Poll /\ ~PollTimeout /\ ~Flush
        /\ ~CheckDone /\ ~PickNone /\ ~Cleanup /\ ~Quit
        /\ \A keep_alive \in BOOLEAN : ~DispatchDone(keep_alive)
    BY <1>2 DEF Start, Collect, Skip, PrepareDone, Judge, LoopDone, Poll, PollTimeout, Flush,
                CheckDone, PickNone, Cleanup, Quit, DispatchDone, place
  <2>4. \A s \in Sources : ~Add(s) /\ ~TryRemove(s) /\ ~Trigger(s) /\ ~Wakeup(s)
    BY <1>2 DEF Add, TryRemove, Trigger, Wakeup, place
  <2>5. ~UNCHANGED loopVars
    BY <1>2 DEF loopVars, place
  <2> QED
    BY <1>2, <2>1, <2>2, <2>3, <2>4, <2>5, LoopCases
<1>3. LoopSpec => PriorityOrder
  <2>1. LoopInv /\ [LoopNext]_loopVars =>
          [loop_pc = "pick" /\ loop_pc' = "dispatch" =>
             \A s \in Range(poll_sources[loop']) :
               loop_state[s] = "NEEDS_DISPATCH" =>
                 Priority[s] <= Priority[poll_sources[loop'][pos']]]_loopVars
    BY <1>1
  <2> QED
    BY <2>1, LoopAlwaysInv, PTL DEF LoopSpec, PriorityOrder
<1>4. LoopSpec => RemovedNotCalled
  <2>1. LoopInv /\ [LoopNext]_loopVars =>
          [loop_pc' \in {"prepared", "checked", "dispatch"} /\ loop_pc # loop_pc' =>
             life[poll_sources[loop'][pos']] = "member"]_loopVars
    BY <1>2
  <2> QED
    BY <2>1, LoopAlwaysInv, PTL DEF LoopSpec, RemovedNotCalled
<1> QED
  BY <1>3, <1>4 DEF DispatchSound
=============================================================================
