---------------------------- MODULE Stacks_proofs ----------------------------
(***************************************************************************)
(* Theorems about AtomicIntrusiveStack and MpmcStack, for any number of    *)
(* threads and nodes: both implement AbstractStack and lose no node.       *)
(***************************************************************************)
EXTENDS MCThreads, NatLemmas, FiniteSetTheorems, TLAPS

-----------------------------------------------------------------------------
(* Linked lists                                                            *)

\* The links `nx' of the nodes `s' lead from pointer `p' to pointer `q'.
Leads(N, nx, p, s, q) ==
  /\ s \in Seq(N) /\ IsInjective(s)
  /\ s = <<>> => p = q
  /\ s # <<>> => s[1] = p /\ nx[s[Len(s)]] = q
  /\ \A i \in 1..Len(s) - 1 : nx[s[i]] = s[i + 1]

LEMMA SeqFacts ==
  ASSUME NEW N, NEW s \in Seq(N)
  PROVE  /\ Len(s) \in Nat /\ DOMAIN s = 1..Len(s)
         /\ Range(s) \subseteq N /\ \A i \in 1..Len(s) : s[i] \in N /\ s[i] \in Range(s)
         /\ s = <<>> <=> Len(s) = 0
         /\ s = <<>> <=> Range(s) = {}
         /\ \A x \in Range(s) : \E i \in 1..Len(s) : s[i] = x
<1>1. Len(s) \in Nat /\ DOMAIN s = 1..Len(s) /\ (s = <<>> <=> Len(s) = 0)
  OBVIOUS
<1>2. \A i \in 1..Len(s) : s[i] \in N
  OBVIOUS
<1>3. Range(s) = {s[i] : i \in 1..Len(s)}
  BY <1>1 DEF Range
<1>4. Len(s) # 0 => 1 \in 1..Len(s)
  BY <1>1
<1> QED
  BY <1>1, <1>2, <1>3, <1>4

\* What Leads says, place by place.
LEMMA LeadsFacts ==
  ASSUME NEW N, NEW nx, NEW p, NEW s, NEW q, Leads(N, nx, p, s, q)
  PROVE  /\ s \in Seq(N) /\ Len(s) \in Nat /\ Range(s) \subseteq N
         /\ \A i, j \in 1..Len(s) : s[i] = s[j] => i = j
         /\ Len(s) = 0 => p = q
         /\ Len(s) > 0 => /\ s[1] = p /\ p \in Range(s) /\ p \in N
                          /\ s[Len(s)] \in Range(s) /\ nx[s[Len(s)]] = q
         /\ \A i \in 1..Len(s) - 1 : nx[s[i]] = s[i + 1]
         /\ s = <<>> <=> Len(s) = 0
<1>1. s \in Seq(N)
  BY DEF Leads
<1>2. \A i, j \in 1..Len(s) : s[i] = s[j] => i = j
  BY <1>1, SeqFacts DEF Leads, IsInjective
<1>3. Len(s) > 0 => 1 \in 1..Len(s) /\ Len(s) \in 1..Len(s) /\ s # <<>>
  BY <1>1, SeqFacts
<1> QED
  BY <1>1, <1>2, <1>3, SeqFacts DEF Leads

LEMMA LeadsEmpty ==
  ASSUME NEW N, NEW nx, NEW p
  PROVE  Leads(N, nx, p, <<>>, p)
  BY DEF Leads, IsInjective

\* A list stays as it is when only other nodes are linked anew.
LEMMA LeadsFrame ==
  ASSUME NEW N, NEW nx, NEW ny, NEW p, NEW s, NEW q, Leads(N, nx, p, s, q),
         \A n \in Range(s) : ny[n] = nx[n]
  PROVE  Leads(N, ny, p, s, q)
<1>1. s \in Seq(N)
  BY DEF Leads
<1>2. \A i \in 1..Len(s) : ny[s[i]] = nx[s[i]]
  BY <1>1, SeqFacts
<1>3. /\ \A i \in 1..Len(s) - 1 : i \in 1..Len(s)
      /\ s # <<>> => Len(s) \in 1..Len(s)
  BY <1>1, SeqFacts
<1> QED
  BY <1>2, <1>3 DEF Leads

LEMMA SeqConcat ==
  ASSUME NEW N, NEW s \in Seq(N), NEW u \in Seq(N)
  PROVE  /\ s \o u \in Seq(N) /\ Len(s \o u) = Len(s) + Len(u)
         /\ \A i \in 1..Len(s) : (s \o u)[i] = s[i]
         /\ \A i \in 1..Len(u) : (s \o u)[Len(s) + i] = u[i]
         /\ Range(s \o u) = Range(s) \cup Range(u)
<1>1. /\ s \o u \in Seq(N) /\ Len(s \o u) = Len(s) + Len(u)
      /\ \A i \in 1..Len(s) : (s \o u)[i] = s[i]
      /\ Len(s) \in Nat /\ Len(u) \in Nat
  OBVIOUS
<1>2. ASSUME NEW i \in 1..Len(u) PROVE (s \o u)[Len(s) + i] = u[i]
  BY <1>1
<1>3. \A i \in 1..Len(s) + Len(u) :
         i \in 1..Len(s) \/ \E j \in 1..Len(u) : i = Len(s) + j
  <2> SUFFICES ASSUME NEW i \in 1..Len(s) + Len(u), i \notin 1..Len(s)
               PROVE  \E j \in 1..Len(u) : i = Len(s) + j
    OBVIOUS
  <2>1. i - Len(s) \in 1..Len(u) /\ i = Len(s) + (i - Len(s))
    BY <1>1
  <2> QED
    BY <2>1
<1>4. /\ \A i \in 1..Len(s) : i \in 1..Len(s) + Len(u)
      /\ \A j \in 1..Len(u) : Len(s) + j \in 1..Len(s) + Len(u)
  BY <1>1
<1>5. ASSUME NEW x \in Range(s \o u) PROVE x \in Range(s) \cup Range(u)
  <2>1. PICK i \in 1..Len(s) + Len(u) : (s \o u)[i] = x
    BY <1>1, SeqFacts
  <2> QED
    BY <1>1, <1>2, <1>3, <2>1, SeqFacts
<1>a. \A i \in 1..Len(s) + Len(u) : (s \o u)[i] \in Range(s \o u)
  BY <1>1, SeqFacts
<1>6. ASSUME NEW x \in Range(s) PROVE x \in Range(s \o u)
  <2>1. PICK i \in 1..Len(s) : s[i] = x
    BY SeqFacts
  <2> QED
    BY <1>1, <1>4, <1>a, <2>1
<1>7. ASSUME NEW x \in Range(u) PROVE x \in Range(s \o u)
  <2>1. PICK i \in 1..Len(u) : u[i] = x
    BY SeqFacts
  <2> QED
    BY <1>2, <1>4, <1>a, <2>1
<1> QED
  BY <1>1, <1>2, <1>5, <1>6, <1>7

\* Two lists without common nodes, the first leading to the second.
LEMMA LeadsConcat ==
  ASSUME NEW N, NEW nx, NEW p, NEW s, NEW q, NEW u, NEW r,
         Leads(N, nx, p, s, q), Leads(N, nx, q, u, r), Range(s) \cap Range(u) = {}
  PROVE  Leads(N, nx, p, s \o u, r)
<1> DEFINE w == s \o u
<1>1. s \in Seq(N) /\ u \in Seq(N)
  BY DEF Leads
<1>2. Len(s) \in Nat /\ Len(u) \in Nat
  BY <1>1
<1>3. /\ w \in Seq(N) /\ Len(w) = Len(s) + Len(u)
      /\ \A i \in 1..Len(s) : w[i] = s[i]
      /\ \A i \in 1..Len(u) : w[Len(s) + i] = u[i]
  BY <1>1, SeqConcat
<1> HIDE DEF w
<1>s. /\ \A i, j \in 1..Len(s) : s[i] = s[j] => i = j
      /\ Len(s) = 0 => p = q
      /\ Len(s) > 0 => s[1] = p /\ nx[s[Len(s)]] = q
      /\ \A i \in 1..Len(s) - 1 : nx[s[i]] = s[i + 1]
      /\ \A i \in 1..Len(s) : s[i] \in Range(s)
  BY <1>1, LeadsFacts, SeqFacts
<1>u. /\ \A i, j \in 1..Len(u) : u[i] = u[j] => i = j
      /\ Len(u) = 0 => q = r
      /\ Len(u) > 0 => u[1] = q /\ nx[u[Len(u)]] = r
      /\ \A i \in 1..Len(u) - 1 : nx[u[i]] = u[i + 1]
      /\ \A i \in 1..Len(u) : u[i] \in Range(u)
  BY <1>1, LeadsFacts, SeqFacts
<1>4. ASSUME NEW i \in 1..Len(w) PROVE i \in 1..Len(s) \/ (i - Len(s) \in 1..Len(u) /\ w[i] = u[i - Len(s)])
  <2>1. i \in 1..Len(s) \/ (i - Len(s) \in 1..Len(u) /\ i = Len(s) + (i - Len(s)))
    BY <1>2, <1>3
  <2> QED
    BY <1>3, <2>1
<1>5. ASSUME NEW i \in 1..Len(w), NEW j \in 1..Len(w), w[i] = w[j] PROVE i = j
  <2>1. i \in Nat /\ j \in Nat
    BY <1>2, <1>3
  <2>2. CASE i \in 1..Len(s) /\ j \in 1..Len(s)
    BY <1>3, <1>5, <1>s, <2>2
  <2>3. CASE i \in 1..Len(s) /\ j \notin 1..Len(s)
    BY <1>3, <1>4, <1>5, <1>s, <1>u, <2>3
  <2>4. CASE i \notin 1..Len(s) /\ j \in 1..Len(s)
    BY <1>3, <1>4, <1>5, <1>s, <1>u, <2>4
  <2>5. CASE i \notin 1..Len(s) /\ j \notin 1..Len(s)
    <3>1. /\ i - Len(s) \in 1..Len(u) /\ w[i] = u[i - Len(s)]
          /\ j - Len(s) \in 1..Len(u) /\ w[j] = u[j - Len(s)]
      BY <1>4, <2>5
    <3>2. i - Len(s) = j - Len(s)
      BY <1>5, <1>u, <3>1
    <3> QED
      BY <1>2, <2>1, <3>2
  <2> QED
    BY <2>2, <2>3, <2>4, <2>5
<1>6. IsInjective(w)
  BY <1>3, <1>5, SeqFacts DEF IsInjective
<1>7. w = <<>> => p = r
  BY <1>2, <1>3, <1>s, <1>u, SeqFacts
<1>8. ASSUME w # <<>> PROVE w[1] = p /\ nx[w[Len(w)]] = r
  <2>1. Len(w) # 0
    BY <1>3, <1>8, SeqFacts
  <2>2. CASE Len(s) = 0
    <3>1. Len(u) > 0 /\ 1 \in 1..Len(u) /\ Len(u) \in 1..Len(u) /\ Len(w) = Len(u)
      BY <1>2, <1>3, <2>1, <2>2
    <3>2. w[Len(s) + 1] = u[1] /\ w[Len(s) + Len(u)] = u[Len(u)] /\ Len(s) + 1 = 1
      BY <1>2, <1>3, <2>2, <3>1
    <3> QED
      BY <1>3, <1>s, <1>u, <2>2, <3>1, <3>2
  <2>3. CASE Len(s) # 0 /\ Len(u) = 0
    <3>1. Len(s) > 0 /\ 1 \in 1..Len(s) /\ Len(s) \in 1..Len(s) /\ Len(w) = Len(s)
      BY <1>2, <1>3, <2>3
    <3> QED
      BY <1>3, <1>s, <1>u, <2>3, <3>1
  <2>4. CASE Len(s) # 0 /\ Len(u) # 0
    <3>1. Len(s) > 0 /\ 1 \in 1..Len(s) /\ Len(u) > 0 /\ Len(u) \in 1..Len(u)
      BY <1>2, <2>4
    <3> QED
      BY <1>3, <1>s, <1>u, <3>1
  <2> QED
    BY <2>2, <2>3, <2>4
<1>9. ASSUME NEW i \in 1..Len(w) - 1 PROVE nx[w[i]] = w[i + 1]
  <2>1. i \in Nat
    BY <1>2, <1>3
  <2>2. CASE i \in 1..Len(s) - 1
    <3>1. i \in 1..Len(s) /\ i + 1 \in 1..Len(s)
      BY <1>2, <2>2
    <3> QED
      BY <1>3, <1>s, <2>2, <3>1
  <2>3. CASE i = Len(s)
    <3>1. Len(s) > 0 /\ Len(u) > 0 /\ 1 \in 1..Len(u) /\ i \in 1..Len(s)
      BY <1>2, <1>3, <2>3
    <3> QED
      BY <1>3, <1>s, <1>u, <2>3, <3>1
  <2>4. CASE i > Len(s)
    <3> DEFINE k == i - Len(s)
    <3>1. k \in 1..Len(u) - 1 /\ k \in 1..Len(u) /\ k + 1 \in 1..Len(u) /\ i = Len(s) + k /\ i + 1 = Len(s) + (k + 1)
      BY <1>2, <1>3, <2>4
    <3> HIDE DEF k
    <3>2. w[i] = u[k] /\ w[i + 1] = u[k + 1]
      BY <1>3, <3>1
    <3> QED
      BY <1>u, <3>1, <3>2
  <2> QED
    BY <1>2, <1>3, <2>1, <2>2, <2>3, <2>4
<1>10. Leads(N, nx, p, w, r)
  BY <1>3, <1>6, <1>7, <1>8, <1>9 DEF Leads
<1> QED
  BY <1>10 DEF w

\* A list of one node.
LEMMA LeadsOne ==
  ASSUME NEW N, NEW nx, NEW n \in N
  PROVE  Leads(N, nx, n, <<n>>, nx[n]) /\ Range(<<n>>) = {n}
<1>1. <<n>> \in Seq(N) /\ Len(<<n>>) = 1 /\ <<n>>[1] = n /\ DOMAIN <<n>> = {1} /\ <<n>> # <<>>
  OBVIOUS
<1> QED
  BY <1>1 DEF Leads, IsInjective, Range

\* A list is its first node and a list from the link of that.
LEMMA LeadsTail ==
  ASSUME NEW N, NEW nx, NEW p, NEW s, NEW q, Leads(N, nx, p, s, q), s # <<>>
  PROVE  /\ Head(s) = p /\ Leads(N, nx, nx[p], Tail(s), q)
         /\ p \in N /\ p \notin Range(Tail(s)) /\ Range(s) = {p} \cup Range(Tail(s))
<1> DEFINE u == Tail(s)
<1>1. s \in Seq(N)
  BY DEF Leads
<1>2. Len(s) \in Nat /\ Len(s) > 0 /\ Head(s) = s[1] /\ 1 \in 1..Len(s)
  BY <1>1
<1>3. u \in Seq(N) /\ Len(u) = Len(s) - 1 /\ \A i \in 1..Len(s) - 1 : u[i] = s[i + 1]
  BY <1>1
<1> HIDE DEF u
<1>4. /\ \A i, j \in 1..Len(s) : s[i] = s[j] => i = j
      /\ s[1] = p /\ nx[s[Len(s)]] = q /\ p \in N
      /\ \A i \in 1..Len(s) - 1 : nx[s[i]] = s[i + 1]
  BY <1>2, LeadsFacts
<1>5. ASSUME NEW i \in 1..Len(u) PROVE i + 1 \in 1..Len(s) /\ u[i] = s[i + 1] /\ i + 1 # 1
  BY <1>2, <1>3
<1>6. ASSUME NEW i \in 1..Len(u), NEW j \in 1..Len(u), u[i] = u[j] PROVE i = j
  <2>1. i + 1 = j + 1
    BY <1>4, <1>5, <1>6
  <2> QED
    BY <2>1
<1>7. IsInjective(u)
  BY <1>3, <1>6, SeqFacts DEF IsInjective
<1>8. ASSUME u = <<>> PROVE nx[p] = q
  <2>1. Len(s) = 1
    BY <1>2, <1>3, <1>8, SeqFacts
  <2> QED
    BY <1>4, <2>1
<1>9. ASSUME u # <<>> PROVE u[1] = nx[p] /\ nx[u[Len(u)]] = q
  <2>1. Len(u) > 0 /\ 1 \in 1..Len(s) - 1 /\ Len(u) \in 1..Len(s) - 1 /\ Len(u) + 1 = Len(s) /\ 1 + 1 = 2
    BY <1>2, <1>3, <1>9, SeqFacts
  <2>2. u[1] = s[1 + 1] /\ u[Len(u)] = s[Len(u) + 1]
    BY <1>3, <2>1
  <2> QED
    BY <1>4, <2>1, <2>2
<1>10. ASSUME NEW i \in 1..Len(u) - 1 PROVE nx[u[i]] = u[i + 1]
  <2>1. i \in 1..Len(s) - 1 /\ i + 1 \in 1..Len(s) - 1
    BY <1>2, <1>3
  <2> QED
    BY <1>3, <1>4, <2>1
<1>11. Leads(N, nx, nx[p], u, q)
  BY <1>3, <1>7, <1>8, <1>9, <1>10 DEF Leads
<1>12. p \notin Range(u)
  <2> SUFFICES ASSUME NEW i \in 1..Len(u) PROVE u[i] # p
    BY <1>3, SeqFacts
  <2> QED
    BY <1>2, <1>4, <1>5
<1>13. Range(s) = {p} \cup Range(u)
  <2>1. ASSUME NEW x \in Range(s) PROVE x \in {p} \cup Range(u)
    <3>1. PICK i \in 1..Len(s) : s[i] = x
      BY <1>1, SeqFacts
    <3>2. CASE i = 1
      BY <1>4, <3>1, <3>2
    <3>3. CASE i # 1
      <4>1. i - 1 \in 1..Len(s) - 1 /\ i - 1 \in 1..Len(u) /\ (i - 1) + 1 = i
        BY <1>2, <1>3, <3>3
      <4>2. u[i - 1] = x
        BY <1>3, <3>1, <4>1
      <4> QED
        BY <1>3, <4>1, <4>2, SeqFacts
    <3> QED
      BY <3>2, <3>3
  <2>2. p \in Range(s)
    BY <1>1, <1>2, <1>4, SeqFacts
  <2>3. ASSUME NEW x \in Range(u) PROVE x \in Range(s)
    <3>1. PICK i \in 1..Len(u) : u[i] = x
      BY <1>3, SeqFacts
    <3> QED
      BY <1>1, <1>5, <3>1, SeqFacts
  <2> QED
    BY <2>1, <2>2, <2>3
<1> QED
  BY <1>2, <1>4, <1>11, <1>12, <1>13 DEF u

\* Linking the last node of a list anew.
LEMMA LeadsLink ==
  ASSUME NEW N, NEW P, NEW nx \in [N -> P], NEW p, NEW s, NEW q, NEW r, Leads(N, nx, p, s, q), s # <<>>
  PROVE  Leads(N, [nx EXCEPT ![s[Len(s)]] = r], p, s, r)
<1> DEFINE ny == [nx EXCEPT ![s[Len(s)]] = r]
<1>1. /\ s \in Seq(N) /\ Len(s) \in Nat /\ Len(s) > 0
      /\ \A i, j \in 1..Len(s) : s[i] = s[j] => i = j
      /\ \A i \in 1..Len(s) : s[i] \in N
  <2>1. s \in Seq(N)
    BY DEF Leads
  <2> QED
    BY <2>1, LeadsFacts, SeqFacts
<1>2. Len(s) \in 1..Len(s) /\ \A i \in 1..Len(s) - 1 : i \in 1..Len(s) /\ i # Len(s)
  BY <1>1
<1>3. ny[s[Len(s)]] = r /\ \A i \in 1..Len(s) - 1 : ny[s[i]] = nx[s[i]]
  BY <1>1, <1>2
<1> HIDE DEF ny
<1>4. Leads(N, ny, p, s, r)
  BY <1>3 DEF Leads
<1> QED
  BY <1>4 DEF ny

-----------------------------------------------------------------------------
(* ListFrom and MpmcListFrom: the functions they follow the links with     *)

\* f[i] is where i links lead from `p'.
Follows(f, N, nx, e, p, K) ==
  /\ f[0] = p
  /\ \A i \in 1..K : f[i] = IF f[i-1] \in N THEN nx[f[i-1]] ELSE e

LEMMA FollowsExists ==
  ASSUME NEW N, NEW P, N \subseteq P, NEW nx \in [N -> P], NEW e \in P, NEW p \in P
  PROVE  \A K \in Nat : \E f \in [0..K -> P] : Follows(f, N, nx, e, p, K)
<1> DEFINE T == {K \in Nat : ~\E f \in [0..K -> P] : Follows(f, N, nx, e, p, K)}
<1> SUFFICES ASSUME T # {} PROVE FALSE
  OBVIOUS
<1>1. PICK k \in T : \A m \in T : k <= m
  BY LeastNat
<1>2. k \in Nat /\ ~\E f \in [0..k -> P] : Follows(f, N, nx, e, p, k)
  OBVIOUS
<1>3. CASE k = 0
  <2> DEFINE f == [i \in 0..0 |-> p]
  <2>1. f \in [0..k -> P] /\ Follows(f, N, nx, e, p, k)
    BY <1>3 DEF Follows
  <2> QED
    BY <1>2, <2>1
<1>4. CASE k # 0
  <2>1. k - 1 \in Nat /\ ~ (k <= k - 1) /\ k - 1 \in 0..k-1
    BY <1>2, <1>4
  <2>2. k - 1 \notin T
    BY <1>1, <2>1
  <2>3. PICK f \in [0..k-1 -> P] : Follows(f, N, nx, e, p, k - 1)
    BY <2>1, <2>2
  <2> DEFINE last_ == IF f[k-1] \in N THEN nx[f[k-1]] ELSE e
             g == [i \in 0..k |-> IF i < k THEN f[i] ELSE last_]
  <2>4. last_ \in P
    OBVIOUS
  <2> HIDE DEF T, last_
  <2>5. g \in [0..k -> P]
    <3> SUFFICES ASSUME NEW i \in 0..k PROVE (IF i < k THEN f[i] ELSE last_) \in P
      OBVIOUS
    <3>1. i < k => i \in 0..k-1
      BY <1>2
    <3> QED
      BY <2>4, <3>1
  <2>6. g[k] = last_ /\ \A i \in 0..k-1 : g[i] = f[i]
    <3>1. k \in 0..k /\ ~ (k < k) /\ \A i \in 0..k-1 : i \in 0..k /\ i < k
      BY <1>2
    <3> QED
      BY <3>1
  <2> HIDE DEF g
  <2>7. g[0] = p
    BY <1>2, <1>4, <2>3, <2>6 DEF Follows
  <2>8. ASSUME NEW i \in 1..k-1 PROVE g[i] = IF g[i-1] \in N THEN nx[g[i-1]] ELSE e
    <3>1. i \in 0..k-1 /\ i - 1 \in 0..k-1
      BY <1>2
    <3>2. g[i] = f[i] /\ g[i-1] = f[i-1]
      BY <2>6, <3>1
    <3> QED
      BY <2>3, <3>2 DEF Follows
  <2>9. g[k] = IF g[k-1] \in N THEN nx[g[k-1]] ELSE e
    BY <2>1, <2>6 DEF last_
  <2>10. \A i \in 1..k : i \in 1..k-1 \/ i = k
    BY <1>2
  <2>11. Follows(g, N, nx, e, p, k)
    BY <2>7, <2>8, <2>9, <2>10, Zenon DEF Follows
  <2> QED
    BY <1>2, <2>5, <2>11
<1> QED
  BY <1>3, <1>4

LEMMA LeadsLength ==
  ASSUME NEW N, IsFiniteSet(N), NEW s \in Seq(N), \A i, j \in 1..Len(s) : s[i] = s[j] => i = j
  PROVE  Cardinality(N) \in Nat /\ Len(s) <= Cardinality(N)
<1>1. Len(s) \in Nat /\ 1 \in Int /\ Len(s) \in Int
  OBVIOUS
<1>2. s \in Injection(1..Len(s), N)
  <2>1. s \in [1..Len(s) -> N]
    OBVIOUS
  <2>2. IsInjective(s)
    BY <2>1 DEF IsInjective
  <2> QED
    BY <2>1, <2>2 DEF Injection
<1>3. Cardinality(1..Len(s)) = Len(s)
  <2>1. Cardinality(1..Len(s)) = IF 1 > Len(s) THEN 0 ELSE Len(s)-1+1
    BY <1>1, FS_Interval
  <2> QED
    BY <1>1, <2>1
<1>4. Cardinality(N) \in Nat
  BY FS_CardinalityType
<1> QED
  BY <1>2, <1>3, <1>4, FS_Injection

LEMMA FollowsLeads ==
  ASSUME NEW N, IsFiniteSet(N), NEW nx, NEW e, NEW p, NEW s, NEW q, NEW f,
         Leads(N, nx, p, s, q), Follows(f, N, nx, e, p, Cardinality(N))
  PROVE  /\ Cardinality(N) \in Nat /\ Len(s) <= Cardinality(N)
         /\ \A i \in 1..Len(s) : f[i-1] = s[i]
         /\ f[Len(s)] = q
<1> DEFINE K == Cardinality(N)
           T == {i \in 1..Len(s) : f[i-1] # s[i]}
<1>s. /\ s \in Seq(N) /\ Len(s) \in Nat
      /\ \A i, j \in 1..Len(s) : s[i] = s[j] => i = j
      /\ Len(s) = 0 => p = q
      /\ Len(s) > 0 => s[1] = p /\ nx[s[Len(s)]] = q
      /\ \A i \in 1..Len(s) - 1 : nx[s[i]] = s[i + 1]
      /\ \A i \in 1..Len(s) : s[i] \in N
  <2>1. s \in Seq(N)
    BY DEF Leads
  <2> QED
    BY <2>1, LeadsFacts, SeqFacts
<1>1. K \in Nat /\ Len(s) <= K
  BY <1>s, LeadsLength
<1> HIDE DEF K
<1>2. f[0] = p /\ \A i \in 1..K : f[i] = IF f[i-1] \in N THEN nx[f[i-1]] ELSE e
  BY DEF Follows, K
<1>3. \A i \in 1..Len(s) : f[i-1] = s[i]
  <2> SUFFICES ASSUME T # {} PROVE FALSE
    OBVIOUS
  <2>1. T \subseteq Nat
    BY <1>s
  <2>2. PICK k \in T : \A m \in T : k <= m
    BY <2>1, LeastNat
  <2>3. k \in 1..Len(s) /\ k \in Nat /\ f[k-1] # s[k]
    BY <1>s
  <2>4. CASE k = 1
    BY <1>s, <1>2, <2>3, <2>4
  <2>5. CASE k # 1
    <3> DEFINE j == k - 1
    <3>1. j \in 1..Len(s) - 1 /\ j \in 1..Len(s) /\ j + 1 = k /\ ~ (k <= j) /\ j \in 1..K
      BY <1>s, <1>1, <2>3, <2>5
    <3>2. j \notin T
      BY <2>2, <3>1
    <3> HIDE DEF j
    <3>3. f[j-1] = s[j] /\ s[j] \in N /\ nx[s[j]] = s[k]
      BY <1>s, <3>1, <3>2
    <3>4. f[j] = s[k]
      BY <1>2, <3>1, <3>3
    <3> QED
      BY <2>3, <3>4 DEF j
  <2> QED
    BY <2>4, <2>5
<1>4. f[Len(s)] = q
  <2>1. CASE Len(s) = 0
    BY <1>s, <1>2, <2>1
  <2>2. CASE Len(s) # 0
    <3>1. Len(s) \in 1..K /\ Len(s) \in 1..Len(s) /\ Len(s) > 0
      BY <1>s, <1>1, <2>2
    <3>2. f[Len(s) - 1] = s[Len(s)] /\ s[Len(s)] \in N
      BY <1>s, <1>3, <3>1
    <3> QED
      BY <1>s, <1>2, <3>1, <3>2
  <2> QED
    BY <2>1, <2>2
<1> QED
  BY <1>1, <1>3, <1>4 DEF K

LEMMA FollowsEnd ==
  ASSUME NEW N, IsFiniteSet(N), NEW nx, NEW e, e \notin N, NEW p, NEW s, NEW f,
         Leads(N, nx, p, s, e), Follows(f, N, nx, e, p, Cardinality(N))
  PROVE  Cardinality({n \in 0..Cardinality(N) : f[n] \in N}) = Len(s)
<1> DEFINE K == Cardinality(N)
           T == {n \in 0..K : n >= Len(s) /\ f[n] # e}
<1>s. /\ s \in Seq(N) /\ Len(s) \in Nat /\ \A i \in 1..Len(s) : s[i] \in N
  <2>1. s \in Seq(N)
    BY DEF Leads
  <2> QED
    BY <2>1, SeqFacts
<1>1. /\ K \in Nat /\ Len(s) <= K
      /\ \A i \in 1..Len(s) : f[i-1] = s[i]
      /\ f[Len(s)] = e
  BY FollowsLeads
<1> HIDE DEF K
<1>2. \A i \in 1..K : f[i] = IF f[i-1] \in N THEN nx[f[i-1]] ELSE e
  BY DEF Follows, K
<1>3. T = {}
  <2> SUFFICES ASSUME T # {} PROVE FALSE
    OBVIOUS
  <2>1. T \subseteq Nat
    BY <1>1
  <2>2. PICK k \in T : \A m \in T : k <= m
    BY <2>1, LeastNat
  <2>3. k \in 0..K /\ k \in Nat /\ k >= Len(s) /\ f[k] # e /\ k # Len(s)
    BY <1>1
  <2>4. k - 1 \in 0..K /\ k - 1 >= Len(s) /\ ~ (k <= k - 1) /\ k \in 1..K
    BY <1>s, <1>1, <2>3
  <2>5. k - 1 \notin T
    BY <2>2, <2>4
  <2>6. f[k-1] = e
    BY <2>4, <2>5
  <2> QED
    BY <1>2, <2>3, <2>4, <2>6
<1>4. ASSUME NEW n \in 0..K PROVE f[n] \in N <=> n < Len(s)
  <2>1. CASE n < Len(s)
    <3>1. n + 1 \in 1..Len(s) /\ (n + 1) - 1 = n
      BY <1>s, <1>1, <2>1
    <3> QED
      BY <1>s, <1>1, <2>1, <3>1
  <2>2. CASE ~ (n < Len(s))
    <3>1. n >= Len(s)
      BY <1>s, <1>1, <2>2
    <3> QED
      BY <1>3, <2>2, <3>1
  <2> QED
    BY <2>1, <2>2
<1>5. {n \in 0..K : f[n] \in N} = 0..Len(s) - 1
  <2>1. \A n \in 0..Len(s) - 1 : n \in 0..K /\ n < Len(s)
    BY <1>s, <1>1
  <2>2. \A n \in 0..K : n < Len(s) => n \in 0..Len(s) - 1
    BY <1>s, <1>1
  <2> QED
    BY <1>4, <2>1, <2>2
<1>6. Cardinality(0..Len(s) - 1) = Len(s)
  <2>1. Cardinality(0..Len(s)-1) = IF 0 > Len(s) - 1 THEN 0 ELSE (Len(s) - 1) - 0 + 1
    <3>1. 0 \in Int /\ Len(s) - 1 \in Int
      BY <1>s
    <3> QED
      BY <3>1, FS_Interval
  <2> QED
    BY <1>s, <2>1
<1> QED
  BY <1>5, <1>6 DEF K

\* ListFrom as a function of the links.
Listing(nx, ptr) ==
  LET at[n \in 0..Cardinality(Nodes)] ==
        IF n = 0 THEN ptr ELSE IF at[n-1] = NULL THEN NULL ELSE nx[at[n-1]]
      len == Cardinality({n \in 0..Cardinality(Nodes) : at[n] # NULL})
  IN [i \in 1..len |-> at[i-1]]

LEMMA ListingFollows ==
  ASSUME NEW nx \in [Nodes -> Ptr], NEW p \in Ptr
  PROVE  \E f \in [0..Cardinality(Nodes) -> Ptr] :
           /\ Follows(f, Nodes, nx, NULL, p, Cardinality(Nodes))
           /\ Listing(nx, p) = [i \in 1..Cardinality({n \in 0..Cardinality(Nodes) : f[n] \in Nodes}) |-> f[i-1]]
<1> DEFINE K == Cardinality(Nodes)
           Body(f, n) == IF n = 0 THEN p ELSE IF f[n-1] = NULL THEN NULL ELSE nx[f[n-1]]
           at == CHOOSE f : f = [n \in 0..K |-> Body(f, n)]
<1>a. NULL \notin Nodes /\ IsFiniteSet(Nodes) /\ Nodes \subseteq Ptr /\ NULL \in Ptr
  BY NullAssumption DEF Ptr
<1>b. \A x \in Ptr : x \in Nodes <=> x # NULL
  BY <1>a DEF Ptr
<1>1. K \in Nat
  BY <1>a, FS_CardinalityType
<1>c. Listing(nx, p) = [i \in 1..Cardinality({n \in 0..K : at[n] # NULL}) |-> at[i-1]]
  BY Zenon DEF Listing
<1> HIDE DEF K
<1>2. PICK f \in [0..K -> Ptr] : Follows(f, Nodes, nx, NULL, p, K)
  BY <1>1, <1>a, FollowsExists
<1>3. ASSUME NEW n \in 0..K PROVE f[n] = Body(f, n)
  <2>1. n = 0 \/ (n \in 1..K /\ n # 0 /\ n - 1 \in 0..K)
    BY <1>1
  <2> QED
    BY <1>2, <1>b, <2>1 DEF Follows
<1> HIDE DEF Body
<1>4. f = [n \in 0..K |-> Body(f, n)]
  BY <1>3
<1>5. at = [n \in 0..K |-> Body(at, n)]
  BY <1>4, Zenon
<1> HIDE DEF at
<1>6. \A n \in 0..K : at[n] = Body(at, n)
  BY <1>5
<1>7. at = f
  <2> DEFINE T == {n \in 0..K : at[n] # f[n]}
  <2>1. ASSUME T # {} PROVE FALSE
    <3>1. T \subseteq Nat
      BY <1>1
    <3>2. PICK k \in T : \A m \in T : k <= m
      BY <2>1, <3>1, LeastNat
    <3>3. k \in 0..K /\ at[k] # f[k] /\ k \in Nat
      BY <1>1
    <3>4. CASE k = 0
      BY <1>3, <1>6, <3>3, <3>4 DEF Body
    <3>5. CASE k # 0
      <4>1. k - 1 \in 0..K /\ ~ (k <= k - 1)
        BY <1>1, <3>3, <3>5
      <4>2. at[k-1] = f[k-1]
        BY <3>2, <4>1
      <4> QED
        BY <1>3, <1>6, <3>3, <3>5, <4>2 DEF Body
    <3> QED
      BY <3>4, <3>5
  <2> QED
    BY <1>2, <1>5, <2>1
<1>8. {n \in 0..K : at[n] # NULL} = {n \in 0..K : f[n] \in Nodes}
  BY <1>2, <1>7, <1>b
<1> QED
  BY <1>2, <1>7, <1>8, <1>c DEF K

LEMMA ListingIs ==
  ASSUME NEW nx \in [Nodes -> Ptr], NEW p \in Ptr, NEW s, Leads(Nodes, nx, p, s, NULL)
  PROVE  Listing(nx, p) = s
<1>1. NULL \notin Nodes /\ IsFiniteSet(Nodes)
  BY NullAssumption
<1>2. PICK f : /\ Follows(f, Nodes, nx, NULL, p, Cardinality(Nodes))
               /\ Listing(nx, p) = [i \in 1..Cardinality({n \in 0..Cardinality(Nodes) : f[n] \in Nodes}) |-> f[i-1]]
  BY ListingFollows
<1>3. Cardinality({n \in 0..Cardinality(Nodes) : f[n] \in Nodes}) = Len(s)
  BY <1>1, <1>2, FollowsEnd
<1>4. \A i \in 1..Len(s) : f[i-1] = s[i]
  BY <1>1, <1>2, FollowsLeads
<1>5. s \in Seq(Nodes)
  BY DEF Leads
<1>6. s = [i \in 1..Len(s) |-> s[i]]
  BY <1>5
<1> QED
  BY <1>2, <1>3, <1>4, <1>6

\* The same for MpmcListFrom.
MpmcListing(nx, ptr) ==
  LET at[n \in 0..Cardinality(MpmcNodes)] ==
        IF n = 0 THEN ptr ELSE IF at[n-1] \in MpmcNodes THEN nx[at[n-1]] ELSE TAIL
      len == Cardinality({n \in 0..Cardinality(MpmcNodes) : at[n] \in MpmcNodes})
  IN [i \in 1..len |-> at[i-1]]

LEMMA MpmcListingIs ==
  ASSUME NEW nx \in [MpmcNodes -> MpmcPtr], NEW p \in MpmcPtr, NEW s, Leads(MpmcNodes, nx, p, s, TAIL)
  PROVE  MpmcListing(nx, p) = s
<1> DEFINE K == Cardinality(MpmcNodes)
           Body(f, n) == IF n = 0 THEN p ELSE IF f[n-1] \in MpmcNodes THEN nx[f[n-1]] ELSE TAIL
           at == CHOOSE f : f = [n \in 0..K |-> Body(f, n)]
<1>a. TAIL \notin MpmcNodes /\ IsFiniteSet(MpmcNodes) /\ MpmcNodes \subseteq MpmcPtr /\ TAIL \in MpmcPtr
  BY PtrAssumption DEF MpmcPtr
<1>1. K \in Nat
  BY <1>a, FS_CardinalityType
<1>c. MpmcListing(nx, p) = [i \in 1..Cardinality({n \in 0..K : at[n] \in MpmcNodes}) |-> at[i-1]]
  BY Zenon DEF MpmcListing
<1> HIDE DEF K
<1>2. PICK f \in [0..K -> MpmcPtr] : Follows(f, MpmcNodes, nx, TAIL, p, K)
  BY <1>1, <1>a, FollowsExists
<1>3. ASSUME NEW n \in 0..K PROVE f[n] = Body(f, n)
  <2>1. n = 0 \/ (n \in 1..K /\ n # 0)
    BY <1>1
  <2> QED
    BY <1>2, <2>1 DEF Follows
<1> HIDE DEF Body
<1>4. f = [n \in 0..K |-> Body(f, n)]
  BY <1>3
<1>5. at = [n \in 0..K |-> Body(at, n)]
  BY <1>4, Zenon
<1> HIDE DEF at
<1>6. \A n \in 0..K : at[n] = Body(at, n)
  BY <1>5
<1>7. Follows(at, MpmcNodes, nx, TAIL, p, K)
  <2>1. 0 \in 0..K /\ \A i \in 1..K : i \in 0..K /\ i # 0
    BY <1>1
  <2>2. at[0] = p
    BY <1>6, <2>1 DEF Body
  <2>3. \A i \in 1..K : at[i] = IF at[i-1] \in MpmcNodes THEN nx[at[i-1]] ELSE TAIL
    BY <1>6, <2>1 DEF Body
  <2> QED
    BY <2>2, <2>3, Zenon DEF Follows
<1>8. Cardinality({n \in 0..K : at[n] \in MpmcNodes}) = Len(s)
  BY <1>7, <1>a, FollowsEnd DEF K
<1>9. \A i \in 1..Len(s) : at[i-1] = s[i]
  BY <1>7, <1>a, FollowsLeads DEF K
<1>10. s \in Seq(MpmcNodes)
  BY DEF Leads
<1>11. s = [i \in 1..Len(s) |-> s[i]]
  BY <1>10
<1> QED
  BY <1>8, <1>9, <1>11, <1>c

-----------------------------------------------------------------------------
(* MpmcStack                                                               *)

MList == MpmcListFrom(mhead.next)

\* The stack is a list of nodes that ends.
MListed == Leads(MpmcNodes, intr_ptr, mhead.next, MList, TAIL)

\* Every node is listed, free or in the hands of one thread.
MOwned ==
  /\ \A t \in MpmcThreads :
       /\ node[t] \in MpmcNodes <=> mpc[t] \in {"pushlink", "pushcas", "unlist", "popped"}
       /\ node[t] \notin free /\ node[t] \notin Range(MList)
  /\ \A t, u \in MpmcThreads : node[t] \in MpmcNodes /\ node[t] = node[u] => t = u
  /\ free \cap Range(MList) = {}
  /\ \A n \in MpmcNodes : n \in free \/ n \in Range(MList) \/ \E t \in MpmcThreads : node[t] = n

\* What a thread has read still holds as long as no pop has changed
\* aba_counter: pushes leave listed nodes and their links alone.
MReadOf(t) ==
  /\ mpc[t] = "pushcas" =>
       /\ nhead[t] = [next |-> node[t], aba_counter |-> ohead[t].aba_counter]
       /\ intr_ptr[node[t]] = ohead[t].next
  /\ mpc[t] \in {"popread", "popcas"} =>
       /\ ohead[t].next \in MpmcNodes
       /\ ohead[t].aba_counter <= mhead.aba_counter /\ ohead[t].aba_counter < MaxPops
       /\ ohead[t].aba_counter = mhead.aba_counter => ohead[t].next \in Range(MList)
  /\ mpc[t] = "popcas" =>
       /\ nhead[t].aba_counter = ohead[t].aba_counter + 1
       /\ ohead[t].aba_counter = mhead.aba_counter => nhead[t].next = intr_ptr[ohead[t].next]
MRead == \A t \in MpmcThreads : MReadOf(t)

MpmcInv == MpmcTypeOK /\ MListed /\ MOwned /\ MRead

LEMMA MListIs ==
  ASSUME MpmcTypeOK, NEW s, Leads(MpmcNodes, intr_ptr, mhead.next, s, TAIL)
  PROVE  MList = s
<1>1. intr_ptr \in [MpmcNodes -> MpmcPtr] /\ mhead.next \in MpmcPtr
  BY DEF MpmcTypeOK, Head_
<1>2. MpmcListing(intr_ptr, mhead.next) = s
  BY <1>1, MpmcListingIs
<1>3. MList = MpmcListing(intr_ptr, mhead.next)
  BY Zenon DEF MList, MpmcListFrom, MpmcListing
<1> QED
  BY <1>2, <1>3

LEMMA MListNext ==
  ASSUME MpmcTypeOK', NEW s, Leads(MpmcNodes, intr_ptr', mhead'.next, s, TAIL)
  PROVE  MList' = s /\ MListed'
<1>1. intr_ptr' \in [MpmcNodes -> MpmcPtr] /\ mhead'.next \in MpmcPtr
  BY DEF MpmcTypeOK, Head_
<1>2. MpmcListing(intr_ptr', mhead'.next) = s
  BY <1>1, MpmcListingIs
<1>3. MList' = MpmcListing(intr_ptr', mhead'.next)
  BY Zenon DEF MList, MpmcListFrom, MpmcListing
<1>4. MList' = s
  BY <1>2, <1>3
<1> QED
  BY <1>4 DEF MListed

\* A step that neither changes head_ nor the link of a listed node.
LEMMA MListKept ==
  ASSUME MpmcTypeOK', MListed, mhead' = mhead,
         \A n \in Range(MList) : intr_ptr'[n] = intr_ptr[n]
  PROVE  MList' = MList /\ MListed'
<1>1. Leads(MpmcNodes, intr_ptr', mhead'.next, MList, TAIL)
  BY LeadsFrame DEF MListed
<1> QED
  BY <1>1, MListNext

\* What a thread knows survives the steps of the others.
LEMMA MReadKept ==
  ASSUME MpmcTypeOK, NEW t \in MpmcThreads, MReadOf(t),
         mpc'[t] = mpc[t], ohead'[t] = ohead[t], nhead'[t] = nhead[t], node'[t] = node[t],
         mpc[t] = "pushcas" => intr_ptr'[node[t]] = intr_ptr[node[t]],
         \/ /\ mhead'.aba_counter = mhead.aba_counter
            /\ Range(MList) \subseteq Range(MList')
            /\ \A n \in Range(MList) : intr_ptr'[n] = intr_ptr[n]
         \/ mhead'.aba_counter = mhead.aba_counter + 1
  PROVE  MReadOf(t)'
<1>1. ohead[t].aba_counter \in Nat /\ mhead.aba_counter \in Nat
  BY DEF MpmcTypeOK, Head_
<1>2. CASE mhead'.aba_counter = mhead.aba_counter + 1
  <2>1. ohead[t].aba_counter <= mhead.aba_counter
          => /\ ohead[t].aba_counter <= mhead'.aba_counter
             /\ ohead[t].aba_counter # mhead'.aba_counter
    BY <1>1, <1>2
  <2> QED
    BY <2>1 DEF MReadOf
<1>3. CASE /\ mhead'.aba_counter = mhead.aba_counter
           /\ Range(MList) \subseteq Range(MList')
           /\ \A n \in Range(MList) : intr_ptr'[n] = intr_ptr[n]
  BY <1>3 DEF MReadOf
<1> QED
  BY <1>2, <1>3

\* The outcomes of the two compare-and-exchanges.
PushCasDone(t) ==
  /\ mpc[t] = "pushcas" /\ mhead = ohead[t]
  /\ mhead' = nhead[t]
  /\ mpmc_empty' = [mpmc_empty EXCEPT ![t] = (ohead[t].next = TAIL)]
  /\ mpc' = [mpc EXCEPT ![t] = "idle"]
  /\ node' = [node EXCEPT ![t] = MpmcNull]
  /\ ohead' = [ohead EXCEPT ![t] = NoHead] /\ nhead' = [nhead EXCEPT ![t] = NoHead]
  /\ intr_ptr' = intr_ptr /\ free' = free
PushCasFails(t) ==
  /\ mpc[t] = "pushcas"
  /\ ohead' = [ohead EXCEPT ![t] = mhead]
  /\ mpc' = [mpc EXCEPT ![t] = "pushlink"]
  /\ mhead' = mhead /\ mpmc_empty' = mpmc_empty /\ node' = node /\ nhead' = nhead
  /\ intr_ptr' = intr_ptr /\ free' = free
PopCasDone(t) ==
  /\ mpc[t] = "popcas" /\ mhead = ohead[t]
  /\ mhead' = nhead[t]
  /\ node' = [node EXCEPT ![t] = ohead[t].next]
  /\ ohead' = [ohead EXCEPT ![t] = NoHead] /\ nhead' = [nhead EXCEPT ![t] = NoHead]
  /\ mpc' = [mpc EXCEPT ![t] = "unlist"]
  /\ intr_ptr' = intr_ptr /\ free' = free /\ mpmc_empty' = mpmc_empty
PopCasFails(t) ==
  /\ mpc[t] = "popcas" /\ mhead.aba_counter < MaxPops
  /\ ohead' = [ohead EXCEPT ![t] = IF mhead.next = TAIL THEN NoHead ELSE mhead]
  /\ nhead' = [nhead EXCEPT ![t] = NoHead]
  /\ mpc' = [mpc EXCEPT ![t] = IF mhead.next = TAIL THEN "idle" ELSE "popread"]
  /\ mhead' = mhead /\ node' = node
  /\ intr_ptr' = intr_ptr /\ free' = free /\ mpmc_empty' = mpmc_empty

LEMMA CasOutcomes ==
  ASSUME NEW t
  PROVE  /\ MpmcPushCas(t) => PushCasDone(t) \/ PushCasFails(t)
         /\ MpmcPopCas(t) => PopCasDone(t) \/ PopCasFails(t)
<1>1. MpmcPushCas(t) => PushCasDone(t) \/ PushCasFails(t)
  BY Zenon DEF MpmcPushCas, PushCasDone, PushCasFails
<1>2. MpmcPopCas(t) => PopCasDone(t) \/ PopCasFails(t)
  BY Zenon DEF MpmcPopCas, SameHead, PopCasDone, PopCasFails
<1> QED
  BY <1>1, <1>2

LEMMA MpmcInitInv == MpmcInit => MpmcInv
<1> SUFFICES ASSUME MpmcInit PROVE MpmcInv
  OBVIOUS
<1>1. NoHead \in Head_ /\ TAIL \in MpmcPtr /\ MpmcNull \in MpmcPtr /\ TAIL # MpmcNull /\ MpmcNull \notin MpmcNodes
  BY PtrAssumption DEF NoHead, Head_, MpmcPtr
<1>2. mhead \in Head_ /\ mhead.next = TAIL
  BY <1>1, PtrAssumption DEF MpmcInit, Head_
<1>3. MpmcTypeOK
  BY <1>1, <1>2 DEF MpmcInit, MpmcTypeOK
<1>4. MList = <<>> /\ MListed
  BY <1>2, <1>3, LeadsEmpty, MListIs DEF MListed
<1>5. Range(MList) = {}
  BY <1>4 DEF Range
<1>6. MOwned
  BY <1>1, <1>5 DEF MOwned, MpmcInit
<1>7. MRead
  BY DEF MRead, MReadOf, MpmcInit
<1> QED
  BY <1>3, <1>4, <1>6, <1>7 DEF MpmcInv

\* The first node of the stack and its link.
LEMMA MHeadListed ==
  ASSUME MpmcInv, mhead.next # TAIL
  PROVE  /\ MList # <<>> /\ Head(MList) = mhead.next /\ mhead.next \in MpmcNodes
         /\ mhead.next \in Range(MList) /\ mhead.next \notin Range(Tail(MList))
         /\ Range(MList) = {mhead.next} \cup Range(Tail(MList))
         /\ Leads(MpmcNodes, intr_ptr, intr_ptr[mhead.next], Tail(MList), TAIL)
         /\ intr_ptr[mhead.next] # MpmcNull
<1>1. MList # <<>>
  BY DEF MpmcInv, MListed, Leads
<1>2. /\ Head(MList) = mhead.next /\ mhead.next \in MpmcNodes
      /\ mhead.next \notin Range(Tail(MList)) /\ Range(MList) = {mhead.next} \cup Range(Tail(MList))
      /\ Leads(MpmcNodes, intr_ptr, intr_ptr[mhead.next], Tail(MList), TAIL)
  BY <1>1, LeadsTail DEF MpmcInv, MListed
<1>3. intr_ptr[mhead.next] = TAIL \/ intr_ptr[mhead.next] \in MpmcNodes
  <2>1. Tail(MList) \in Seq(MpmcNodes)
    BY <1>2 DEF Leads
  <2>2. Tail(MList) # <<>> => Tail(MList)[1] \in MpmcNodes
    BY <2>1
  <2> QED
    BY <1>2, <2>2 DEF Leads
<1> QED
  BY <1>1, <1>2, <1>3, PtrAssumption

-----------------------------------------------------------------------------
(* Types                                                                   *)

LEMMA MpmcTypeStep ==
  ASSUME MpmcInv, [MpmcNext]_mpmcVars
  PROVE  MpmcTypeOK'
<1>1. MpmcTypeOK
  BY DEF MpmcInv
<1>2. NoHead \in Head_ /\ TAIL \in MpmcPtr /\ MpmcNull \in MpmcPtr /\ MpmcNodes \subseteq MpmcPtr
  BY PtrAssumption DEF NoHead, Head_, MpmcPtr
<1>3. CASE UNCHANGED mpmcVars
  BY <1>1, <1>3 DEF mpmcVars, MpmcTypeOK
<1>4. ASSUME NEW t \in MpmcThreads, MpmcPush(t) PROVE MpmcTypeOK'
  BY <1>1, <1>2, <1>4 DEF MpmcPush, MpmcTypeOK
<1>5. ASSUME NEW t \in MpmcThreads, PushLink(t) PROVE MpmcTypeOK'
  <2>1. node[t] \in MpmcNodes
    BY <1>5 DEF PushLink, MpmcInv, MOwned
  <2>2. [next |-> node[t], aba_counter |-> ohead[t].aba_counter] \in Head_ /\ ohead[t].next \in MpmcPtr
    BY <1>1, <1>2, <2>1 DEF MpmcTypeOK, Head_
  <2> QED
    BY <1>1, <1>2, <1>5, <2>2 DEF PushLink, MpmcTypeOK
<1>6. ASSUME NEW t \in MpmcThreads, MpmcPushCas(t) PROVE MpmcTypeOK'
  <2>1. CASE PushCasDone(t)
    <3>1. nhead[t] = [next |-> node[t], aba_counter |-> ohead[t].aba_counter]
      BY <2>1 DEF PushCasDone, MpmcInv, MRead, MReadOf
    <3>2. node[t] \in MpmcNodes /\ nhead[t].next = node[t]
      BY <2>1, <3>1 DEF PushCasDone, MpmcInv, MOwned
    <3>3. nhead[t] \in Head_ /\ nhead[t].next # MpmcNull
      BY <1>1, <3>2, PtrAssumption DEF MpmcTypeOK
    <3> QED
      BY <1>1, <1>2, <2>1, <3>3 DEF PushCasDone, MpmcTypeOK
  <2>2. CASE PushCasFails(t)
    BY <1>1, <2>2 DEF PushCasFails, MpmcTypeOK
  <2> QED
    BY <1>6, <2>1, <2>2, CasOutcomes
<1>7. ASSUME NEW t \in MpmcThreads, MpmcPopLoad(t) PROVE MpmcTypeOK'
  BY <1>1, <1>7 DEF MpmcPopLoad, MpmcTypeOK
<1>8. ASSUME NEW t \in MpmcThreads, PopRead(t) PROVE MpmcTypeOK'
  <2>1. ohead[t].next \in MpmcNodes /\ ohead[t].aba_counter < MaxPops /\ ohead[t].aba_counter \in 0..MaxPops
    BY <1>1, <1>8 DEF PopRead, MpmcInv, MRead, MReadOf, MpmcTypeOK, Head_
  <2>2. NextAba(t) \in 0..MaxPops
    BY <2>1, PtrAssumption DEF NextAba
  <2>3. [next |-> intr_ptr[ohead[t].next], aba_counter |-> NextAba(t)] \in Head_
    BY <1>1, <2>1, <2>2 DEF MpmcTypeOK, Head_
  <2> QED
    BY <1>1, <1>8, <2>3 DEF PopRead, MpmcTypeOK
<1>9. ASSUME NEW t \in MpmcThreads, MpmcPopCas(t) PROVE MpmcTypeOK'
  <2>1. CASE PopCasDone(t)
    <3>1. ohead[t].next \in MpmcNodes /\ mhead = ohead[t] /\ nhead[t].next = intr_ptr[mhead.next]
      BY <2>1 DEF PopCasDone, MpmcInv, MRead, MReadOf
    <3>2. nhead[t].next # MpmcNull
      BY <3>1, MHeadListed, PtrAssumption
    <3>3. nhead[t] \in Head_
      BY <1>1 DEF MpmcTypeOK
    <3> QED
      BY <1>1, <1>2, <2>1, <3>1, <3>2, <3>3 DEF PopCasDone, MpmcTypeOK
  <2>2. CASE PopCasFails(t)
    <3>1. (IF mhead.next = TAIL THEN NoHead ELSE mhead) \in Head_
      BY <1>1, <1>2 DEF MpmcTypeOK
    <3>2. (IF mhead.next = TAIL THEN "idle" ELSE "popread") \in {"idle", "popread"}
      OBVIOUS
    <3> QED
      BY <1>1, <1>2, <2>2, <3>1, <3>2 DEF PopCasFails, MpmcTypeOK
  <2> QED
    BY <1>9, <2>1, <2>2, CasOutcomes
<1>10. ASSUME NEW t \in MpmcThreads, Unlist(t) PROVE MpmcTypeOK'
  BY <1>1, <1>2, <1>10 DEF Unlist, MpmcTypeOK
<1>11. ASSUME NEW t \in MpmcThreads, Dealloc(t) PROVE MpmcTypeOK'
  <2>1. node[t] \in MpmcNodes
    BY <1>11 DEF Dealloc, MpmcInv, MOwned
  <2> QED
    BY <1>1, <1>2, <1>11, <2>1 DEF Dealloc, MpmcTypeOK
<1> QED
  BY <1>3, <1>4, <1>5, <1>6, <1>7, <1>8, <1>9, <1>10, <1>11 DEF MpmcNext

-----------------------------------------------------------------------------
(* Nodes and what threads know of them, action by action                   *)

MpmcStepInv == MListed' /\ MOwned' /\ MRead'

LEMMA PushStep ==
  ASSUME MpmcInv, MpmcTypeOK', NEW t \in MpmcThreads, MpmcPush(t)
  PROVE  MpmcStepInv /\ MList' = MList
<1>1. MpmcTypeOK /\ MListed /\ MOwned /\ MRead
  BY DEF MpmcInv
<1>2. PICK n \in free :
         /\ mpc[t] = "idle" /\ free' = free \ {n}
         /\ intr_ptr' = [intr_ptr EXCEPT ![n] = MpmcNull]
         /\ node' = [node EXCEPT ![t] = n]
         /\ ohead' = [ohead EXCEPT ![t] = mhead]
         /\ mpc' = [mpc EXCEPT ![t] = "pushlink"]
         /\ mhead' = mhead /\ nhead' = nhead /\ mpmc_empty' = mpmc_empty
  BY DEF MpmcPush
<1>3. n \in MpmcNodes /\ n \notin Range(MList) /\ \A u \in MpmcThreads : node[u] # n
  BY <1>1, <1>2 DEF MOwned, MpmcTypeOK
<1>4. \A m \in Range(MList) : intr_ptr'[m] = intr_ptr[m]
  BY <1>1, <1>2, <1>3 DEF MpmcTypeOK
<1>5. MList' = MList /\ MListed'
  BY <1>1, <1>2, <1>4, MListKept
<1>6. /\ node'[t] = n /\ mpc'[t] = "pushlink" /\ ohead'[t] = mhead
      /\ \A u \in MpmcThreads : u # t => node'[u] = node[u] /\ mpc'[u] = mpc[u] /\ ohead'[u] = ohead[u]
      /\ \A m \in MpmcNodes : m # n => intr_ptr'[m] = intr_ptr[m]
  BY <1>1, <1>2, <1>3 DEF MpmcTypeOK
<1>7. MOwned'
  <2>1. \A u \in MpmcThreads : /\ node'[u] \in MpmcNodes <=> mpc'[u] \in {"pushlink", "pushcas", "unlist", "popped"}
                               /\ node'[u] \notin free' /\ node'[u] \notin Range(MList')
    BY <1>1, <1>2, <1>3, <1>5, <1>6 DEF MOwned
  <2>2. \A u, v \in MpmcThreads : node'[u] \in MpmcNodes /\ node'[u] = node'[v] => u = v
    BY <1>1, <1>3, <1>6 DEF MOwned
  <2>3. free' \cap Range(MList') = {}
    BY <1>1, <1>2, <1>5 DEF MOwned
  <2>4. ASSUME NEW m \in MpmcNodes PROVE m \in free' \/ m \in Range(MList') \/ \E u \in MpmcThreads : node'[u] = m
    <3>1. CASE m = n
      BY <1>6, <3>1
    <3>2. CASE \E u \in MpmcThreads : node[u] = m
      <4>1. PICK u \in MpmcThreads : node[u] = m
        BY <3>2
      <4>2. u # t
        BY <1>1, <1>2, <4>1 DEF MOwned
      <4> QED
        BY <1>6, <4>1, <4>2
    <3> QED
      BY <1>1, <1>2, <1>5, <3>1, <3>2 DEF MOwned
  <2> QED
    BY <2>1, <2>2, <2>3, <2>4 DEF MOwned
<1>8. ASSUME NEW u \in MpmcThreads PROVE MReadOf(u)'
  <2>1. CASE u = t
    BY <1>6, <2>1 DEF MReadOf
  <2>2. CASE u # t
    <3>1. mpc[u] = "pushcas" => node[u] \in MpmcNodes /\ node[u] # n
      BY <1>1, <1>3 DEF MOwned
    <3> QED
      BY <1>1, <1>2, <1>4, <1>5, <1>6, <2>2, <3>1, MReadKept DEF MRead
  <2> QED
    BY <2>1, <2>2
<1> QED
  BY <1>5, <1>7, <1>8 DEF MpmcStepInv, MRead

LEMMA PushLinkStep ==
  ASSUME MpmcInv, MpmcTypeOK', NEW t \in MpmcThreads, PushLink(t)
  PROVE  MpmcStepInv /\ MList' = MList
<1>1. MpmcTypeOK /\ MListed /\ MOwned /\ MRead
  BY DEF MpmcInv
<1> DEFINE n == node[t]
<1>2. /\ mpc[t] = "pushlink"
      /\ intr_ptr' = [intr_ptr EXCEPT ![n] = ohead[t].next]
      /\ nhead' = [nhead EXCEPT ![t] = [next |-> n, aba_counter |-> ohead[t].aba_counter]]
      /\ mpc' = [mpc EXCEPT ![t] = "pushcas"]
      /\ mhead' = mhead /\ free' = free /\ ohead' = ohead /\ node' = node
  BY DEF PushLink
<1>3. n \in MpmcNodes /\ n \notin Range(MList) /\ \A u \in MpmcThreads : u # t => node[u] # n
  BY <1>1, <1>2 DEF MOwned
<1>6. /\ mpc'[t] = "pushcas" /\ nhead'[t] = [next |-> n, aba_counter |-> ohead[t].aba_counter]
      /\ intr_ptr'[n] = ohead[t].next
      /\ \A u \in MpmcThreads : u # t => mpc'[u] = mpc[u] /\ nhead'[u] = nhead[u]
      /\ \A m \in MpmcNodes : m # n => intr_ptr'[m] = intr_ptr[m]
  BY <1>1, <1>2, <1>3 DEF MpmcTypeOK
<1>4. \A m \in Range(MList) : intr_ptr'[m] = intr_ptr[m]
  BY <1>1, <1>2, <1>3 DEF MpmcTypeOK
<1>5. MList' = MList /\ MListed'
  BY <1>1, <1>2, <1>4, MListKept
<1>7. MOwned'
  <2>1. \A u \in MpmcThreads : node'[u] \in MpmcNodes <=> mpc'[u] \in {"pushlink", "pushcas", "unlist", "popped"}
    BY <1>1, <1>2, <1>6 DEF MOwned
  <2> QED
    BY <1>1, <1>2, <1>5, <2>1 DEF MOwned
<1>8. ASSUME NEW u \in MpmcThreads PROVE MReadOf(u)'
  <2>1. CASE u = t
    BY <1>2, <1>6, <2>1 DEF MReadOf
  <2>2. CASE u # t
    <3>1. mpc[u] = "pushcas" => node[u] \in MpmcNodes /\ node[u] # n
      BY <1>1, <1>3, <2>2 DEF MOwned
    <3> QED
      BY <1>1, <1>2, <1>4, <1>5, <1>6, <2>2, <3>1, MReadKept DEF MRead
  <2> QED
    BY <2>1, <2>2
<1> QED
  BY <1>5, <1>7, <1>8 DEF MpmcStepInv, MRead

\* The compare-and-exchange of push() puts the node on top.
LEMMA PushCasStep ==
  ASSUME MpmcInv, MpmcTypeOK', NEW t \in MpmcThreads, PushCasDone(t)
  PROVE  /\ MpmcStepInv /\ MList' = <<node[t]>> \o MList /\ node[t] \in MpmcNodes
         /\ (ohead[t].next = TAIL <=> MList = <<>>)
<1>1. MpmcTypeOK /\ MListed /\ MOwned /\ MRead
  BY DEF MpmcInv
<1> DEFINE n == node[t]
<1>2. /\ mpc[t] = "pushcas" /\ mhead = ohead[t] /\ mhead' = nhead[t]
      /\ nhead[t] = [next |-> n, aba_counter |-> ohead[t].aba_counter]
      /\ intr_ptr[n] = mhead.next /\ intr_ptr' = intr_ptr /\ free' = free
  BY <1>1 DEF PushCasDone, MRead, MReadOf
<1>3. n \in MpmcNodes /\ n \notin Range(MList) /\ n \notin free /\ \A u \in MpmcThreads : u # t => node[u] # n
  BY <1>1, <1>2 DEF MOwned
<1>4. mhead'.next = n /\ mhead'.aba_counter = mhead.aba_counter
  BY <1>2
<1>5. Leads(MpmcNodes, intr_ptr, n, <<n>>, mhead.next) /\ Range(<<n>>) = {n}
  <2>1. Leads(MpmcNodes, intr_ptr, n, <<n>>, intr_ptr[n]) /\ Range(<<n>>) = {n}
    BY <1>3, LeadsOne, Zenon
  <2> QED
    BY <1>2, <2>1, Zenon
<1>6. Leads(MpmcNodes, intr_ptr, n, <<n>> \o MList, TAIL)
  BY <1>1, <1>3, <1>5, LeadsConcat DEF MListed
<1>7. MList' = <<n>> \o MList /\ MListed'
  BY <1>2, <1>4, <1>6, MListNext
<1>8. Range(MList') = {n} \cup Range(MList)
  <2>1. <<n>> \in Seq(MpmcNodes) /\ MList \in Seq(MpmcNodes)
    BY <1>1, <1>3 DEF MListed, Leads
  <2>2. Range(<<n>> \o MList) = Range(<<n>>) \cup Range(MList)
    BY <2>1, SeqConcat, Zenon
  <2> QED
    BY <1>5, <1>7, <2>2, Zenon
<1>9. /\ node'[t] = MpmcNull /\ mpc'[t] = "idle" /\ MpmcNull \notin MpmcNodes
      /\ \A u \in MpmcThreads : u # t => /\ node'[u] = node[u] /\ mpc'[u] = mpc[u]
                                         /\ ohead'[u] = ohead[u] /\ nhead'[u] = nhead[u]
  BY <1>1, PtrAssumption DEF PushCasDone, MpmcTypeOK
<1>10. MOwned'
  <2>1. \A u \in MpmcThreads : /\ node'[u] \in MpmcNodes <=> mpc'[u] \in {"pushlink", "pushcas", "unlist", "popped"}
                               /\ node'[u] \notin free' /\ node'[u] \notin Range(MList')
    <3>1. MpmcNull \notin Range(MList) /\ MpmcNull \notin free
      BY <1>1, <1>9, SeqFacts DEF MListed, Leads, MpmcTypeOK
    <3> QED
      BY <1>1, <1>2, <1>3, <1>8, <1>9, <3>1 DEF MOwned
  <2>2. \A u, v \in MpmcThreads : node'[u] \in MpmcNodes /\ node'[u] = node'[v] => u = v
    BY <1>1, <1>9 DEF MOwned
  <2>3. free' \cap Range(MList') = {}
    BY <1>1, <1>2, <1>3, <1>8 DEF MOwned
  <2>4. ASSUME NEW m \in MpmcNodes PROVE m \in free' \/ m \in Range(MList') \/ \E u \in MpmcThreads : node'[u] = m
    BY <1>1, <1>2, <1>8, <1>9 DEF MOwned
  <2> QED
    BY <2>1, <2>2, <2>3, <2>4 DEF MOwned
<1>11. ASSUME NEW u \in MpmcThreads PROVE MReadOf(u)'
  <2>1. CASE u = t
    BY <1>9, <2>1 DEF MReadOf
  <2>2. CASE u # t
    BY <1>1, <1>2, <1>4, <1>8, <1>9, <2>2, MReadKept DEF MRead
  <2> QED
    BY <2>1, <2>2
<1>12. ohead[t].next = TAIL <=> MList = <<>>
  <2>1. mhead.next # TAIL => MList # <<>>
    BY MHeadListed
  <2>2. MList # <<>> => mhead.next \in MpmcNodes
    BY <1>1, LeadsTail DEF MListed
  <2> QED
    BY <1>2, <2>1, <2>2, PtrAssumption
<1> QED
  BY <1>3, <1>7, <1>10, <1>11, <1>12 DEF MpmcStepInv, MRead

\* Loading head_, for the first time or after a failed exchange.
LEMMA LoadStep ==
  ASSUME MpmcInv, MpmcTypeOK', NEW t \in MpmcThreads,
         MpmcPopLoad(t) \/ PushCasFails(t) \/ PopCasFails(t)
  PROVE  MpmcStepInv /\ MList' = MList
<1>1. MpmcTypeOK /\ MListed /\ MOwned /\ MRead
  BY DEF MpmcInv
<1>2. mhead' = mhead /\ intr_ptr' = intr_ptr /\ free' = free /\ node' = node
  BY DEF MpmcPopLoad, PushCasFails, PopCasFails
<1>3. \A u \in MpmcThreads : u # t => mpc'[u] = mpc[u] /\ ohead'[u] = ohead[u] /\ nhead'[u] = nhead[u]
  BY <1>1 DEF MpmcPopLoad, PushCasFails, PopCasFails, MpmcTypeOK
<1>4. /\ mpc[t] = "pushcas" => mpc'[t] = "pushlink"
      /\ mpc[t] # "pushcas" => /\ mpc[t] \in {"idle", "popcas"} /\ mpc'[t] \in {"idle", "popread"}
                               /\ mpc'[t] = "popread" => /\ ohead'[t] = mhead /\ mhead.next # TAIL
                                                         /\ mhead.aba_counter < MaxPops
  BY <1>1 DEF MpmcPopLoad, PushCasFails, PopCasFails, MpmcTypeOK
<1>5. MList' = MList /\ MListed'
  BY <1>1, <1>2, MListKept
<1>6. MOwned'
  <2>1. \A u \in MpmcThreads : node'[u] \in MpmcNodes <=> mpc'[u] \in {"pushlink", "pushcas", "unlist", "popped"}
    BY <1>1, <1>2, <1>3, <1>4 DEF MOwned
  <2> QED
    BY <1>1, <1>2, <1>5, <2>1 DEF MOwned
<1>7. ASSUME NEW u \in MpmcThreads PROVE MReadOf(u)'
  <2>1. CASE u = t /\ mpc'[t] = "popread"
    <3>1. ohead'[t] = mhead /\ mhead.next # TAIL /\ mhead.aba_counter < MaxPops
      BY <1>4, <2>1
    <3>2. mhead.next \in MpmcNodes /\ mhead.next \in Range(MList)
      BY <3>1, MHeadListed
    <3>3. mhead.aba_counter <= mhead.aba_counter
      BY <1>1 DEF MpmcTypeOK, Head_
    <3> QED
      BY <1>2, <1>5, <2>1, <3>1, <3>2, <3>3 DEF MReadOf
  <2>2. CASE u = t /\ mpc'[t] # "popread"
    BY <1>4, <2>2 DEF MReadOf
  <2>3. CASE u # t
    BY <1>1, <1>2, <1>3, <1>5, <2>3, MReadKept DEF MRead
  <2> QED
    BY <2>1, <2>2, <2>3
<1> QED
  BY <1>5, <1>6, <1>7 DEF MpmcStepInv, MRead

LEMMA PopReadStep ==
  ASSUME MpmcInv, MpmcTypeOK', NEW t \in MpmcThreads, PopRead(t)
  PROVE  MpmcStepInv /\ MList' = MList
<1>1. MpmcTypeOK /\ MListed /\ MOwned /\ MRead
  BY DEF MpmcInv
<1>2. /\ mpc[t] = "popread" /\ mpc'[t] = "popcas" /\ nhead'[t] = [next |-> intr_ptr[ohead[t].next], aba_counter |-> ohead[t].aba_counter + 1]
      /\ \A u \in MpmcThreads : u # t => mpc'[u] = mpc[u] /\ nhead'[u] = nhead[u]
      /\ mhead' = mhead /\ intr_ptr' = intr_ptr /\ free' = free /\ ohead' = ohead /\ node' = node
  BY <1>1 DEF PopRead, NextAba, MpmcTypeOK
<1>3. MList' = MList /\ MListed'
  BY <1>1, <1>2, MListKept
<1>4. MOwned'
  <2>1. \A u \in MpmcThreads : node'[u] \in MpmcNodes <=> mpc'[u] \in {"pushlink", "pushcas", "unlist", "popped"}
    BY <1>1, <1>2 DEF MOwned
  <2> QED
    BY <1>1, <1>2, <1>3, <2>1 DEF MOwned
<1>5. ASSUME NEW u \in MpmcThreads PROVE MReadOf(u)'
  <2>1. CASE u = t
    <3>1. MReadOf(t)
      BY <1>1 DEF MRead
    <3> QED
      BY <1>2, <1>3, <2>1, <3>1 DEF MReadOf
  <2>2. CASE u # t
    BY <1>1, <1>2, <1>3, <2>2, MReadKept DEF MRead
  <2> QED
    BY <2>1, <2>2
<1> QED
  BY <1>3, <1>4, <1>5 DEF MpmcStepInv, MRead

\* The compare-and-exchange of pop() takes the top node: aba_counter shows
\* that the link it read before is still the one of this node.
LEMMA PopCasStep ==
  ASSUME MpmcInv, MpmcTypeOK', NEW t \in MpmcThreads, PopCasDone(t)
  PROVE  /\ MpmcStepInv /\ MList # <<>> /\ MList' = Tail(MList) /\ node'[t] = Head(MList)
<1>1. MpmcTypeOK /\ MListed /\ MOwned /\ MRead
  BY DEF MpmcInv
<1> DEFINE n == mhead.next
<1>2. /\ mpc[t] = "popcas" /\ mhead = ohead[t] /\ mhead' = nhead[t] /\ n \in MpmcNodes
      /\ nhead[t].next = intr_ptr[n] /\ nhead[t].aba_counter = mhead.aba_counter + 1
      /\ intr_ptr' = intr_ptr /\ free' = free
  BY <1>1 DEF PopCasDone, MRead, MReadOf
<1>3. /\ MList # <<>> /\ Head(MList) = n /\ n \notin Range(Tail(MList)) /\ n \in Range(MList)
      /\ Range(MList) = {n} \cup Range(Tail(MList))
      /\ Leads(MpmcNodes, intr_ptr, intr_ptr[n], Tail(MList), TAIL)
  BY <1>2, MHeadListed, PtrAssumption
<1>4. MList' = Tail(MList) /\ MListed'
  BY <1>2, <1>3, MListNext
<1>5. /\ node'[t] = n /\ mpc'[t] = "unlist"
      /\ \A u \in MpmcThreads : u # t => /\ node'[u] = node[u] /\ mpc'[u] = mpc[u]
                                         /\ ohead'[u] = ohead[u] /\ nhead'[u] = nhead[u]
  BY <1>1, <1>2 DEF PopCasDone, MpmcTypeOK
<1>6. \A u \in MpmcThreads : node[u] # n
  BY <1>1, <1>3 DEF MOwned
<1>7. MOwned'
  <2>1. \A u \in MpmcThreads : /\ node'[u] \in MpmcNodes <=> mpc'[u] \in {"pushlink", "pushcas", "unlist", "popped"}
                               /\ node'[u] \notin free' /\ node'[u] \notin Range(MList')
    BY <1>1, <1>2, <1>3, <1>4, <1>5 DEF MOwned
  <2>2. \A u, v \in MpmcThreads : node'[u] \in MpmcNodes /\ node'[u] = node'[v] => u = v
    BY <1>1, <1>5, <1>6 DEF MOwned
  <2>3. free' \cap Range(MList') = {}
    BY <1>1, <1>2, <1>3, <1>4 DEF MOwned
  <2>4. ASSUME NEW m \in MpmcNodes PROVE m \in free' \/ m \in Range(MList') \/ \E u \in MpmcThreads : node'[u] = m
    <3>1. CASE m = n
      BY <1>5, <3>1
    <3>2. CASE \E u \in MpmcThreads : node[u] = m
      <4>1. PICK u \in MpmcThreads : node[u] = m
        BY <3>2
      <4>2. u # t
        BY <1>1, <1>2, <4>1 DEF MOwned
      <4> QED
        BY <1>5, <4>1, <4>2
    <3> QED
      BY <1>1, <1>2, <1>3, <1>4, <3>1, <3>2 DEF MOwned
  <2> QED
    BY <2>1, <2>2, <2>3, <2>4 DEF MOwned
<1>8. ASSUME NEW u \in MpmcThreads PROVE MReadOf(u)'
  <2>1. CASE u = t
    BY <1>5, <2>1 DEF MReadOf
  <2>2. CASE u # t
    <3>1. mhead'.aba_counter = mhead.aba_counter + 1
      BY <1>2
    <3> QED
      BY <1>1, <1>2, <1>5, <2>2, <3>1, MReadKept DEF MRead
  <2> QED
    BY <2>1, <2>2
<1> QED
  BY <1>3, <1>4, <1>5, <1>7, <1>8 DEF MpmcStepInv, MRead

LEMMA UnlistStep ==
  ASSUME MpmcInv, MpmcTypeOK', NEW t \in MpmcThreads, Unlist(t)
  PROVE  MpmcStepInv /\ MList' = MList
<1>1. MpmcTypeOK /\ MListed /\ MOwned /\ MRead
  BY DEF MpmcInv
<1> DEFINE n == node[t]
<1>2. /\ mpc[t] = "unlist" /\ mpc'[t] = "popped"
      /\ \A u \in MpmcThreads : u # t => mpc'[u] = mpc[u]
      /\ intr_ptr' = [intr_ptr EXCEPT ![n] = MpmcNull]
      /\ mhead' = mhead /\ free' = free /\ ohead' = ohead /\ nhead' = nhead /\ node' = node
  BY <1>1 DEF Unlist, MpmcTypeOK
<1>3. n \in MpmcNodes /\ n \notin Range(MList) /\ \A u \in MpmcThreads : u # t => node[u] # n
  BY <1>1, <1>2 DEF MOwned
<1>4. \A m \in MpmcNodes : m # n => intr_ptr'[m] = intr_ptr[m]
  BY <1>1, <1>2 DEF MpmcTypeOK
<1>a. \A m \in Range(MList) : intr_ptr'[m] = intr_ptr[m]
  BY <1>1, <1>2, <1>3 DEF MpmcTypeOK
<1>5. MList' = MList /\ MListed'
  BY <1>1, <1>2, <1>a, MListKept
<1>6. MOwned'
  <2>1. \A u \in MpmcThreads : node'[u] \in MpmcNodes <=> mpc'[u] \in {"pushlink", "pushcas", "unlist", "popped"}
    BY <1>1, <1>2 DEF MOwned
  <2> QED
    BY <1>1, <1>2, <1>5, <2>1 DEF MOwned
<1>7. ASSUME NEW u \in MpmcThreads PROVE MReadOf(u)'
  <2>1. CASE u = t
    BY <1>2, <2>1 DEF MReadOf
  <2>2. CASE u # t
    <3>1. mpc[u] = "pushcas" => node[u] \in MpmcNodes /\ node[u] # n
      BY <1>1, <1>3, <2>2 DEF MOwned
    <3> QED
      BY <1>1, <1>2, <1>4, <1>5, <1>a, <2>2, <3>1, MReadKept DEF MRead
  <2> QED
    BY <2>1, <2>2
<1> QED
  BY <1>5, <1>6, <1>7 DEF MpmcStepInv, MRead

LEMMA DeallocStep ==
  ASSUME MpmcInv, MpmcTypeOK', NEW t \in MpmcThreads, Dealloc(t)
  PROVE  MpmcStepInv /\ MList' = MList
<1>1. MpmcTypeOK /\ MListed /\ MOwned /\ MRead
  BY DEF MpmcInv
<1> DEFINE n == node[t]
<1>2. PICK garbage \in MpmcPtr : intr_ptr' = [intr_ptr EXCEPT ![n] = garbage]
  BY DEF Dealloc
<1>3. /\ mpc[t] = "popped" /\ mpc'[t] = "idle" /\ free' = free \cup {n} /\ node'[t] = MpmcNull
      /\ \A u \in MpmcThreads : u # t => mpc'[u] = mpc[u] /\ node'[u] = node[u]
      /\ mhead' = mhead /\ ohead' = ohead /\ nhead' = nhead
  BY <1>1 DEF Dealloc, MpmcTypeOK
<1>4. n \in MpmcNodes /\ n \notin Range(MList) /\ \A u \in MpmcThreads : u # t => node[u] # n
  BY <1>1, <1>3 DEF MOwned
<1>5. /\ \A m \in MpmcNodes : m # n => intr_ptr'[m] = intr_ptr[m]
      /\ \A m \in Range(MList) : intr_ptr'[m] = intr_ptr[m]
  BY <1>1, <1>2, <1>4 DEF MpmcTypeOK
<1>6. MList' = MList /\ MListed'
  BY <1>1, <1>3, <1>5, MListKept
<1>7. MOwned'
  <2>1. MpmcNull \notin Range(MList) /\ MpmcNull \notin free' /\ MpmcNull \notin MpmcNodes
    BY <1>1, <1>3, <1>4, SeqFacts, PtrAssumption DEF MListed, Leads, MpmcTypeOK
  <2>2. \A u \in MpmcThreads : /\ node'[u] \in MpmcNodes <=> mpc'[u] \in {"pushlink", "pushcas", "unlist", "popped"}
                               /\ node'[u] \notin free' /\ node'[u] \notin Range(MList')
    BY <1>1, <1>3, <1>4, <1>6, <2>1 DEF MOwned
  <2>3. \A u, v \in MpmcThreads : node'[u] \in MpmcNodes /\ node'[u] = node'[v] => u = v
    BY <1>1, <1>3, <2>1 DEF MOwned
  <2>4. free' \cap Range(MList') = {}
    BY <1>1, <1>3, <1>4, <1>6 DEF MOwned
  <2>5. ASSUME NEW m \in MpmcNodes PROVE m \in free' \/ m \in Range(MList') \/ \E u \in MpmcThreads : node'[u] = m
    BY <1>1, <1>3, <1>6 DEF MOwned
  <2> QED
    BY <2>2, <2>3, <2>4, <2>5 DEF MOwned
<1>8. ASSUME NEW u \in MpmcThreads PROVE MReadOf(u)'
  <2>1. CASE u = t
    BY <1>3, <2>1 DEF MReadOf
  <2>2. CASE u # t
    <3>1. mpc[u] = "pushcas" => node[u] \in MpmcNodes /\ node[u] # n
      BY <1>1, <1>4, <2>2 DEF MOwned
    <3> QED
      BY <1>1, <1>3, <1>5, <1>6, <2>2, <3>1, MReadKept DEF MRead
  <2> QED
    BY <2>1, <2>2
<1> QED
  BY <1>6, <1>7, <1>8 DEF MpmcStepInv, MRead

LEMMA MpmcInvStep == MpmcInv /\ [MpmcNext]_mpmcVars => MpmcInv'
<1> SUFFICES ASSUME MpmcInv, [MpmcNext]_mpmcVars PROVE MpmcInv'
  OBVIOUS
<1>1. MpmcTypeOK'
  BY MpmcTypeStep
<1>2. CASE UNCHANGED mpmcVars
  <2>1. MpmcTypeOK /\ MListed /\ MOwned /\ MRead
    BY DEF MpmcInv
  <2>2. /\ mhead' = mhead /\ intr_ptr' = intr_ptr /\ free' = free /\ mpc' = mpc
        /\ ohead' = ohead /\ nhead' = nhead /\ node' = node
    BY <1>2 DEF mpmcVars
  <2>3. MList' = MList /\ MListed'
    BY <1>1, <2>1, <2>2, MListKept
  <2>4. MOwned'
    BY <2>1, <2>2, <2>3 DEF MOwned
  <2>5. MRead'
    BY <2>1, <2>2, <2>3 DEF MRead, MReadOf
  <2> QED
    BY <1>1, <2>3, <2>4, <2>5 DEF MpmcInv
<1>3. ASSUME NEW t \in MpmcThreads,
             \/ MpmcPush(t) \/ PushLink(t) \/ MpmcPushCas(t)
             \/ MpmcPopLoad(t) \/ PopRead(t) \/ MpmcPopCas(t) \/ Unlist(t) \/ Dealloc(t)
      PROVE  MpmcStepInv
  BY <1>1, <1>3, PushStep, PushLinkStep, PushCasStep, LoadStep, PopReadStep, PopCasStep,
     UnlistStep, DeallocStep, CasOutcomes
<1> QED
  BY <1>1, <1>2, <1>3 DEF MpmcNext, MpmcStepInv, MpmcInv

-----------------------------------------------------------------------------
(* MpmcStack: results                                                      *)

\* How many of the threads with property S there are, if it is one at most.
LEMMA OneOrNone ==
  ASSUME NEW S, \A x, y \in S : x = y
  PROVE  Cardinality(S) = IF S = {} THEN 0 ELSE 1
<1>1. CASE S = {}
  BY <1>1, FS_EmptySet
<1>2. CASE S # {}
  <2>1. PICK x \in S : TRUE
    BY <1>2
  <2>2. S = {x}
    BY <2>1
  <2>3. Cardinality({x}) = 1
    BY FS_Singleton
  <2> QED
    BY <1>2, <2>2, <2>3
<1> QED
  BY <1>1, <1>2

LEMMA MpmcInvAccounted == MpmcInv => MpmcAccounted
<1> SUFFICES ASSUME MpmcInv PROVE MpmcAccounted
  OBVIOUS
<1>1. MpmcTypeOK /\ MOwned
  BY DEF MpmcInv
<1>2. ASSUME NEW n \in MpmcNodes
      PROVE  Cardinality({t \in MpmcThreads : node[t] = n})
             + (IF n \in Range(MList) THEN 1 ELSE 0) + (IF n \in free THEN 1 ELSE 0) = 1
  <2> DEFINE S == {t \in MpmcThreads : node[t] = n}
  <2>1. \A x, y \in S : x = y
    BY <1>1 DEF MOwned
  <2>2. Cardinality(S) = IF S = {} THEN 0 ELSE 1
    BY <2>1, OneOrNone
  <2>3. CASE S = {}
    <3>1. (n \in free \/ n \in Range(MList)) /\ ~ (n \in free /\ n \in Range(MList))
      BY <1>1, <2>3 DEF MOwned
    <3> QED
      BY <2>2, <2>3, <3>1
  <2>4. CASE S # {}
    <3>1. n \notin free /\ n \notin Range(MList)
      BY <1>1, <2>4 DEF MOwned
    <3> QED
      BY <2>2, <2>4, <3>1
  <2> QED
    BY <2>3, <2>4
<1> QED
  BY <1>1, <1>2 DEF MpmcAccounted, MList

\* What AbstractStack sees of a step.
MpmcStutter == MList' = MList /\ [t \in MpmcThreads |-> Popped(t)]' = [t \in MpmcThreads |-> Popped(t)] /\ mpmc_empty' = mpmc_empty

LEMMA MpmcAbstractInit == MpmcInit => MpmcAbstract!Init
<1> SUFFICES ASSUME MpmcInit PROVE MpmcAbstract!Init
  OBVIOUS
<1>1. MpmcInv /\ mhead.next = TAIL
  BY MpmcInitInv DEF MpmcInit
<1>2. MList = <<>>
  BY <1>1, LeadsTail, PtrAssumption DEF MpmcInv, MListed
<1>3. \A t \in MpmcThreads : Popped(t) = <<>>
  BY DEF MpmcInit, Popped
<1> QED
  BY <1>2, <1>3 DEF MpmcAbstract!Init, MList, MpmcInit

LEMMA MpmcAbstractStep ==
  ASSUME MpmcInv, MpmcInv', [MpmcNext]_mpmcVars
  PROVE  MpmcAbstract!Next \/ UNCHANGED MpmcAbstract!vars
<1> DEFINE held == [t \in MpmcThreads |-> Popped(t)]
<1>1. MpmcTypeOK /\ MListed /\ MOwned /\ MRead /\ MpmcTypeOK'
  BY DEF MpmcInv
<1>2. MpmcStutter => UNCHANGED MpmcAbstract!vars
  BY DEF MpmcStutter, MpmcAbstract!vars, MList
<1>3. CASE UNCHANGED mpmcVars
  BY <1>2, <1>3 DEF mpmcVars, MpmcStutter, MList, MpmcListFrom, Popped
<1>4. ASSUME NEW t \in MpmcThreads, mpmc_empty' = mpmc_empty, MList' = MList,
             mpc[t] \notin {"unlist", "popped"}, mpc'[t] \notin {"unlist", "popped"},
             \A u \in MpmcThreads : u # t => mpc'[u] = mpc[u] /\ node'[u] = node[u]
      PROVE  MpmcStutter
  <2>1. \A u \in MpmcThreads : Popped(u)' = Popped(u)
    BY <1>4 DEF Popped
  <2> QED
    BY <1>4, <2>1 DEF MpmcStutter
<1>5. ASSUME NEW t \in MpmcThreads, MpmcPush(t) PROVE MpmcStutter
  <2>1. mpmc_empty' = mpmc_empty /\ MList' = MList
    BY <1>1, <1>5, PushStep DEF MpmcPush
  <2>2. /\ mpc[t] = "idle" /\ mpc'[t] = "pushlink"
        /\ \A u \in MpmcThreads : u # t => mpc'[u] = mpc[u] /\ node'[u] = node[u]
    BY <1>1, <1>5 DEF MpmcPush, MpmcTypeOK
  <2> QED
    BY <1>4, <2>1, <2>2
<1>6. ASSUME NEW t \in MpmcThreads, PushLink(t) PROVE MpmcStutter
  <2>1. mpmc_empty' = mpmc_empty /\ MList' = MList
    BY <1>1, <1>6, PushLinkStep DEF PushLink
  <2>2. /\ mpc[t] = "pushlink" /\ mpc'[t] = "pushcas"
        /\ \A u \in MpmcThreads : u # t => mpc'[u] = mpc[u] /\ node'[u] = node[u]
    BY <1>1, <1>6 DEF PushLink, MpmcTypeOK
  <2> QED
    BY <1>4, <2>1, <2>2
<1>7. ASSUME NEW t \in MpmcThreads, MpmcPopLoad(t) \/ PushCasFails(t) \/ PopCasFails(t) PROVE MpmcStutter
  <2>1. mpmc_empty' = mpmc_empty /\ MList' = MList
    BY <1>1, <1>7, LoadStep DEF MpmcPopLoad, PushCasFails, PopCasFails
  <2>2. /\ mpc[t] \in {"idle", "pushcas", "popcas"} /\ mpc'[t] \in {"popread", "pushlink", "idle"}
        /\ \A u \in MpmcThreads : u # t => mpc'[u] = mpc[u] /\ node'[u] = node[u]
    BY <1>1, <1>7 DEF MpmcPopLoad, PushCasFails, PopCasFails, MpmcTypeOK
  <2> QED
    BY <1>4, <2>1, <2>2
<1>8. ASSUME NEW t \in MpmcThreads, PopRead(t) PROVE MpmcStutter
  <2>1. mpmc_empty' = mpmc_empty /\ MList' = MList
    BY <1>1, <1>8, PopReadStep DEF PopRead
  <2>2. /\ mpc[t] = "popread" /\ mpc'[t] = "popcas"
        /\ \A u \in MpmcThreads : u # t => mpc'[u] = mpc[u] /\ node'[u] = node[u]
    BY <1>1, <1>8 DEF PopRead, MpmcTypeOK
  <2> QED
    BY <1>4, <2>1, <2>2
<1>9. ASSUME NEW t \in MpmcThreads, Unlist(t) PROVE MpmcStutter
  <2>1. mpmc_empty' = mpmc_empty /\ MList' = MList
    BY <1>1, <1>9, UnlistStep DEF Unlist
  <2>2. /\ mpc[t] = "unlist" /\ mpc'[t] = "popped" /\ node' = node
        /\ \A u \in MpmcThreads : u # t => mpc'[u] = mpc[u]
    BY <1>1, <1>9 DEF Unlist, MpmcTypeOK
  <2>3. \A u \in MpmcThreads : Popped(u)' = Popped(u)
    BY <2>2 DEF Popped
  <2> QED
    BY <2>1, <2>3 DEF MpmcStutter
\* A push takes effect.
<1>10. ASSUME NEW t \in MpmcThreads, PushCasDone(t) PROVE MpmcAbstract!Next
  <2>1. /\ MList' = <<node[t]>> \o MList /\ node[t] \in MpmcNodes
        /\ (ohead[t].next = TAIL) <=> MList = <<>>
    BY <1>1, <1>10, PushCasStep
  <2>2. /\ mpc[t] = "pushcas" /\ mpc'[t] = "idle"
        /\ mpmc_empty' = [mpmc_empty EXCEPT ![t] = (ohead[t].next = TAIL)]
        /\ \A u \in MpmcThreads : u # t => mpc'[u] = mpc[u] /\ node'[u] = node[u]
    BY <1>1, <1>10 DEF PushCasDone, MpmcTypeOK
  <2>3. held' = held
    <3>1. \A u \in MpmcThreads : Popped(u)' = Popped(u)
      BY <2>2 DEF Popped
    <3> QED
      BY <3>1
  <2>4. <<node[t]>> \in MpmcAbstract!Chains
    <3>1. <<node[t]>> \in [1..1 -> MpmcNodes] /\ 1 \in 1..1 /\ DOMAIN <<node[t]>> = {1}
      BY <2>1
    <3>2. MpmcAbstract!IsInjective(<<node[t]>>)
      BY <3>1 DEF MpmcAbstract!IsInjective
    <3> QED
      BY <3>1, <3>2 DEF MpmcAbstract!Chains
  <2>5. MpmcAbstract!Range(<<node[t]>>) \cap MpmcAbstract!Taken = {}
    <3>1. MpmcAbstract!Range(<<node[t]>>) = {node[t]}
      BY DEF MpmcAbstract!Range
    <3>2. node[t] \notin MpmcAbstract!Range(MList)
      BY <1>1, <2>1 DEF MOwned, MpmcAbstract!Range, Range
    <3>3. ASSUME NEW u \in MpmcThreads PROVE node[t] \notin MpmcAbstract!Range(Popped(u))
      <4>1. mpc[u] \in {"unlist", "popped"} => u # t /\ node[u] # node[t]
        BY <1>1, <2>1, <2>2 DEF MOwned
      <4> QED
        BY <4>1 DEF Popped, MpmcAbstract!Range
    <3> QED
      BY <3>1, <3>2, <3>3 DEF MpmcAbstract!Taken, MList
  <2>6. mpmc_empty' = [mpmc_empty EXCEPT ![t] = (MList = <<>>)]
    BY <2>1, <2>2, Zenon
  <2>7. MpmcAbstract!Push(t, <<node[t]>>)
    BY <2>1, <2>3, <2>5, <2>6 DEF MpmcAbstract!Push, MList
  <2> QED
    BY <2>4, <2>7 DEF MpmcAbstract!Next
\* A pop takes effect.
<1>11. ASSUME NEW t \in MpmcThreads, PopCasDone(t) PROVE MpmcAbstract!Next
  <2>1. MList # <<>> /\ MList' = Tail(MList) /\ node'[t] = Head(MList)
    BY <1>1, <1>11, PopCasStep
  <2>2. /\ mpc[t] = "popcas" /\ mpc'[t] = "unlist" /\ mpmc_empty' = mpmc_empty
        /\ \A u \in MpmcThreads : u # t => mpc'[u] = mpc[u] /\ node'[u] = node[u]
    BY <1>1, <1>11 DEF PopCasDone, MpmcTypeOK
  <2>3. held[t] = <<>> /\ Popped(t)' = <<Head(MList)>> /\ \A u \in MpmcThreads : u # t => Popped(u)' = Popped(u)
    BY <2>1, <2>2 DEF Popped
  <2>4. held' = [held EXCEPT ![t] = <<Head(MList)>>]
    BY <2>3
  <2>5. MpmcAbstract!Pop(t)
    BY <2>1, <2>2, <2>3, <2>4 DEF MpmcAbstract!Pop, MList
  <2> QED
    BY <2>5 DEF MpmcAbstract!Next
<1>12. ASSUME NEW t \in MpmcThreads, Dealloc(t) PROVE MpmcAbstract!Next
  <2>1. MList' = MList
    BY <1>1, <1>12, DeallocStep
  <2>2. /\ mpc[t] = "popped" /\ mpc'[t] = "idle" /\ mpmc_empty' = mpmc_empty
        /\ \A u \in MpmcThreads : u # t => mpc'[u] = mpc[u] /\ node'[u] = node[u]
    BY <1>1, <1>12 DEF Dealloc, MpmcTypeOK
  <2>3. held[t] # <<>> /\ Popped(t)' = <<>> /\ \A u \in MpmcThreads : u # t => Popped(u)' = Popped(u)
    BY <2>2 DEF Popped
  <2>4. held' = [held EXCEPT ![t] = <<>>]
    BY <2>3
  <2>5. MpmcAbstract!Drop(t)
    BY <2>1, <2>2, <2>3, <2>4 DEF MpmcAbstract!Drop, MList
  <2> QED
    BY <2>5 DEF MpmcAbstract!Next
<1> QED
  BY <1>2, <1>3, <1>5, <1>6, <1>7, <1>8, <1>9, <1>10, <1>11, <1>12, CasOutcomes DEF MpmcNext

LEMMA MpmcInvAlways == MpmcSpec => []MpmcInv
<1> QED
  BY MpmcInitInv, MpmcInvStep, PTL DEF MpmcSpec

(* A node of MpmcStack is listed, free, or in the hands of one thread, for  *)
(* any number of nodes and threads and any garbage in free nodes.           *)
THEOREM MpmcAlwaysAccounted == MpmcSpec => []MpmcAccounted
  BY MpmcInvAlways, MpmcInvAccounted, PTL

(* push() and pop() of MpmcStack take effect at their compare-and-exchange: *)
(* the stack implements AbstractStack.                                      *)
THEOREM MpmcIsAtomic == MpmcSpec => MpmcAtomic
<1>1. MpmcInv /\ MpmcInv' /\ [MpmcNext]_mpmcVars => [MpmcAbstract!Next]_(MpmcAbstract!vars)
  BY MpmcAbstractStep
<1> QED
  BY <1>1, MpmcInvAlways, MpmcAbstractInit, PTL DEF MpmcSpec, MpmcAtomic, MpmcAbstract!Spec

-----------------------------------------------------------------------------
(* AtomicIntrusiveStack                                                    *)

Listed == ListFrom(head)
Cur(t) == ListFrom(current[t])
Prv(t) == ListFrom(prev[t])

\* The nodes of a thread; `chain' is what it is about to push.
Mine(chain, t) == fresh[t] \cup Range(chain[t]) \cup Range(Cur(t)) \cup Range(Prv(t))

\* The lists of a thread and where it is in push_chain and pop_reversed.
\* The last node of a chain is linked to what head_ was when it was read.
ListsOf(chain, t) ==
  /\ Leads(Nodes, next, current[t], Cur(t), NULL)
  /\ Leads(Nodes, next, prev[t], Prv(t), NULL)
  /\ chain[t] # <<>> <=> pc[t] \in {"link", "pushcas"}
  /\ chain[t] # <<>> => /\ Leads(Nodes, next, first[t], chain[t], next[last[t]])
                        /\ last[t] = chain[t][Len(chain[t])]
  /\ pc[t] = "pushcas" => next[last[t]] = exchange[t]
  /\ pc[t] = "popcas" => prev[t] = NULL /\ exchange[t] # NULL
  /\ pc[t] = "reverse" <=> current[t] # NULL
  /\ fresh[t] \cap (Range(chain[t]) \cup Range(Cur(t)) \cup Range(Prv(t))) = {}
  /\ Range(chain[t]) \cap (Range(Cur(t)) \cup Range(Prv(t))) = {}
  /\ Range(Cur(t)) \cap Range(Prv(t)) = {}

\* Every node is in the list or belongs to one thread.
Apart(chain) ==
  /\ \A t, u \in Threads : t # u => Mine(chain, t) \cap Mine(chain, u) = {}
  /\ \A t \in Threads : Mine(chain, t) \cap Range(Listed) = {}
  /\ \A n \in Nodes : n \in Range(Listed) \/ \E t \in Threads : n \in Mine(chain, t)

Shape(chain) ==
  /\ chain \in [Threads -> Seq(Nodes)]
  /\ Leads(Nodes, next, head, Listed, NULL)
  /\ \A t \in Threads : ListsOf(chain, t)
  /\ Apart(chain)

IntrusiveInv == TypeOK /\ \E chain : Shape(chain)

LEMMA PtrFacts == NULL \notin Nodes /\ NULL \in Ptr /\ Nodes \subseteq Ptr /\ \A p \in Ptr : p # NULL => p \in Nodes
  BY NullAssumption DEF Ptr

LEMMA Listings ==
  /\ Listed = Listing(next, head) /\ Listed' = Listing(next', head')
  /\ \A t : Cur(t) = Listing(next, current[t]) /\ Cur(t)' = Listing(next', current'[t])
  /\ \A t : Prv(t) = Listing(next, prev[t]) /\ Prv(t)' = Listing(next', prev'[t])
<1>1. Listed = Listing(next, head) /\ Listed' = Listing(next', head')
  BY Zenon DEF Listed, ListFrom, Listing
<1>2. ASSUME NEW t PROVE Cur(t) = Listing(next, current[t]) /\ Cur(t)' = Listing(next', current'[t])
  BY Zenon DEF Cur, ListFrom, Listing
<1>3. ASSUME NEW t PROVE Prv(t) = Listing(next, prev[t]) /\ Prv(t)' = Listing(next', prev'[t])
  BY Zenon DEF Prv, ListFrom, Listing
<1> QED
  BY <1>1, <1>2, <1>3

LEMMA ListsKept ==
  ASSUME TypeOK', NEW p, NEW s, Leads(Nodes, next, p, s, NULL), p \in Ptr,
         \A n \in Range(s) : next'[n] = next[n]
  PROVE  Leads(Nodes, next', p, s, NULL) /\ Listing(next', p) = s
<1>1. Leads(Nodes, next', p, s, NULL)
  BY LeadsFrame
<1>2. next' \in [Nodes -> Ptr]
  BY DEF TypeOK
<1> QED
  BY <1>1, <1>2, ListingIs

LEMMA NoList ==
  ASSUME NEW nx \in [Nodes -> Ptr], NEW p \in Ptr, NEW s, Leads(Nodes, nx, p, s, NULL)
  PROVE  s = <<>> <=> p = NULL
<1>1. s # <<>> => p \in Nodes
  BY LeadsTail
<1>2. s = <<>> => p = NULL
  BY DEF Leads
<1> QED
  BY <1>1, <1>2, PtrFacts

LEMMA EmptyRange == Range(<<>>) = {}
  BY DEF Range

\* A thread whose variables and nodes a step does not change.
LEMMA ThreadKept ==
  ASSUME TypeOK, TypeOK', NEW c, NEW d, NEW u \in Threads, ListsOf(c, u), d[u] = c[u],
         pc'[u] = pc[u], exchange'[u] = exchange[u], first'[u] = first[u], last'[u] = last[u],
         current'[u] = current[u], prev'[u] = prev[u], fresh'[u] = fresh[u], c[u] \in Seq(Nodes),
         \A n \in Mine(c, u) : next'[n] = next[n]
  PROVE  ListsOf(d, u)' /\ Cur(u)' = Cur(u) /\ Prv(u)' = Prv(u) /\ Mine(d, u)' = Mine(c, u)
<1>1. current[u] \in Ptr /\ prev[u] \in Ptr
  BY DEF TypeOK
<1>2. /\ \A n \in Range(c[u]) : next'[n] = next[n]
      /\ \A n \in Range(Cur(u)) : next'[n] = next[n]
      /\ \A n \in Range(Prv(u)) : next'[n] = next[n]
  BY DEF Mine
<1>3. /\ Leads(Nodes, next', current'[u], Cur(u), NULL) /\ Cur(u)' = Cur(u)
      /\ Leads(Nodes, next', prev'[u], Prv(u), NULL) /\ Prv(u)' = Prv(u)
  BY <1>1, <1>2, ListsKept, Listings DEF ListsOf
<1>4. c[u] # <<>> => /\ Leads(Nodes, next', first[u], c[u], next'[last[u]])
                     /\ next'[last[u]] = next[last[u]]
  <2> SUFFICES ASSUME c[u] # <<>>
               PROVE  /\ Leads(Nodes, next', first[u], c[u], next'[last[u]])
                      /\ next'[last[u]] = next[last[u]]
    OBVIOUS
  <2>1. Leads(Nodes, next, first[u], c[u], next[last[u]]) /\ last[u] = c[u][Len(c[u])]
    BY DEF ListsOf
  <2>2. last[u] \in Range(c[u])
    <3>1. Len(c[u]) \in 1..Len(c[u])
      BY SeqFacts
    <3> QED
      BY <2>1, <3>1, SeqFacts
  <2>3. Leads(Nodes, next', first[u], c[u], next[last[u]])
    BY <1>2, <2>1, LeadsFrame
  <2> QED
    BY <1>2, <2>2, <2>3
<1>5. Mine(d, u)' = Mine(c, u)
  BY <1>3 DEF Mine
<1>6. pc[u] = "pushcas" => c[u] # <<>>
  BY DEF ListsOf
<1>7. ListsOf(d, u)'
  BY <1>3, <1>4, <1>6 DEF ListsOf
<1> QED
  BY <1>3, <1>5, <1>7

LEMMA ListedKept ==
  ASSUME TypeOK, TypeOK', Leads(Nodes, next, head, Listed, NULL), head' = head,
         \A n \in Range(Listed) : next'[n] = next[n]
  PROVE  Leads(Nodes, next', head', Listed', NULL) /\ Listed' = Listed
<1>1. head \in Ptr
  BY DEF TypeOK
<1> QED
  BY <1>1, ListsKept, Listings

LEMMA ApartKept ==
  ASSUME NEW c, NEW d, Apart(c), Range(Listed') = Range(Listed),
         \A u \in Threads : Mine(d, u)' = Mine(c, u)
  PROVE  Apart(d)'
  BY DEF Apart

LEMMA ShapeFacts ==
  ASSUME NEW c, Shape(c)
  PROVE  /\ \A t \in Threads : ListsOf(c, t) /\ c[t] \in Seq(Nodes)
         /\ Leads(Nodes, next, head, Listed, NULL) /\ Apart(c)
         /\ \A t \in Threads : \A n \in Mine(c, t) : n \notin Range(Listed)
         /\ \A t, u \in Threads : t # u => \A n \in Mine(c, t) : n \notin Mine(c, u)
  BY DEF Shape, Apart

LEMMA IntrusiveInit == Init => IntrusiveInv
<1> SUFFICES ASSUME Init PROVE IntrusiveInv
  OBVIOUS
<1>1. TypeOK
  BY PtrFacts DEF Init, TypeOK
<1>2. next \in [Nodes -> Ptr] /\ NULL \in Ptr
  BY <1>1, PtrFacts DEF TypeOK
<1>3. Listing(next, NULL) = <<>> /\ Leads(Nodes, next, NULL, <<>>, NULL)
  BY <1>2, LeadsEmpty, ListingIs
<1>4. Listed = <<>> /\ Leads(Nodes, next, head, Listed, NULL)
  BY <1>3, Listings DEF Init
<1>5. ASSUME NEW t \in Threads
      PROVE  /\ Cur(t) = <<>> /\ Prv(t) = <<>>
             /\ Leads(Nodes, next, current[t], Cur(t), NULL) /\ Leads(Nodes, next, prev[t], Prv(t), NULL)
  BY <1>3, Listings DEF Init
<1> DEFINE c == [t \in Threads |-> <<>>]
<1>6. ASSUME NEW t \in Threads PROVE ListsOf(c, t) /\ Mine(c, t) = fresh[t]
  BY <1>5, EmptyRange DEF ListsOf, Mine, Init
<1>7. \A t, u \in Threads : t # u => fresh[t] \cap fresh[u] = {}
  BY DEF Init
<1>8. \A n \in Nodes : \E t \in Threads : n \in fresh[t]
  <2>1. UNION {fresh[t] : t \in Threads} = Nodes
    BY DEF Init
  <2> QED
    BY <2>1
<1>9. Apart(c)
  BY <1>4, <1>6, <1>7, <1>8, EmptyRange DEF Apart
<1>10. c \in [Threads -> Seq(Nodes)]
  OBVIOUS
<1>11. Shape(c)
  BY <1>4, <1>6, <1>9, <1>10 DEF Shape
<1> QED
  BY <1>1, <1>11 DEF IntrusiveInv

\* The outcomes of the two compare-and-exchanges.
PushDone(t) ==
  /\ pc[t] = "pushcas" /\ head = exchange[t]
  /\ head' = first[t]
  /\ was_empty' = [was_empty EXCEPT ![t] = (exchange[t] = NULL)]
  /\ pc' = [pc EXCEPT ![t] = "idle"]
  /\ exchange' = [exchange EXCEPT ![t] = NULL]
  /\ first' = [first EXCEPT ![t] = NULL] /\ last' = [last EXCEPT ![t] = NULL]
  /\ next' = next /\ current' = current /\ prev' = prev /\ fresh' = fresh
PushFails(t) ==
  /\ pc[t] = "pushcas"
  /\ exchange' = [exchange EXCEPT ![t] = head]
  /\ pc' = [pc EXCEPT ![t] = "link"]
  /\ head' = head /\ was_empty' = was_empty /\ first' = first /\ last' = last
  /\ next' = next /\ current' = current /\ prev' = prev /\ fresh' = fresh
PopDone(t) ==
  /\ pc[t] = "popcas" /\ head = exchange[t]
  /\ head' = NULL
  /\ current' = [current EXCEPT ![t] = exchange[t]]
  /\ exchange' = [exchange EXCEPT ![t] = NULL]
  /\ pc' = [pc EXCEPT ![t] = "reverse"]
  /\ next' = next /\ first' = first /\ last' = last /\ prev' = prev /\ fresh' = fresh /\ was_empty' = was_empty
PopFails(t) ==
  /\ pc[t] = "popcas"
  /\ exchange' = [exchange EXCEPT ![t] = head]
  /\ pc' = [pc EXCEPT ![t] = IF head = NULL THEN "idle" ELSE "popcas"]
  /\ head' = head /\ current' = current
  /\ next' = next /\ first' = first /\ last' = last /\ prev' = prev /\ fresh' = fresh /\ was_empty' = was_empty

LEMMA Outcomes ==
  ASSUME NEW t
  PROVE  /\ PushCas(t) => PushDone(t) \/ PushFails(t)
         /\ PopCas(t) => PopDone(t) \/ PopFails(t)
<1>1. PushCas(t) => PushDone(t) \/ PushFails(t)
  BY Zenon DEF PushCas, PushDone, PushFails
<1>2. PopCas(t) => PopDone(t) \/ PopFails(t)
  BY Zenon DEF PopCas, PopDone, PopFails
<1> QED
  BY <1>1, <1>2

-----------------------------------------------------------------------------
(* Types                                                                   *)

LEMMA TypeStep ==
  ASSUME IntrusiveInv, [Next]_vars
  PROVE  TypeOK'
<1>1. TypeOK
  BY DEF IntrusiveInv
<1>2. PICK c : Shape(c)
  BY DEF IntrusiveInv
<1>3. CASE UNCHANGED vars
  BY <1>1, <1>3 DEF vars, TypeOK
<1>4. ASSUME NEW t \in Threads, Push(t) PROVE TypeOK'
  <2>1. PICK el \in fresh[t] : StartPush(t, el, el) /\ fresh' = [fresh EXCEPT ![t] = @ \ {el}] /\ prev' = prev
    BY <1>4 DEF Push
  <2>2. el \in Ptr /\ fresh[t] \ {el} \subseteq Nodes
    BY <1>1, <2>1, PtrFacts DEF TypeOK
  <2> QED
    BY <1>1, <2>1, <2>2 DEF StartPush, TypeOK
<1>5. ASSUME NEW t \in Threads, PushPopped(t) PROVE TypeOK'
  <2>1. Leads(Nodes, next, prev[t], Prv(t), NULL) /\ prev[t] # NULL
    BY <1>2, <1>5, ShapeFacts DEF ListsOf, PushPopped
  <2>2. Prv(t) # <<>>
    BY <1>1, <2>1, NoList DEF TypeOK
  <2>3. Prv(t)[Len(Prv(t))] \in Nodes
    <3>1. Prv(t) \in Seq(Nodes)
      BY <2>1 DEF Leads
    <3>2. Len(Prv(t)) \in 1..Len(Prv(t))
      BY <2>2, <3>1
    <3> QED
      BY <3>1, <3>2, SeqFacts
  <2>4. StartPush(t, prev[t], Prv(t)[Len(Prv(t))]) /\ prev' = [prev EXCEPT ![t] = NULL] /\ fresh' = fresh
    BY <1>5 DEF PushPopped, Prv, Last
  <2> QED
    BY <1>1, <2>3, <2>4, PtrFacts DEF StartPush, TypeOK
<1>6. ASSUME NEW t \in Threads, Link(t) PROVE TypeOK'
  BY <1>1, <1>6 DEF Link, TypeOK
<1>7. ASSUME NEW t \in Threads, PushCas(t) PROVE TypeOK'
  <2>1. CASE PushDone(t)
    BY <1>1, <2>1, PtrFacts DEF PushDone, TypeOK
  <2>2. CASE PushFails(t)
    BY <1>1, <2>2 DEF PushFails, TypeOK
  <2> QED
    BY <1>7, <2>1, <2>2, Outcomes
<1>8. ASSUME NEW t \in Threads, PopLoad(t) PROVE TypeOK'
  BY <1>1, <1>8 DEF PopLoad, TypeOK
<1>9. ASSUME NEW t \in Threads, PopCas(t) PROVE TypeOK'
  <2>1. CASE PopDone(t)
    <3>1. exchange[t] # NULL
      BY <1>2, <2>1, ShapeFacts DEF ListsOf, PopDone
    <3> QED
      BY <1>1, <2>1, <3>1, PtrFacts DEF PopDone, TypeOK
  <2>2. CASE PopFails(t)
    <3>1. (IF head = NULL THEN "idle" ELSE "popcas") \in {"idle", "popcas"}
      OBVIOUS
    <3> QED
      BY <1>1, <2>2, <3>1 DEF PopFails, TypeOK
  <2> QED
    BY <1>9, <2>1, <2>2, Outcomes
<1>10. ASSUME NEW t \in Threads, Reversing(t) PROVE TypeOK'
  <2>1. current[t] \in Nodes
    BY <1>1, <1>10, PtrFacts DEF Reversing, TypeOK
  <2>2. next[current[t]] \in Ptr
    BY <1>1, <2>1 DEF TypeOK
  <2>3. current'[t] = next[current[t]]
    BY <1>1, <1>10 DEF Reversing, TypeOK
  <2>4. pc' = [pc EXCEPT ![t] = IF next[current[t]] = NULL THEN "idle" ELSE "reverse"]
    BY <1>10, <2>3, Zenon DEF Reversing
  <2>5. (IF next[current[t]] = NULL THEN "idle" ELSE "reverse") \in {"idle", "reverse"}
    OBVIOUS
  <2> QED
    BY <1>1, <1>10, <2>1, <2>2, <2>3, <2>4, <2>5 DEF Reversing, TypeOK
<1>11. ASSUME NEW t \in Threads, NEW u \in Threads, Recycle(t, u) PROVE TypeOK'
  <2>1. Prv(t) \in Seq(Nodes)
    BY <1>2, ShapeFacts DEF ListsOf, Leads
  <2>2. Range(Prv(t)) \subseteq Nodes
    BY <2>1, SeqFacts
  <2>3. /\ fresh' = [fresh EXCEPT ![u] = @ \cup Range(Prv(t))]
        /\ next' = [n \in Nodes |-> IF n \in Range(Prv(t)) THEN NULL ELSE next[n]]
        /\ prev' = [prev EXCEPT ![t] = NULL]
        /\ UNCHANGED <<head, pc, exchange, first, last, current, was_empty>>
    BY <1>11 DEF Recycle, Prv
  <2>4. next' \in [Nodes -> Ptr]
    BY <1>1, <2>3, PtrFacts DEF TypeOK
  <2> QED
    BY <1>1, <2>2, <2>3, <2>4, PtrFacts DEF TypeOK
<1> QED
  BY <1>3, <1>4, <1>5, <1>6, <1>7, <1>8, <1>9, <1>10, <1>11 DEF Next, ThreadStep

-----------------------------------------------------------------------------
(* Lists and nodes, action by action                                       *)

\* The lists of pop_reversed are those they were.
HeldSame(t) == Cur(t)' = Cur(t) /\ Prv(t)' = Prv(t)

\* A step that leaves links and head_ alone and moves nodes within one thread.
LEMMA ShapeNext ==
  ASSUME TypeOK, TypeOK', NEW c, Shape(c), NEW d, d \in [Threads -> Seq(Nodes)], NEW t \in Threads,
         \A u \in Threads : u # t =>
           /\ d[u] = c[u] /\ pc'[u] = pc[u] /\ exchange'[u] = exchange[u]
           /\ first'[u] = first[u] /\ last'[u] = last[u]
           /\ current'[u] = current[u] /\ prev'[u] = prev[u] /\ fresh'[u] = fresh[u]
           /\ \A n \in Mine(c, u) : next'[n] = next[n],
         head' = head, \A n \in Range(Listed) : next'[n] = next[n],
         ListsOf(d, t)', Mine(d, t)' = Mine(c, t)
  PROVE  Shape(d)' /\ Listed' = Listed /\ \A u \in Threads : u # t => HeldSame(u)
<1>1. \A u \in Threads : u # t => /\ ListsOf(d, u)' /\ Mine(d, u)' = Mine(c, u)
                                  /\ Cur(u)' = Cur(u) /\ Prv(u)' = Prv(u)
  BY ShapeFacts, ThreadKept
<1>2. Leads(Nodes, next', head', Listed', NULL) /\ Listed' = Listed
  BY ShapeFacts, ListedKept
<1>3. \A u \in Threads : ListsOf(d, u)' /\ Mine(d, u)' = Mine(c, u)
  BY <1>1
<1>4. Apart(d)'
  BY <1>2, <1>3, ApartKept, ShapeFacts
<1>5. Shape(d)'
  BY <1>2, <1>3, <1>4 DEF Shape
<1> QED
  BY <1>1, <1>2, <1>5 DEF HeldSame

LEMMA PushShape ==
  ASSUME TypeOK, TypeOK', NEW c, Shape(c), NEW t \in Threads, Push(t)
  PROVE  /\ \E d : Shape(d)'
         /\ Listed' = Listed /\ \A u \in Threads : HeldSame(u)
<1>1. PICK el \in fresh[t] : StartPush(t, el, el) /\ fresh' = [fresh EXCEPT ![t] = @ \ {el}] /\ prev' = prev
  BY DEF Push
<1>2. /\ pc[t] = "idle" /\ pc'[t] = "link" /\ first'[t] = el /\ last'[t] = el /\ fresh'[t] = fresh[t] \ {el}
      /\ head' = head /\ next' = next /\ current' = current /\ prev' = prev /\ el \in Nodes
      /\ \A u \in Threads : u # t => /\ pc'[u] = pc[u] /\ exchange'[u] = exchange[u]
                                     /\ first'[u] = first[u] /\ last'[u] = last[u] /\ fresh'[u] = fresh[u]
  BY <1>1 DEF StartPush, TypeOK
<1> DEFINE d == [c EXCEPT ![t] = <<el>>]
<1>3. /\ c \in [Threads -> Seq(Nodes)] /\ ListsOf(c, t)
  BY DEF Shape
<1>4. /\ d \in [Threads -> Seq(Nodes)] /\ d[t] = <<el>> /\ \A u \in Threads : u # t => d[u] = c[u]
  <2>1. <<el>> \in Seq(Nodes)
    BY <1>2
  <2> QED
    BY <1>3, <2>1
<1> HIDE DEF d
<1>5. c[t] = <<>> /\ current[t] = NULL
  BY <1>2, <1>3 DEF ListsOf
<1>6. Cur(t)' = Cur(t) /\ Prv(t)' = Prv(t)
  BY <1>2, Listings
<1>7. Leads(Nodes, next, el, <<el>>, next[el]) /\ Range(<<el>>) = {el} /\ <<el>> # <<>> /\ <<el>>[Len(<<el>>)] = el
  BY <1>2, LeadsOne
<1>8. ListsOf(d, t)'
  BY <1>1, <1>2, <1>3, <1>4, <1>5, <1>6, <1>7 DEF ListsOf
<1>9. Mine(d, t)' = Mine(c, t)
  BY <1>1, <1>2, <1>4, <1>5, <1>6, <1>7, EmptyRange DEF Mine
<1>10. Shape(d)' /\ Listed' = Listed /\ \A u \in Threads : u # t => HeldSame(u)
  BY <1>2, <1>4, <1>8, <1>9, ShapeNext
<1> QED
  BY <1>6, <1>10 DEF HeldSame

LEMMA PushPoppedShape ==
  ASSUME TypeOK, TypeOK', NEW c, Shape(c), NEW t \in Threads, PushPopped(t)
  PROVE  /\ \E d : Shape(d)'
         /\ Listed' = Listed /\ \A u \in Threads : u # t => HeldSame(u)
         /\ Cur(t) = <<>> /\ Prv(t) # <<>> /\ Cur(t)' = <<>> /\ Prv(t)' = <<>>
<1>1. PICK s : s = Prv(t)
  OBVIOUS
<1>2. /\ Leads(Nodes, next, prev[t], s, NULL) /\ prev[t] # NULL /\ ListsOf(c, t)
      /\ c \in [Threads -> Seq(Nodes)]
  BY <1>1 DEF Shape, ListsOf, PushPopped
<1>3. s # <<>> /\ s \in Seq(Nodes) /\ next[s[Len(s)]] = NULL
  BY <1>2, NoList DEF TypeOK, Leads
<1>4. /\ pc[t] = "idle" /\ pc'[t] = "link" /\ first'[t] = prev[t] /\ last'[t] = s[Len(s)]
      /\ head' = head /\ next' = next /\ current' = current /\ prev'[t] = NULL /\ fresh' = fresh
      /\ \A u \in Threads : u # t => /\ pc'[u] = pc[u] /\ exchange'[u] = exchange[u]
                                     /\ first'[u] = first[u] /\ last'[u] = last[u] /\ prev'[u] = prev[u]
  BY <1>1 DEF PushPopped, StartPush, TypeOK, Prv, Last
<1> DEFINE d == [c EXCEPT ![t] = s]
<1>5. /\ d \in [Threads -> Seq(Nodes)] /\ d[t] = s /\ \A u \in Threads : u # t => d[u] = c[u]
  BY <1>2, <1>3
<1> HIDE DEF d
<1>6. c[t] = <<>> /\ current[t] = NULL
  BY <1>2, <1>4 DEF ListsOf
<1>7. next \in [Nodes -> Ptr] /\ NULL \in Ptr
  BY PtrFacts DEF TypeOK
<1>8. Leads(Nodes, next, NULL, <<>>, NULL) /\ Listing(next, NULL) = <<>>
  BY <1>7, LeadsEmpty, ListingIs
<1>9. Cur(t) = <<>> /\ Cur(t)' = <<>> /\ Prv(t)' = <<>>
  BY <1>4, <1>6, <1>8, Listings
<1>10. ListsOf(d, t)'
  BY <1>1, <1>2, <1>3, <1>4, <1>5, <1>6, <1>8, <1>9, EmptyRange DEF ListsOf
<1>11. Mine(d, t)' = Mine(c, t)
  BY <1>1, <1>4, <1>5, <1>6, <1>9, EmptyRange DEF Mine
<1>12. Shape(d)' /\ Listed' = Listed /\ \A u \in Threads : u # t => HeldSame(u)
  <2>1. \A u \in Threads : u # t =>
          /\ d[u] = c[u] /\ pc'[u] = pc[u] /\ exchange'[u] = exchange[u]
          /\ first'[u] = first[u] /\ last'[u] = last[u]
          /\ current'[u] = current[u] /\ prev'[u] = prev[u] /\ fresh'[u] = fresh[u]
          /\ \A n \in Mine(c, u) : next'[n] = next[n]
    BY <1>4, <1>5
  <2>2. head' = head /\ \A n \in Range(Listed) : next'[n] = next[n]
    BY <1>4
  <2> QED
    BY <1>5, <1>10, <1>11, <2>1, <2>2, ShapeNext
<1> QED
  BY <1>1, <1>3, <1>9, <1>12

LEMMA LinkShape ==
  ASSUME TypeOK, TypeOK', NEW c, Shape(c), NEW t \in Threads, Link(t)
  PROVE  /\ \E d : Shape(d)'
         /\ Listed' = Listed /\ \A u \in Threads : HeldSame(u)
<1>1. /\ pc[t] = "link" /\ pc'[t] = "pushcas" /\ next' = [next EXCEPT ![last[t]] = exchange[t]]
      /\ head' = head /\ exchange' = exchange /\ first' = first /\ last' = last
      /\ current' = current /\ prev' = prev /\ fresh' = fresh
      /\ \A u \in Threads : u # t => pc'[u] = pc[u]
  BY DEF Link, TypeOK
<1>2. ListsOf(c, t) /\ c \in [Threads -> Seq(Nodes)] /\ c[t] \in Seq(Nodes)
  BY DEF Shape
<1>3. /\ c[t] # <<>> /\ Leads(Nodes, next, first[t], c[t], next[last[t]]) /\ last[t] = c[t][Len(c[t])]
      /\ current[t] = NULL
  BY <1>1, <1>2 DEF ListsOf
<1>4. last[t] \in Range(c[t]) /\ last[t] \in Nodes
  <2>1. Len(c[t]) \in 1..Len(c[t])
    BY <1>2, <1>3, SeqFacts
  <2> QED
    BY <1>2, <1>3, <2>1, SeqFacts
<1>5. next'[last[t]] = exchange[t] /\ \A n \in Nodes : n # last[t] => next'[n] = next[n]
  BY <1>1, <1>4 DEF TypeOK
<1>6. Leads(Nodes, next', first[t], c[t], exchange[t])
  <2>1. next \in [Nodes -> Ptr]
    BY DEF TypeOK
  <2> QED
    BY <1>1, <1>3, <2>1, LeadsLink
<1>7. last[t] \in Mine(c, t) /\ last[t] \notin Range(Cur(t)) /\ last[t] \notin Range(Prv(t))
  BY <1>2, <1>4 DEF Mine, ListsOf
<1>8. /\ \A n \in Range(Cur(t)) : next'[n] = next[n]
      /\ \A n \in Range(Prv(t)) : next'[n] = next[n]
  <2>1. Range(Cur(t)) \subseteq Nodes /\ Range(Prv(t)) \subseteq Nodes
    BY <1>2, LeadsFacts DEF ListsOf
  <2> QED
    BY <1>5, <1>7, <2>1
<1>9. current[t] \in Ptr /\ prev[t] \in Ptr
  BY DEF TypeOK
<1>10. /\ Leads(Nodes, next', current'[t], Cur(t), NULL) /\ Cur(t)' = Cur(t)
       /\ Leads(Nodes, next', prev'[t], Prv(t), NULL) /\ Prv(t)' = Prv(t)
  BY <1>1, <1>2, <1>8, <1>9, ListsKept, Listings DEF ListsOf
<1>11. ListsOf(c, t)'
  BY <1>1, <1>2, <1>3, <1>5, <1>6, <1>10 DEF ListsOf
<1>12. Mine(c, t)' = Mine(c, t)
  BY <1>1, <1>10 DEF Mine
<1>13. \A u \in Threads : u # t => \A n \in Mine(c, u) : next'[n] = next[n]
  <2> SUFFICES ASSUME NEW u \in Threads, u # t, NEW n \in Mine(c, u) PROVE next'[n] = next[n]
    OBVIOUS
  <2>1. n # last[t]
    BY <1>7, ShapeFacts
  <2>2. n \in Nodes
    <3>1. ListsOf(c, u) /\ c[u] \in Seq(Nodes) /\ fresh[u] \subseteq Nodes
      BY ShapeFacts DEF TypeOK
    <3>2. Range(c[u]) \subseteq Nodes /\ Range(Cur(u)) \subseteq Nodes /\ Range(Prv(u)) \subseteq Nodes
      BY <3>1, SeqFacts, LeadsFacts DEF ListsOf
    <3> QED
      BY <3>1, <3>2 DEF Mine
  <2> QED
    BY <1>5, <2>1, <2>2
<1>14. \A n \in Range(Listed) : next'[n] = next[n]
  <2>1. Range(Listed) \subseteq Nodes /\ last[t] \notin Range(Listed)
    BY <1>7, ShapeFacts, LeadsFacts
  <2> QED
    BY <1>5, <2>1
<1>15. Shape(c)' /\ Listed' = Listed /\ \A u \in Threads : u # t => HeldSame(u)
  BY <1>1, <1>2, <1>11, <1>12, <1>13, <1>14, ShapeNext
<1> QED
  BY <1>10, <1>15 DEF HeldSame

\* Steps that only read head_, or find that it has changed.
LEMMA ReadShape ==
  ASSUME TypeOK, TypeOK', NEW c, Shape(c), NEW t \in Threads, PushFails(t) \/ PopLoad(t) \/ PopFails(t)
  PROVE  /\ \E d : Shape(d)'
         /\ Listed' = Listed /\ \A u \in Threads : HeldSame(u)
<1>1. /\ head' = head /\ next' = next /\ first' = first /\ last' = last
      /\ current' = current /\ prev' = prev /\ fresh' = fresh
      /\ \A u \in Threads : u # t => pc'[u] = pc[u] /\ exchange'[u] = exchange[u]
  BY DEF PushFails, PopLoad, PopFails, TypeOK
<1>2. ListsOf(c, t) /\ c \in [Threads -> Seq(Nodes)]
  BY DEF Shape
<1>3. \/ pc[t] = "pushcas" /\ pc'[t] = "link"
      \/ /\ pc[t] \in {"idle", "popcas"} /\ pc'[t] \in {"idle", "popcas"}
         /\ pc'[t] = "popcas" => prev[t] = NULL /\ exchange'[t] # NULL
  BY <1>2 DEF PushFails, PopLoad, PopFails, TypeOK, ListsOf
<1>4. Cur(t)' = Cur(t) /\ Prv(t)' = Prv(t)
  BY <1>1, Listings
<1>5. ListsOf(c, t)'
  BY <1>1, <1>2, <1>3, <1>4 DEF ListsOf
<1>6. Mine(c, t)' = Mine(c, t)
  BY <1>1, <1>4 DEF Mine
<1>7. Shape(c)' /\ Listed' = Listed /\ \A u \in Threads : u # t => HeldSame(u)
  BY <1>1, <1>2, <1>5, <1>6, ShapeNext
<1> QED
  BY <1>4, <1>7 DEF HeldSame

\* One node moves from the popped list to the reversed one.
LEMMA ReversingShape ==
  ASSUME TypeOK, TypeOK', NEW c, Shape(c), NEW t \in Threads, Reversing(t)
  PROVE  /\ \E d : Shape(d)'
         /\ Listed' = Listed /\ \A u \in Threads : u # t => HeldSame(u)
         /\ Cur(t) # <<>> /\ Cur(t)' = Tail(Cur(t)) /\ Prv(t)' = <<Head(Cur(t))>> \o Prv(t)
<1> DEFINE a == current[t]
<1>1. ListsOf(c, t) /\ c \in [Threads -> Seq(Nodes)]
  BY DEF Shape
<1>2. pc[t] = "reverse" /\ a # NULL /\ a \in Nodes /\ c[t] = <<>>
  <2>1. pc[t] = "reverse"
    BY DEF Reversing
  <2> QED
    BY <1>1, <2>1, PtrFacts DEF ListsOf, TypeOK
<1>3. /\ next'[a] = prev[t] /\ prev'[t] = a /\ current'[t] = next[a]
      /\ \A n \in Nodes : n # a => next'[n] = next[n]
      /\ \A u \in Threads : u # t => pc'[u] = pc[u] /\ prev'[u] = prev[u] /\ current'[u] = current[u]
      /\ head' = head /\ exchange' = exchange /\ first' = first /\ last' = last /\ fresh' = fresh
  BY <1>2 DEF Reversing, TypeOK
<1>4. pc'[t] = IF next[a] = NULL THEN "idle" ELSE "reverse"
  <2>1. pc' = [pc EXCEPT ![t] = IF current'[t] = NULL THEN "idle" ELSE "reverse"]
    BY DEF Reversing
  <2>2. pc'[t] = IF current'[t] = NULL THEN "idle" ELSE "reverse"
    BY <2>1 DEF TypeOK
  <2> QED
    BY <1>3, <2>2
<1>5. Leads(Nodes, next, a, Cur(t), NULL) /\ Leads(Nodes, next, prev[t], Prv(t), NULL)
  BY <1>1 DEF ListsOf
<1>6. next \in [Nodes -> Ptr] /\ prev[t] \in Ptr /\ next[a] \in Ptr /\ a \in Ptr /\ next' \in [Nodes -> Ptr]
  BY <1>2 DEF TypeOK, Ptr
<1>7. Cur(t) # <<>>
  BY <1>2, <1>5, <1>6, NoList
<1>8. /\ Head(Cur(t)) = a /\ Leads(Nodes, next, next[a], Tail(Cur(t)), NULL)
      /\ a \notin Range(Tail(Cur(t))) /\ Range(Cur(t)) = {a} \cup Range(Tail(Cur(t)))
  BY <1>5, <1>7, LeadsTail
<1>9. a \notin Range(Prv(t)) /\ Range(Tail(Cur(t))) \cap Range(Prv(t)) = {} /\ a \notin fresh[t]
  BY <1>1, <1>8 DEF ListsOf
<1>10. /\ \A n \in Range(Tail(Cur(t))) : next'[n] = next[n]
       /\ \A n \in Range(Prv(t)) : next'[n] = next[n]
  <2>1. Range(Tail(Cur(t))) \subseteq Nodes /\ Range(Prv(t)) \subseteq Nodes
    BY <1>5, <1>8, LeadsFacts
  <2> QED
    BY <1>3, <1>8, <1>9, <2>1
<1>11. Leads(Nodes, next', next[a], Tail(Cur(t)), NULL) /\ Listing(next', next[a]) = Tail(Cur(t))
  BY <1>6, <1>8, <1>10, ListsKept
<1>12. Leads(Nodes, next', prev[t], Prv(t), NULL)
  BY <1>5, <1>10, LeadsFrame
<1>13. Leads(Nodes, next', a, <<a>>, prev[t]) /\ Range(<<a>>) = {a}
  <2>1. Leads(Nodes, next', a, <<a>>, next'[a]) /\ Range(<<a>>) = {a}
    BY <1>2, LeadsOne, Zenon
  <2> QED
    BY <1>3, <2>1, Zenon
<1>14. Leads(Nodes, next', a, <<a>> \o Prv(t), NULL)
  BY <1>9, <1>12, <1>13, LeadsConcat
<1>15. Listing(next', a) = <<a>> \o Prv(t)
  BY <1>6, <1>14, ListingIs
<1>16. Cur(t)' = Tail(Cur(t)) /\ Prv(t)' = <<a>> \o Prv(t)
  BY <1>3, <1>11, <1>15, Listings
<1>17. Range(Prv(t)') = {a} \cup Range(Prv(t))
  <2>1. <<a>> \in Seq(Nodes) /\ Prv(t) \in Seq(Nodes)
    BY <1>2, <1>5 DEF Leads
  <2>2. Range(<<a>> \o Prv(t)) = Range(<<a>>) \cup Range(Prv(t))
    BY <2>1, SeqConcat, Zenon
  <2> QED
    BY <1>13, <1>16, <2>2, Zenon
<1>18. Mine(c, t)' = Mine(c, t)
  BY <1>3, <1>8, <1>16, <1>17 DEF Mine
<1>19. ListsOf(c, t)'
  <2>1. Leads(Nodes, next', current'[t], Cur(t)', NULL) /\ Leads(Nodes, next', prev'[t], Prv(t)', NULL)
    BY <1>3, <1>11, <1>14, <1>16
  <2>2. pc'[t] \notin {"link", "pushcas", "popcas"} /\ (pc'[t] = "reverse" <=> current'[t] # NULL)
    BY <1>3, <1>4
  <2>3. /\ fresh'[t] \cap (Range(c[t]) \cup Range(Cur(t)') \cup Range(Prv(t)')) = {}
        /\ Range(c[t]) \cap (Range(Cur(t)') \cup Range(Prv(t)')) = {}
        /\ Range(Cur(t)') \cap Range(Prv(t)') = {}
    <3>1. /\ fresh[t] \cap (Range(Cur(t)) \cup Range(Prv(t))) = {}
          /\ Range(c[t]) = {}
      BY <1>1, <1>2, EmptyRange DEF ListsOf
    <3> QED
      BY <1>3, <1>8, <1>9, <1>16, <1>17, <3>1
  <2> QED
    BY <1>2, <2>1, <2>2, <2>3 DEF ListsOf
<1>20. a \in Mine(c, t)
  BY <1>8 DEF Mine
<1>21. \A u \in Threads : u # t => \A n \in Mine(c, u) : next'[n] = next[n]
  <2> SUFFICES ASSUME NEW u \in Threads, u # t, NEW n \in Mine(c, u) PROVE next'[n] = next[n]
    OBVIOUS
  <2>1. n # a
    BY <1>20, ShapeFacts
  <2>2. n \in Nodes
    <3>1. ListsOf(c, u) /\ c[u] \in Seq(Nodes) /\ fresh[u] \subseteq Nodes
      BY ShapeFacts DEF TypeOK
    <3>2. Range(c[u]) \subseteq Nodes /\ Range(Cur(u)) \subseteq Nodes /\ Range(Prv(u)) \subseteq Nodes
      BY <3>1, SeqFacts, LeadsFacts DEF ListsOf
    <3> QED
      BY <3>1, <3>2 DEF Mine
  <2> QED
    BY <1>3, <2>1, <2>2
<1>22. \A n \in Range(Listed) : next'[n] = next[n]
  <2>1. Range(Listed) \subseteq Nodes /\ a \notin Range(Listed)
    BY <1>20, ShapeFacts, LeadsFacts
  <2> QED
    BY <1>3, <2>1
<1>23. Shape(c)' /\ Listed' = Listed /\ \A u \in Threads : u # t => HeldSame(u)
  BY <1>1, <1>3, <1>18, <1>19, <1>21, <1>22, ShapeNext
<1> QED
  BY <1>7, <1>8, <1>16, <1>23

\* The compare-and-exchange of a push puts the chain on top of the list.
LEMMA PushDoneShape ==
  ASSUME TypeOK, TypeOK', NEW c, Shape(c), NEW t \in Threads, PushDone(t)
  PROVE  /\ \E d : Shape(d)'
         /\ Listed' = c[t] \o Listed /\ \A u \in Threads : HeldSame(u)
         /\ c[t] # <<>> /\ c[t] \in Seq(Nodes) /\ IsInjective(c[t])
         /\ exchange[t] = NULL <=> Listed = <<>>
<1>1. /\ pc[t] = "pushcas" /\ pc'[t] = "idle" /\ head = exchange[t] /\ head' = first[t]
      /\ next' = next /\ current' = current /\ prev' = prev /\ fresh' = fresh
      /\ \A u \in Threads : u # t => /\ pc'[u] = pc[u] /\ exchange'[u] = exchange[u]
                                     /\ first'[u] = first[u] /\ last'[u] = last[u]
  BY DEF PushDone, TypeOK
<1>2. /\ ListsOf(c, t) /\ c \in [Threads -> Seq(Nodes)] /\ c[t] \in Seq(Nodes)
      /\ Leads(Nodes, next, head, Listed, NULL)
  BY DEF Shape
<1>3. /\ c[t] # <<>> /\ Leads(Nodes, next, first[t], c[t], head)
  BY <1>1, <1>2 DEF ListsOf
<1>4. Range(c[t]) \cap Range(Listed) = {}
  BY ShapeFacts DEF Mine
<1>5. Leads(Nodes, next, first[t], c[t] \o Listed, NULL)
  BY <1>2, <1>3, <1>4, LeadsConcat
<1>6. next \in [Nodes -> Ptr] /\ first[t] \in Ptr /\ head \in Ptr
  BY DEF TypeOK
<1>7. Listed' = c[t] \o Listed
  BY <1>1, <1>5, <1>6, ListingIs, Listings
<1>8. Range(Listed') = Range(c[t]) \cup Range(Listed)
  <2>1. Listed \in Seq(Nodes)
    BY <1>2 DEF Leads
  <2> QED
    BY <1>2, <1>7, <2>1, SeqConcat
<1>9. ASSUME NEW u \in Threads PROVE Cur(u)' = Cur(u) /\ Prv(u)' = Prv(u)
  BY <1>1, Listings
<1> DEFINE d == [c EXCEPT ![t] = <<>>]
<1>10. /\ d \in [Threads -> Seq(Nodes)] /\ d[t] = <<>> /\ \A u \in Threads : u # t => d[u] = c[u]
  BY <1>2
<1> HIDE DEF d
<1>11. ListsOf(d, t)'
  BY <1>1, <1>2, <1>9, <1>10, EmptyRange DEF ListsOf
<1>12. ASSUME NEW u \in Threads, u # t PROVE ListsOf(d, u)' /\ Mine(d, u)' = Mine(c, u)
  <2>1. ListsOf(c, u)
    BY DEF Shape
  <2> QED
    BY <1>1, <1>9, <1>10, <1>12, <2>1 DEF ListsOf, Mine
<1>13. Mine(d, t)' \cup Range(c[t]) = Mine(c, t) /\ Mine(d, t)' \subseteq Mine(c, t) /\ Mine(d, t)' \cap Range(c[t]) = {}
  <2>1. Range(c[t]) \cap (fresh[t] \cup Range(Cur(t)) \cup Range(Prv(t))) = {}
    BY <1>2 DEF ListsOf
  <2>2. Mine(d, t)' = fresh[t] \cup Range(Cur(t)) \cup Range(Prv(t))
    BY <1>1, <1>9, <1>10, EmptyRange DEF Mine
  <2> QED
    BY <2>1, <2>2 DEF Mine
<1>14. Apart(d)'
  <2> SUFFICES /\ \A v, u \in Threads : v # u => Mine(d, v)' \cap Mine(d, u)' = {}
               /\ \A u \in Threads : Mine(d, u)' \cap Range(Listed') = {}
               /\ \A n \in Nodes : n \in Range(Listed') \/ \E u \in Threads : n \in Mine(d, u)'
    BY DEF Apart
  <2>a. Apart(c)
    BY DEF Shape
  <2>b. \A u \in Threads : Mine(d, u)' \subseteq Mine(c, u)
    BY <1>12, <1>13
  <2>1. \A v, u \in Threads : v # u => Mine(d, v)' \cap Mine(d, u)' = {}
    BY <2>a, <2>b DEF Apart
  <2>2. ASSUME NEW u \in Threads PROVE Mine(d, u)' \cap Range(Listed') = {}
    <3>1. Mine(d, u)' \cap Range(Listed) = {}
      BY <2>a, <2>b DEF Apart
    <3>2. Mine(d, u)' \cap Range(c[t]) = {}
      <4>1. CASE u = t
        BY <1>13, <4>1
      <4>2. CASE u # t
        <5>1. Mine(c, u) \cap Mine(c, t) = {}
          BY <2>a, <4>2 DEF Apart
        <5> QED
          BY <1>13, <2>b, <5>1
      <4> QED
        BY <4>1, <4>2
    <3> QED
      BY <1>8, <3>1, <3>2
  <2>3. ASSUME NEW n \in Nodes PROVE n \in Range(Listed') \/ \E u \in Threads : n \in Mine(d, u)'
    <3>1. n \in Range(Listed) \/ \E u \in Threads : n \in Mine(c, u)
      BY <2>a DEF Apart
    <3> QED
      BY <1>8, <1>12, <1>13, <3>1
  <2> QED
    BY <2>1, <2>2, <2>3
<1>15. Shape(d)'
  BY <1>1, <1>5, <1>7, <1>10, <1>11, <1>12, <1>14 DEF Shape
<1>16. exchange[t] = NULL <=> Listed = <<>>
  BY <1>1, <1>2, <1>6, NoList
<1>17. IsInjective(c[t])
  BY <1>3 DEF Leads
<1> QED
  BY <1>2, <1>3, <1>7, <1>9, <1>15, <1>16, <1>17 DEF HeldSame

\* The compare-and-exchange of pop_all takes the whole list.
LEMMA PopDoneShape ==
  ASSUME TypeOK, TypeOK', NEW c, Shape(c), NEW t \in Threads, PopDone(t)
  PROVE  /\ \E d : Shape(d)'
         /\ Listed # <<>> /\ Listed' = <<>> /\ \A u \in Threads : u # t => HeldSame(u)
         /\ Cur(t) = <<>> /\ Prv(t) = <<>> /\ Cur(t)' = Listed /\ Prv(t)' = <<>>
<1>1. /\ pc[t] = "popcas" /\ pc'[t] = "reverse" /\ head = exchange[t] /\ head' = NULL /\ current'[t] = head
      /\ next' = next /\ prev' = prev /\ fresh' = fresh /\ first' = first /\ last' = last
      /\ \A u \in Threads : u # t => pc'[u] = pc[u] /\ exchange'[u] = exchange[u] /\ current'[u] = current[u]
  BY DEF PopDone, TypeOK
<1>2. /\ ListsOf(c, t) /\ c \in [Threads -> Seq(Nodes)] /\ c[t] \in Seq(Nodes)
      /\ Leads(Nodes, next, head, Listed, NULL)
  BY DEF Shape
<1>3. c[t] = <<>> /\ prev[t] = NULL /\ current[t] = NULL /\ head # NULL
  BY <1>1, <1>2 DEF ListsOf
<1>4. next \in [Nodes -> Ptr] /\ NULL \in Ptr /\ head \in Ptr
  BY PtrFacts DEF TypeOK
<1>5. Leads(Nodes, next, NULL, <<>>, NULL) /\ Listing(next, NULL) = <<>>
  BY <1>4, LeadsEmpty, ListingIs
<1>6. Listed # <<>> /\ Listed' = <<>> /\ Listing(next, head) = Listed
  BY <1>1, <1>2, <1>3, <1>4, <1>5, NoList, Listings
<1>7. Cur(t) = <<>> /\ Prv(t) = <<>> /\ Cur(t)' = Listed /\ Prv(t)' = <<>>
  BY <1>1, <1>3, <1>5, <1>6, Listings
<1>8. ASSUME NEW u \in Threads, u # t PROVE Cur(u)' = Cur(u) /\ Prv(u)' = Prv(u)
  BY <1>1, <1>8, Listings
<1>9. Mine(c, t) \cap Range(Listed) = {} /\ Mine(c, t) = fresh[t]
  BY <1>3, <1>7, EmptyRange, ShapeFacts DEF Mine
<1>10. ListsOf(c, t)'
  <2>1. Leads(Nodes, next', current'[t], Cur(t)', NULL) /\ Leads(Nodes, next', prev'[t], Prv(t)', NULL)
    BY <1>1, <1>2, <1>3, <1>5, <1>7
  <2>2. pc'[t] = "reverse" /\ current'[t] # NULL
    BY <1>1, <1>3
  <2>3. fresh'[t] \cap Range(Cur(t)') = {} /\ Range(Prv(t)') = {} /\ Range(c[t]) = {}
    BY <1>1, <1>3, <1>7, <1>9, EmptyRange
  <2> QED
    BY <1>3, <2>1, <2>2, <2>3 DEF ListsOf
<1>11. ASSUME NEW u \in Threads, u # t PROVE ListsOf(c, u)' /\ Mine(c, u)' = Mine(c, u)
  <2>1. ListsOf(c, u)
    BY DEF Shape
  <2> QED
    BY <1>1, <1>8, <1>11, <2>1 DEF ListsOf, Mine
<1>12. Mine(c, t)' = Mine(c, t) \cup Range(Listed)
  BY <1>1, <1>3, <1>7, <1>9, EmptyRange DEF Mine
<1>13. Apart(c)'
  <2> SUFFICES /\ \A v, u \in Threads : v # u => Mine(c, v)' \cap Mine(c, u)' = {}
               /\ \A n \in Nodes : \E u \in Threads : n \in Mine(c, u)'
    BY <1>6, EmptyRange DEF Apart
  <2>a. Apart(c)
    BY DEF Shape
  <2>1. ASSUME NEW u \in Threads, u # t PROVE Mine(c, t)' \cap Mine(c, u)' = {}
    BY <1>11, <1>12, <2>1, <2>a DEF Apart
  <2>2. ASSUME NEW v \in Threads, NEW u \in Threads, v # u PROVE Mine(c, v)' \cap Mine(c, u)' = {}
    <3>1. CASE v # t /\ u # t
      BY <1>11, <2>2, <2>a, <3>1 DEF Apart
    <3>2. CASE v = t \/ u = t
      BY <2>1, <2>2, <3>2
    <3> QED
      BY <3>1, <3>2
  <2>3. ASSUME NEW n \in Nodes PROVE \E u \in Threads : n \in Mine(c, u)'
    <3>1. n \in Range(Listed) \/ \E u \in Threads : n \in Mine(c, u)
      BY <2>a DEF Apart
    <3> QED
      BY <1>11, <1>12, <3>1
  <2> QED
    BY <2>2, <2>3
<1>14. Leads(Nodes, next', head', Listed', NULL)
  BY <1>1, <1>5, <1>6
<1>15. Shape(c)'
  BY <1>2, <1>10, <1>11, <1>13, <1>14 DEF Shape
<1> QED
  BY <1>6, <1>7, <1>8, <1>15 DEF HeldSame

\* The popped nodes go to the allocator, and from there to any thread.
LEMMA RecycleShape ==
  ASSUME TypeOK, TypeOK', NEW c, Shape(c), NEW t \in Threads, NEW w \in Threads, Recycle(t, w)
  PROVE  /\ \E d : Shape(d)'
         /\ Listed' = Listed /\ \A u \in Threads : u # t => HeldSame(u)
         /\ Cur(t) = <<>> /\ Prv(t) # <<>> /\ Cur(t)' = <<>> /\ Prv(t)' = <<>>
<1> DEFINE S == Range(Prv(t))
<1>1. /\ pc[t] = "idle" /\ prev[t] # NULL
      /\ fresh' = [fresh EXCEPT ![w] = @ \cup S]
      /\ next' = [n \in Nodes |-> IF n \in S THEN NULL ELSE next[n]]
      /\ prev' = [prev EXCEPT ![t] = NULL]
      /\ head' = head /\ pc' = pc /\ exchange' = exchange /\ first' = first /\ last' = last /\ current' = current
  BY DEF Recycle, Prv
<1>2. /\ fresh'[w] = fresh[w] \cup S /\ \A u \in Threads : u # w => fresh'[u] = fresh[u]
      /\ prev'[t] = NULL /\ \A u \in Threads : u # t => prev'[u] = prev[u]
  BY <1>1 DEF TypeOK
<1>3. \A u \in Threads : /\ ListsOf(c, u) /\ c[u] \in Seq(Nodes) /\ Range(c[u]) \subseteq Nodes
                         /\ Range(Cur(u)) \subseteq Nodes /\ Range(Prv(u)) \subseteq Nodes
                         /\ Leads(Nodes, next, current[u], Cur(u), NULL)
                         /\ Leads(Nodes, next, prev[u], Prv(u), NULL)
  <2> SUFFICES ASSUME NEW u \in Threads
               PROVE  /\ ListsOf(c, u) /\ c[u] \in Seq(Nodes) /\ Range(c[u]) \subseteq Nodes
                      /\ Range(Cur(u)) \subseteq Nodes /\ Range(Prv(u)) \subseteq Nodes
                      /\ Leads(Nodes, next, current[u], Cur(u), NULL)
                      /\ Leads(Nodes, next, prev[u], Prv(u), NULL)
    OBVIOUS
  <2>1. ListsOf(c, u) /\ c[u] \in Seq(Nodes)
    BY ShapeFacts
  <2>2. Leads(Nodes, next, current[u], Cur(u), NULL) /\ Leads(Nodes, next, prev[u], Prv(u), NULL)
    BY <2>1 DEF ListsOf
  <2> QED
    BY <2>1, <2>2, SeqFacts, LeadsFacts
<1>4. S \subseteq Nodes /\ S \subseteq Mine(c, t)
  BY <1>3 DEF Mine
<1>5. \A n \in Nodes : n \notin S => next'[n] = next[n]
  BY <1>1
<1>6. next \in [Nodes -> Ptr] /\ next' \in [Nodes -> Ptr] /\ NULL \in Ptr
      /\ \A u \in Threads : current[u] \in Ptr /\ prev[u] \in Ptr
  BY PtrFacts DEF TypeOK
<1>7. c[t] = <<>> /\ current[t] = NULL /\ Cur(t) = <<>> /\ Prv(t) # <<>>
  <2>1. c[t] = <<>> /\ current[t] = NULL
    BY <1>1, <1>3 DEF ListsOf
  <2> QED
    BY <1>1, <1>3, <1>6, <2>1, NoList
<1>8. /\ Leads(Nodes, next', NULL, <<>>, NULL) /\ Listing(next', NULL) = <<>>
  BY <1>6, LeadsEmpty, ListingIs
<1>9. Cur(t)' = <<>> /\ Prv(t)' = <<>>
  BY <1>1, <1>2, <1>7, <1>8, Listings
<1>10. ASSUME NEW u \in Threads, u # t PROVE S \cap (Range(c[u]) \cup Range(Cur(u)) \cup Range(Prv(u)) \cup fresh[u]) = {}
  <2>1. Mine(c, t) \cap Mine(c, u) = {}
    BY <1>10 DEF Shape, Apart
  <2> QED
    BY <1>4, <2>1 DEF Mine
<1>11. ASSUME NEW u \in Threads, u # t
       PROVE  /\ Leads(Nodes, next', current'[u], Cur(u), NULL) /\ Cur(u)' = Cur(u)
              /\ Leads(Nodes, next', prev'[u], Prv(u), NULL) /\ Prv(u)' = Prv(u)
  <2>1. \A n \in Range(Cur(u)) : next'[n] = next[n]
    BY <1>3, <1>5, <1>10, <1>11
  <2>2. \A n \in Range(Prv(u)) : next'[n] = next[n]
    BY <1>3, <1>5, <1>10, <1>11
  <2>3. Leads(Nodes, next', current[u], Cur(u), NULL) /\ Listing(next', current[u]) = Cur(u)
    BY <1>3, <1>6, <2>1, ListsKept
  <2>4. Leads(Nodes, next', prev[u], Prv(u), NULL) /\ Listing(next', prev[u]) = Prv(u)
    BY <1>3, <1>6, <2>2, ListsKept
  <2> QED
    BY <1>1, <1>2, <1>11, <2>3, <2>4, Listings
<1>12. ASSUME NEW u \in Threads, u # t
       PROVE  c[u] # <<>> => /\ Leads(Nodes, next', first[u], c[u], next'[last[u]])
                             /\ next'[last[u]] = next[last[u]]
  <2> SUFFICES ASSUME c[u] # <<>>
               PROVE  /\ Leads(Nodes, next', first[u], c[u], next'[last[u]])
                      /\ next'[last[u]] = next[last[u]]
    OBVIOUS
  <2>1. Leads(Nodes, next, first[u], c[u], next[last[u]]) /\ last[u] = c[u][Len(c[u])]
    BY <1>3 DEF ListsOf
  <2>2. last[u] \in Range(c[u])
    <3>1. Len(c[u]) \in 1..Len(c[u])
      BY <1>3, SeqFacts
    <3> QED
      BY <1>3, <2>1, <3>1, SeqFacts
  <2>3. \A n \in Range(c[u]) : next'[n] = next[n]
    BY <1>3, <1>5, <1>10, <1>12
  <2>4. Leads(Nodes, next', first[u], c[u], next[last[u]])
    BY <2>1, <2>3, LeadsFrame
  <2> QED
    BY <2>2, <2>3, <2>4
<1>13. Leads(Nodes, next', head', Listed', NULL) /\ Listed' = Listed
  <2>1. Leads(Nodes, next, head, Listed, NULL) /\ Mine(c, t) \cap Range(Listed) = {}
    BY DEF Shape, Apart
  <2>2. Range(Listed) \subseteq Nodes
    BY <2>1, LeadsFacts
  <2>3. \A n \in Range(Listed) : next'[n] = next[n]
    BY <1>4, <1>5, <2>1, <2>2
  <2> QED
    BY <1>1, <2>1, <2>3, ListedKept
\* Who has which nodes now.
<1>14. Mine(c, t)' = IF w = t THEN Mine(c, t) ELSE Mine(c, t) \ S
  <2>1. Mine(c, t) = fresh[t] \cup S /\ fresh[t] \cap S = {}
    BY <1>3, <1>7, EmptyRange DEF Mine, ListsOf
  <2>2. Mine(c, t)' = fresh'[t]
    BY <1>7, <1>9, EmptyRange DEF Mine
  <2> QED
    BY <1>2, <2>1, <2>2
<1>15. ASSUME NEW u \in Threads, u # t
       PROVE  Mine(c, u)' = IF u = w THEN Mine(c, u) \cup S ELSE Mine(c, u)
  BY <1>2, <1>11, <1>15 DEF Mine
<1>16. Apart(c)'
  <2> SUFFICES /\ \A v, u \in Threads : v # u => Mine(c, v)' \cap Mine(c, u)' = {}
               /\ \A u \in Threads : Mine(c, u)' \cap Range(Listed') = {}
               /\ \A n \in Nodes : n \in Range(Listed') \/ \E u \in Threads : n \in Mine(c, u)'
    BY DEF Apart
  <2>a. Apart(c)
    BY DEF Shape
  <2>b. \A u \in Threads : Mine(c, u)' \subseteq Mine(c, u) \cup S /\ (u # w => S \cap Mine(c, u)' = {})
    <3> SUFFICES ASSUME NEW u \in Threads PROVE Mine(c, u)' \subseteq Mine(c, u) \cup S /\ (u # w => S \cap Mine(c, u)' = {})
      OBVIOUS
    <3>1. CASE u = t
      BY <1>14, <3>1
    <3>2. CASE u # t
      <4>1. S \cap Mine(c, u) = {}
        BY <1>10, <3>2 DEF Mine
      <4> QED
        BY <1>15, <3>2, <4>1
    <3> QED
      BY <3>1, <3>2
  <2>1. ASSUME NEW v \in Threads, NEW u \in Threads, v # u PROVE Mine(c, v)' \cap Mine(c, u)' = {}
    <3>1. Mine(c, v) \cap Mine(c, u) = {}
      BY <2>1, <2>a DEF Apart
    <3>2. S \cap Mine(c, v)' = {} \/ S \cap Mine(c, u)' = {}
      BY <2>1, <2>b
    <3>3. \/ Mine(c, v)' \subseteq Mine(c, v) /\ Mine(c, u)' \subseteq Mine(c, u) \cup S
          \/ Mine(c, u)' \subseteq Mine(c, u) /\ Mine(c, v)' \subseteq Mine(c, v) \cup S
      BY <2>b, <3>2
    <3> QED
      BY <3>1, <3>2, <3>3
  <2>2. ASSUME NEW u \in Threads PROVE Mine(c, u)' \cap Range(Listed') = {}
    <3>1. Mine(c, u) \cap Range(Listed) = {} /\ S \cap Range(Listed) = {}
      BY <1>4, <2>a DEF Apart
    <3> QED
      BY <1>13, <2>b, <3>1
  <2>3. ASSUME NEW n \in Nodes PROVE n \in Range(Listed') \/ \E u \in Threads : n \in Mine(c, u)'
    <3>1. S \subseteq Mine(c, w)'
      BY <1>4, <1>14, <1>15
    <3>2. CASE n \in S
      BY <3>1, <3>2
    <3>3. CASE n \notin S
      <4>1. n \in Range(Listed) \/ \E u \in Threads : n \in Mine(c, u)
        BY <2>a DEF Apart
      <4>2. \A u \in Threads : n \in Mine(c, u) => n \in Mine(c, u)'
        BY <1>14, <1>15, <3>3
      <4> QED
        BY <1>13, <4>1, <4>2
    <3> QED
      BY <3>2, <3>3
  <2> QED
    BY <2>1, <2>2, <2>3
<1>17. ListsOf(c, t)'
  <2>1. Leads(Nodes, next', current'[t], Cur(t)', NULL) /\ Leads(Nodes, next', prev'[t], Prv(t)', NULL)
    BY <1>1, <1>2, <1>7, <1>8, <1>9
  <2> QED
    BY <1>1, <1>7, <1>9, <2>1, EmptyRange DEF ListsOf
<1>18. ASSUME NEW u \in Threads, u # t PROVE ListsOf(c, u)'
  <2>1. ListsOf(c, u)
    BY <1>3
  <2>2. pc[u] = "pushcas" => next'[last'[u]] = exchange'[u]
    BY <1>1, <1>12, <1>18, <2>1 DEF ListsOf
  <2>3. fresh'[u] \cap (Range(c[u]) \cup Range(Cur(u)) \cup Range(Prv(u))) = {}
    <3>1. fresh'[u] \subseteq fresh[u] \cup S
      BY <1>2
    <3>2. fresh[u] \cap (Range(c[u]) \cup Range(Cur(u)) \cup Range(Prv(u))) = {}
      BY <2>1 DEF ListsOf
    <3> QED
      BY <1>10, <1>18, <3>1, <3>2
  <2>4. c[u] # <<>> => /\ Leads(Nodes, next', first'[u], c[u], next'[last'[u]])
                       /\ last'[u] = c[u][Len(c[u])]
    BY <1>1, <1>12, <1>18, <2>1 DEF ListsOf
  <2>5. pc[u] = "popcas" => prev'[u] = NULL /\ exchange'[u] # NULL
    BY <1>1, <1>2, <1>18, <2>1 DEF ListsOf
  <2> QED
    BY <1>1, <1>11, <1>18, <2>1, <2>2, <2>3, <2>4, <2>5 DEF ListsOf
<1>19. c \in [Threads -> Seq(Nodes)]
  BY DEF Shape
<1>20. Shape(c)'
  BY <1>13, <1>16, <1>17, <1>18, <1>19 DEF Shape
<1> QED
  BY <1>7, <1>9, <1>11, <1>13, <1>20 DEF HeldSame

-----------------------------------------------------------------------------
(* AtomicIntrusiveStack: results                                           *)

LEMMA IntrusiveStep ==
  ASSUME IntrusiveInv, [Next]_vars
  PROVE  IntrusiveInv'
<1>1. TypeOK /\ TypeOK'
  BY TypeStep DEF IntrusiveInv
<1>2. PICK c : Shape(c)
  BY DEF IntrusiveInv
<1> SUFFICES \E d : Shape(d)'
  BY <1>1 DEF IntrusiveInv
<1>3. CASE UNCHANGED vars
  <2>1. /\ pc' = pc /\ exchange' = exchange /\ first' = first /\ last' = last /\ current' = current
        /\ prev' = prev /\ fresh' = fresh /\ next' = next /\ head' = head
    BY <1>3 DEF vars
  <2>2. /\ \A t \in Threads : ListsOf(c, t) /\ c[t] \in Seq(Nodes)
        /\ Leads(Nodes, next, head, Listed, NULL) /\ Apart(c)
    BY <1>2, ShapeFacts
  <2>3. \A u \in Threads : ListsOf(c, u)' /\ Mine(c, u)' = Mine(c, u)
    BY <1>1, <2>1, <2>2, ThreadKept
  <2>4. Leads(Nodes, next', head', Listed', NULL) /\ Listed' = Listed
    BY <1>1, <2>1, <2>2, ListedKept
  <2>5. Apart(c)'
    BY <2>2, <2>3, <2>4, ApartKept
  <2>6. Shape(c)'
    BY <1>2, <2>3, <2>4, <2>5 DEF Shape
  <2> QED
    BY <2>6
<1>4. ASSUME NEW t \in Threads, Push(t) PROVE \E d : Shape(d)'
  BY <1>1, <1>2, <1>4, PushShape
<1>5. ASSUME NEW t \in Threads, PushPopped(t) PROVE \E d : Shape(d)'
  BY <1>1, <1>2, <1>5, PushPoppedShape
<1>6. ASSUME NEW t \in Threads, Link(t) PROVE \E d : Shape(d)'
  BY <1>1, <1>2, <1>6, LinkShape
<1>7. ASSUME NEW t \in Threads, PushDone(t) PROVE \E d : Shape(d)'
  BY <1>1, <1>2, <1>7, PushDoneShape
<1>8. ASSUME NEW t \in Threads, PopDone(t) PROVE \E d : Shape(d)'
  BY <1>1, <1>2, <1>8, PopDoneShape
<1>9. ASSUME NEW t \in Threads, PushFails(t) \/ PopLoad(t) \/ PopFails(t) PROVE \E d : Shape(d)'
  BY <1>1, <1>2, <1>9, ReadShape
<1>10. ASSUME NEW t \in Threads, Reversing(t) PROVE \E d : Shape(d)'
  BY <1>1, <1>2, <1>10, ReversingShape
<1>11. ASSUME NEW t \in Threads, NEW u \in Threads, Recycle(t, u) PROVE \E d : Shape(d)'
  BY <1>1, <1>2, <1>11, RecycleShape
<1> QED
  BY <1>3, <1>4, <1>5, <1>6, <1>7, <1>8, <1>9, <1>10, <1>11, Outcomes DEF Next, ThreadStep

LEMMA IntrusiveInvAlways == Spec => []IntrusiveInv
<1>1. IntrusiveInv /\ [Next]_vars => IntrusiveInv'
  BY IntrusiveStep
<1> QED
  BY <1>1, IntrusiveInit, PTL DEF Spec

LEMMA SeqEqual ==
  ASSUME NEW N, NEW a \in Seq(N), NEW b \in Seq(N), Len(a) = Len(b), \A i \in 1..Len(a) : a[i] = b[i]
  PROVE  a = b
  OBVIOUS

LEMMA ReverseFacts ==
  ASSUME NEW N, NEW s \in Seq(N)
  PROVE  /\ Reverse(s) \in Seq(N) /\ Len(Reverse(s)) = Len(s)
         /\ \A i \in 1..Len(s) : Reverse(s)[i] = s[Len(s) - i + 1]
         /\ Range(Reverse(s)) = Range(s)
<1> DEFINE r == [i \in 1..Len(s) |-> s[(Len(s) - i) + 1]]
<1>1. Reverse(s) = r
  BY DEF Reverse
<1>2. Len(s) \in Nat /\ \A i \in 1..Len(s) : s[i] \in N
  OBVIOUS
<1>3. \A i \in 1..Len(s) : Len(s) - i + 1 \in 1..Len(s) /\ Len(s) - (Len(s) - i + 1) + 1 = i
  BY <1>2
<1>4. \A i \in 1..Len(s) : r[i] = s[Len(s) - i + 1]
  OBVIOUS
<1>5. r \in [1..Len(s) -> N]
  BY <1>2, <1>3
<1>6. r \in Seq(N) /\ Len(r) = Len(s)
  BY <1>2, <1>5
<1> HIDE DEF r
<1>7. ASSUME NEW x \in Range(s) PROVE x \in Range(r)
  <2>1. PICK i \in 1..Len(s) : s[i] = x
    BY SeqFacts
  <2>2. r[Len(s) - i + 1] = x /\ Len(s) - i + 1 \in 1..Len(r)
    BY <1>3, <1>4, <1>6, <2>1
  <2> QED
    BY <1>6, <2>2, SeqFacts
<1>8. ASSUME NEW x \in Range(r) PROVE x \in Range(s)
  <2>1. PICK i \in 1..Len(s) : r[i] = x
    BY <1>6, SeqFacts
  <2>2. s[Len(s) - i + 1] = x /\ Len(s) - i + 1 \in 1..Len(s)
    BY <1>3, <1>4, <2>1
  <2> QED
    BY <2>2, SeqFacts
<1> QED
  BY <1>1, <1>4, <1>6, <1>7, <1>8

LEMMA HeldNone ==
  ASSUME NEW N, NEW p \in Seq(N)
  PROVE  Reverse(<<>>) \o p = p /\ Reverse(p) \o <<>> = Reverse(p)
<1>1. Reverse(<<>>) \in Seq(N) /\ Len(Reverse(<<>>)) = 0
  <2>1. <<>> \in Seq(N) /\ Len(<<>>) = 0
    OBVIOUS
  <2> QED
    BY <2>1, ReverseFacts
<1>2. Reverse(<<>>) = <<>>
  BY <1>1, SeqFacts
<1>3. Reverse(p) \in Seq(N)
  BY ReverseFacts
<1> QED
  BY <1>2, <1>3

\* A turn of the loop in pop_reversed does not change what is held.
LEMMA HeldTurn ==
  ASSUME NEW N, NEW s \in Seq(N), NEW p \in Seq(N), s # <<>>
  PROVE  Reverse(Tail(s)) \o (<<Head(s)>> \o p) = Reverse(s) \o p
<1> DEFINE u == Tail(s)  one == <<Head(s)>>  q == one \o p
           ru == Reverse(u)  rs == Reverse(s)  a == ru \o q  b == rs \o p
<1>1. /\ Len(s) \in Nat /\ Len(s) > 0 /\ Len(p) \in Nat /\ Head(s) = s[1] /\ Head(s) \in N
      /\ u \in Seq(N) /\ Len(u) = Len(s) - 1 /\ \A i \in 1..Len(s) - 1 : u[i] = s[i + 1]
  OBVIOUS
<1>2. one \in Seq(N) /\ Len(one) = 1 /\ one[1] = s[1] /\ 1 \in 1..1
  BY <1>1
<1> HIDE DEF u, one
<1>3. /\ q \in Seq(N) /\ Len(q) = 1 + Len(p) /\ q[1] = s[1]
      /\ \A i \in 1..Len(p) : q[1 + i] = p[i]
  BY <1>2, SeqConcat
<1>4. /\ ru \in Seq(N) /\ Len(ru) = Len(s) - 1
      /\ \A i \in 1..Len(u) : ru[i] = u[Len(u) - i + 1]
  <2>1. /\ ru \in Seq(N) /\ Len(ru) = Len(u)
        /\ \A i \in 1..Len(u) : ru[i] = u[Len(u) - i + 1]
    BY <1>1, ReverseFacts
  <2> QED
    BY <1>1, <2>1
<1>5. /\ rs \in Seq(N) /\ Len(rs) = Len(s)
      /\ \A i \in 1..Len(s) : rs[i] = s[Len(s) - i + 1]
  BY ReverseFacts
<1> HIDE DEF q, ru, rs
<1>6. /\ a \in Seq(N) /\ Len(a) = Len(ru) + Len(q)
      /\ \A i \in 1..Len(ru) : a[i] = ru[i]
      /\ \A i \in 1..Len(q) : a[Len(ru) + i] = q[i]
  <2>1. q \in Seq(N) /\ ru \in Seq(N)
    BY <1>3, <1>4
  <2> QED
    BY <2>1, SeqConcat
<1>7. /\ b \in Seq(N) /\ Len(b) = Len(rs) + Len(p)
      /\ \A i \in 1..Len(rs) : b[i] = rs[i]
      /\ \A i \in 1..Len(p) : b[Len(rs) + i] = p[i]
  <2>1. p \in Seq(N) /\ rs \in Seq(N)
    BY <1>5
  <2> QED
    BY <2>1, SeqConcat
<1> HIDE DEF a, b
<1>8. Len(a) = Len(b) /\ Len(a) \in Nat /\ Len(a) = Len(s) + Len(p)
  BY <1>1, <1>3, <1>4, <1>5, <1>6, <1>7
<1>9. ASSUME NEW i \in 1..Len(a) PROVE a[i] = b[i]
  <2>1. CASE i \in 1..Len(s) - 1
    <3> DEFINE k == Len(u) - i + 1
    <3>1. /\ i \in 1..Len(s) /\ i \in 1..Len(u) /\ i \in 1..Len(ru) /\ i \in 1..Len(rs)
          /\ k \in 1..Len(s) - 1 /\ k + 1 = Len(s) - i + 1
      BY <1>1, <1>4, <1>5, <2>1
    <3>2. a[i] = u[k] /\ u[k] = s[k + 1]
      BY <1>1, <1>4, <1>6, <3>1
    <3> QED
      BY <1>5, <1>7, <3>1, <3>2
  <2>2. CASE i = Len(s)
    <3>1. i \in 1..Len(s) /\ i \in 1..Len(rs) /\ Len(s) - i + 1 = 1 /\ Len(ru) + 1 = i /\ 1 \in 1..Len(q)
      BY <1>1, <1>3, <1>4, <1>5, <2>2
    <3> QED
      BY <1>3, <1>5, <1>6, <1>7, <3>1
  <2>3. CASE i > Len(s)
    <3> DEFINE k == i - Len(s)
    <3>1. k \in 1..Len(p) /\ 1 + k \in 1..Len(q) /\ i = Len(ru) + (1 + k) /\ i = Len(rs) + k
      BY <1>1, <1>3, <1>4, <1>5, <1>8, <2>3
    <3> HIDE DEF k
    <3>2. a[i] = q[1 + k] /\ b[i] = p[k]
      BY <1>6, <1>7, <3>1
    <3> QED
      BY <1>3, <3>1, <3>2
  <2> QED
    BY <1>1, <1>8, <2>1, <2>2, <2>3
<1>10. a = b
  BY <1>6, <1>7, <1>8, <1>9, SeqEqual
<1> QED
  BY <1>10 DEF a, b, ru, rs, q, u, one

LEMMA HeldIs ==
  \A t : /\ Held(t) = Reverse(Cur(t)) \o Prv(t)
         /\ Held(t)' = Reverse(Cur(t)') \o Prv(t)'
<1> TAKE t
<1>1. Held(t) = Reverse(Cur(t)) \o Prv(t)
  BY Zenon DEF Held, Cur, Prv
<1>2. Held(t)' = Reverse(Cur(t)') \o Prv(t)'
  BY Zenon DEF Held, Cur, Prv
<1> QED
  BY <1>1, <1>2

LEMMA HeldFacts ==
  ASSUME NEW c, Shape(c), NEW t \in Threads
  PROVE  /\ Cur(t) \in Seq(Nodes) /\ Prv(t) \in Seq(Nodes)
         /\ Range(Held(t)) = Range(Cur(t)) \cup Range(Prv(t))
         /\ Held(t) = <<>> <=> Cur(t) = <<>> /\ Prv(t) = <<>>
<1>1. Cur(t) \in Seq(Nodes) /\ Prv(t) \in Seq(Nodes)
  BY ShapeFacts DEF ListsOf, Leads
<1>2. Reverse(Cur(t)) \in Seq(Nodes) /\ Range(Reverse(Cur(t))) = Range(Cur(t))
  BY <1>1, ReverseFacts
<1>3. Held(t) \in Seq(Nodes) /\ Range(Held(t)) = Range(Cur(t)) \cup Range(Prv(t))
  <2>1. /\ Reverse(Cur(t)) \o Prv(t) \in Seq(Nodes)
        /\ Range(Reverse(Cur(t)) \o Prv(t)) = Range(Reverse(Cur(t))) \cup Range(Prv(t))
    BY <1>1, <1>2, SeqConcat
  <2>2. Held(t) = Reverse(Cur(t)) \o Prv(t)
    BY HeldIs
  <2> QED
    BY <1>2, <2>1, <2>2
<1>4. /\ Held(t) = <<>> <=> Range(Held(t)) = {}
      /\ Cur(t) = <<>> <=> Range(Cur(t)) = {}
      /\ Prv(t) = <<>> <=> Range(Prv(t)) = {}
  BY <1>1, <1>3, SeqFacts
<1> QED
  BY <1>1, <1>3, <1>4

\* The nodes that NodesAccounted finds from the first to the last of a chain.
ChainNodes(t) ==
  LET l == ListFrom(first[t])
  IN {l[i] : i \in {k \in DOMAIN l : \A m \in 1..k-1 : l[m] # last[t]}}

LEMMA ChainIs ==
  ASSUME TypeOK, NEW c, Shape(c), NEW t \in Threads, c[t] # <<>>
  PROVE  ChainNodes(t) = Range(c[t])
<1> DEFINE K == Cardinality(Nodes)  s == c[t]  l == Listing(next, first[t])
<1>1. /\ s \in Seq(Nodes) /\ s # <<>> /\ Leads(Nodes, next, first[t], s, next[last[t]])
      /\ last[t] = s[Len(s)]
  BY ShapeFacts DEF ListsOf
<1>2. next \in [Nodes -> Ptr] /\ first[t] \in Ptr
  BY DEF TypeOK
<1>3. IsFiniteSet(Nodes)
  BY NullAssumption
<1>4. PICK f \in [0..K -> Ptr] :
             /\ Follows(f, Nodes, next, NULL, first[t], K)
             /\ l = [i \in 1..Cardinality({n \in 0..K : f[n] \in Nodes}) |-> f[i-1]]
  BY <1>2, ListingFollows
<1> DEFINE L == Cardinality({n \in 0..K : f[n] \in Nodes})
<1>5. K \in Nat /\ Len(s) <= K /\ \A i \in 1..Len(s) : f[i-1] = s[i]
  BY <1>1, <1>3, <1>4, FollowsLeads
<1>6. /\ Len(s) \in Nat /\ Len(s) > 0 /\ Range(s) = {s[i] : i \in 1..Len(s)}
      /\ \A i, j \in 1..Len(s) : s[i] = s[j] => i = j
      /\ \A i \in 1..Len(s) : s[i] \in Nodes
  <2>1. /\ Len(s) \in Nat /\ (s = <<>> <=> Len(s) = 0) /\ DOMAIN s = 1..Len(s)
        /\ \A i \in 1..Len(s) : s[i] \in Nodes
    BY <1>1, SeqFacts
  <2>2. \A i, j \in 1..Len(s) : s[i] = s[j] => i = j
    BY <1>1, LeadsFacts
  <2>3. Range(s) = {s[i] : i \in 1..Len(s)}
    BY <2>1 DEF Range
  <2> QED
    BY <1>1, <2>1, <2>2, <2>3
<1> HIDE DEF K, s, l
<1>7. L \in Nat /\ Len(s) <= L
  <2>1. IsFiniteSet(0..K) /\ 0 \in Int /\ Len(s) - 1 \in Int
    BY <1>5, <1>6, FS_Interval
  <2> DEFINE A == {n \in 0..K : f[n] \in Nodes}
  <2>2. A \subseteq 0..K
    OBVIOUS
  <2>3. IsFiniteSet(A) /\ Cardinality(A) \in Nat
    BY <2>1, <2>2, FS_Subset, FS_CardinalityType
  <2>4. 0..Len(s)-1 \subseteq A
    <3> SUFFICES ASSUME NEW n \in 0..Len(s)-1 PROVE n \in 0..K /\ f[n] \in Nodes
      OBVIOUS
    <3>1. n \in 0..K /\ n + 1 \in 1..Len(s) /\ (n + 1) - 1 = n
      BY <1>5, <1>6
    <3>2. f[n] = s[n + 1]
      BY <1>5, <3>1
    <3> QED
      BY <1>6, <3>1, <3>2
  <2>5. Cardinality(0..Len(s)-1) = Len(s)
    <3>1. Cardinality(0..Len(s)-1) = IF 0 > Len(s) - 1 THEN 0 ELSE (Len(s) - 1) - 0 + 1
      BY <2>1, FS_Interval
    <3> QED
      BY <1>6, <3>1
  <2> HIDE DEF A
  <2>6. Cardinality(0..Len(s)-1) <= Cardinality(A)
    BY <2>3, <2>4, FS_Subset
  <2> QED
    BY <2>3, <2>5, <2>6 DEF A
<1> HIDE DEF L
<1>8. DOMAIN l = 1..L /\ \A i \in 1..Len(s) : i \in 1..L /\ l[i] = s[i]
  <2>1. l = [i \in 1..L |-> f[i-1]]
    BY <1>4, Zenon DEF L
  <2>2. \A i \in 1..Len(s) : i \in 1..L
    BY <1>6, <1>7
  <2> QED
    BY <1>5, <2>1, <2>2
<1>9. {k \in DOMAIN l : \A m \in 1..k-1 : l[m] # last[t]} = 1..Len(s)
  <2>1. ASSUME NEW k \in 1..Len(s) PROVE k \in DOMAIN l /\ \A m \in 1..k-1 : l[m] # last[t]
    <3>1. \A m \in 1..k-1 : m \in 1..Len(s) /\ m # Len(s)
      BY <1>6
    <3>2. Len(s) \in 1..Len(s)
      BY <1>6
    <3>3. last[t] = s[Len(s)]
      BY <1>1 DEF s
    <3> QED
      BY <1>6, <1>8, <3>1, <3>2, <3>3
  <2>2. ASSUME NEW k \in DOMAIN l, \A m \in 1..k-1 : l[m] # last[t] PROVE k \in 1..Len(s)
    <3>1. k \in 1..L
      BY <1>8
    <3>2. Len(s) \in 1..Len(s) /\ last[t] = s[Len(s)]
      BY <1>1, <1>6 DEF s
    <3>3. l[Len(s)] = last[t]
      BY <1>8, <3>2
    <3>4. Len(s) \notin 1..k-1
      BY <2>2, <3>3
    <3> QED
      BY <1>6, <1>7, <3>1, <3>4
  <2> QED
    BY <2>1, <2>2
<1>10. ChainNodes(t) = {l[i] : i \in {k \in DOMAIN l : \A m \in 1..k-1 : l[m] # last[t]}}
  <2>1. ListFrom(first[t]) = l
    BY Zenon DEF ListFrom, Listing, l
  <2> QED
    BY <2>1 DEF ChainNodes
<1>11. ChainNodes(t) = {l[i] : i \in 1..Len(s)}
  BY <1>9, <1>10
<1>12. ChainNodes(t) = Range(s)
  BY <1>6, <1>8, <1>11
<1> QED
  BY <1>12 DEF s

LEMMA IntrusiveInvAccounted == IntrusiveInv => NodesAccounted
<1> SUFFICES ASSUME IntrusiveInv PROVE NodesAccounted
  OBVIOUS
<1>1. TypeOK
  BY DEF IntrusiveInv
<1>2. PICK c : Shape(c)
  BY DEF IntrusiveInv
<1> DEFINE Pushing(t) == IF pc[t] \in {"link", "pushcas"} THEN ChainNodes(t) ELSE {}
<1>3. ASSUME NEW t \in Threads PROVE Pushing(t) = Range(c[t])
  <2>1. c[t] # <<>> <=> pc[t] \in {"link", "pushcas"}
    BY <1>2, ShapeFacts DEF ListsOf
  <2>2. CASE c[t] # <<>>
    BY <1>1, <1>2, <2>1, <2>2, ChainIs
  <2>3. CASE c[t] = <<>>
    BY <2>1, <2>3, EmptyRange
  <2> QED
    BY <2>2, <2>3
<1> HIDE DEF Pushing
<1>4. ASSUME NEW t \in Threads
      PROVE  /\ Mine(c, t) = fresh[t] \cup Pushing(t) \cup Range(Held(t))
             /\ fresh[t] \cap Pushing(t) = {} /\ fresh[t] \cap Range(Held(t)) = {}
             /\ Pushing(t) \cap Range(Held(t)) = {}
  <2>1. /\ fresh[t] \cap (Range(c[t]) \cup Range(Cur(t)) \cup Range(Prv(t))) = {}
        /\ Range(c[t]) \cap (Range(Cur(t)) \cup Range(Prv(t))) = {}
    BY <1>2, ShapeFacts DEF ListsOf
  <2>2. Range(Held(t)) = Range(Cur(t)) \cup Range(Prv(t))
    BY <1>2, HeldFacts
  <2> QED
    BY <1>3, <2>1, <2>2 DEF Mine
<1>5. ASSUME NEW n \in Nodes
      PROVE  Cardinality({t \in Threads : n \in fresh[t]})
             + Cardinality({t \in Threads : n \in Pushing(t)})
             + Cardinality({t \in Threads : n \in Range(Held(t))})
             + (IF n \in Range(Listed) THEN 1 ELSE 0) = 1
  <2> DEFINE A == {t \in Threads : n \in fresh[t]}
             B == {t \in Threads : n \in Pushing(t)}
             C == {t \in Threads : n \in Range(Held(t))}
  <2>1. Apart(c)
    BY <1>2, ShapeFacts
  <2>2. \A t, u \in Threads : n \in Mine(c, t) /\ n \in Mine(c, u) => t = u
    BY <2>1 DEF Apart
  <2>3. /\ \A x, y \in A \cup B \cup C : x = y
        /\ A \cap B = {} /\ A \cap C = {} /\ B \cap C = {}
    BY <1>4, <2>2
  <2>4. /\ A \cup B \cup C # {} => n \notin Range(Listed)
        /\ A \cup B \cup C = {} => n \in Range(Listed)
    BY <1>4, <2>1 DEF Apart
  <2> HIDE DEF A, B, C
  <2>5. /\ Cardinality(A) = IF A = {} THEN 0 ELSE 1
        /\ Cardinality(B) = IF B = {} THEN 0 ELSE 1
        /\ Cardinality(C) = IF C = {} THEN 0 ELSE 1
    BY <2>3, OneOrNone
  <2>6. \/ A = {} /\ B = {} /\ C = {} /\ n \in Range(Listed)
        \/ A # {} /\ B = {} /\ C = {} /\ n \notin Range(Listed)
        \/ A = {} /\ B # {} /\ C = {} /\ n \notin Range(Listed)
        \/ A = {} /\ B = {} /\ C # {} /\ n \notin Range(Listed)
    BY <2>3, <2>4
  <2>7. Cardinality(A) + Cardinality(B) + Cardinality(C) + (IF n \in Range(Listed) THEN 1 ELSE 0) = 1
    BY <2>5, <2>6
  <2> QED
    BY <2>7 DEF A, B, C
<1> QED
  BY <1>1, <1>5 DEF NodesAccounted, Listed, Pushing, ChainNodes

(* A node of AtomicIntrusiveStack is in one place: the list, one thread's   *)
(* unfinished push, one popped list, or the allocator.                      *)
THEOREM NodesAlwaysAccounted == Spec => []NodesAccounted
  BY IntrusiveInvAlways, IntrusiveInvAccounted, PTL

\* What AbstractStack sees of a step.
HeldKept(t) == Held(t)' = Held(t)

LEMMA AbstractInit == Init => Abstract!Init
<1> SUFFICES ASSUME Init PROVE Abstract!Init
  OBVIOUS
<1>1. next \in [Nodes -> Ptr] /\ NULL \in Ptr
  BY PtrFacts DEF Init
<1>2. Listing(next, NULL) = <<>>
  BY <1>1, LeadsEmpty, ListingIs
<1>3. Listed = <<>> /\ \A t \in Threads : Cur(t) = <<>> /\ Prv(t) = <<>>
  BY <1>2, Listings DEF Init
<1>4. ASSUME NEW t \in Threads PROVE Held(t) = <<>>
  <2>1. <<>> \in Seq(Nodes)
    OBVIOUS
  <2>2. Reverse(<<>>) \o <<>> = <<>>
    BY <2>1, HeldNone
  <2> QED
    BY <1>3, <2>2, HeldIs
<1> QED
  BY <1>3, <1>4 DEF Abstract!Init, Listed, Init

LEMMA AbstractStep ==
  ASSUME IntrusiveInv, [Next]_vars
  PROVE  Abstract!Next \/ UNCHANGED Abstract!vars
<1> DEFINE held == [t \in Threads |-> Held(t)]
<1>1. TypeOK /\ TypeOK'
  BY TypeStep DEF IntrusiveInv
<1>2. PICK c : Shape(c)
  BY DEF IntrusiveInv
<1>a. ASSUME NEW u \in Threads, HeldSame(u) PROVE HeldKept(u)
  BY <1>a, HeldIs DEF HeldSame, HeldKept
<1>b. ASSUME Listed' = Listed, was_empty' = was_empty, \A u \in Threads : HeldKept(u)
      PROVE  UNCHANGED Abstract!vars
  <2>1. held' = held
    BY <1>b DEF HeldKept
  <2> QED
    BY <1>b, <2>1 DEF Abstract!vars, Listed
<1>c. ASSUME NEW t \in Threads
      PROVE  /\ Cur(t) \in Seq(Nodes) /\ Prv(t) \in Seq(Nodes)
             /\ Held(t) = <<>> <=> Cur(t) = <<>> /\ Prv(t) = <<>>
             /\ Range(Held(t)) = Range(Cur(t)) \cup Range(Prv(t))
  BY <1>2, HeldFacts
<1>d. Reverse(<<>>) \o <<>> = <<>>
  <2>1. <<>> \in Seq(Nodes)
    OBVIOUS
  <2> QED
    BY <2>1, HeldNone
\* A thread lets go of what it holds.
<1>e. ASSUME NEW t \in Threads, Listed' = Listed, was_empty' = was_empty,
             \A u \in Threads : u # t => HeldSame(u),
             Prv(t) # <<>>, Cur(t)' = <<>>, Prv(t)' = <<>>
      PROVE  Abstract!Next
  <2>1. Held(t) # <<>>
    BY <1>c, <1>e
  <2>2. Held(t)' = <<>>
    BY <1>d, <1>e, HeldIs
  <2>3. \A u \in Threads : u # t => Held(u)' = Held(u)
    BY <1>a, <1>e DEF HeldKept
  <2>4. held' = [held EXCEPT ![t] = <<>>]
    BY <2>2, <2>3
  <2>5. Abstract!Drop(t)
    BY <1>e, <2>1, <2>4 DEF Abstract!Drop, Listed
  <2> QED
    BY <2>5 DEF Abstract!Next
<1>3. CASE UNCHANGED vars
  <2>1. Listed' = Listed /\ was_empty' = was_empty /\ \A u \in Threads : HeldSame(u)
    BY <1>3, Listings DEF vars, HeldSame
  <2> QED
    BY <1>a, <1>b, <2>1
<1>4. ASSUME NEW t \in Threads, Push(t) \/ Link(t) \/ PushFails(t) \/ PopLoad(t) \/ PopFails(t)
      PROVE  UNCHANGED Abstract!vars
  <2>1. Listed' = Listed /\ \A u \in Threads : HeldSame(u)
    BY <1>1, <1>2, <1>4, PushShape, LinkShape, ReadShape
  <2>2. was_empty' = was_empty
    BY <1>4 DEF Push, StartPush, Link, PushFails, PopLoad, PopFails
  <2> QED
    BY <1>a, <1>b, <2>1, <2>2
<1>5. ASSUME NEW t \in Threads, Reversing(t) PROVE UNCHANGED Abstract!vars
  <2>1. /\ Listed' = Listed /\ \A u \in Threads : u # t => HeldSame(u)
        /\ Cur(t) # <<>> /\ Cur(t)' = Tail(Cur(t)) /\ Prv(t)' = <<Head(Cur(t))>> \o Prv(t)
    BY <1>1, <1>2, <1>5, ReversingShape
  <2>2. was_empty' = was_empty
    BY <1>5 DEF Reversing
  <2>3. Reverse(Tail(Cur(t))) \o (<<Head(Cur(t))>> \o Prv(t)) = Reverse(Cur(t)) \o Prv(t)
    BY <1>c, <2>1, HeldTurn
  <2>4. HeldKept(t)
    BY <2>1, <2>3, HeldIs DEF HeldKept
  <2> QED
    BY <1>a, <1>b, <2>1, <2>2, <2>4
<1>6. ASSUME NEW t \in Threads, PushPopped(t) PROVE Abstract!Next
  <2>1. was_empty' = was_empty
    BY <1>6 DEF PushPopped, StartPush
  <2> QED
    BY <1>1, <1>2, <1>6, <1>e, <2>1, PushPoppedShape
<1>7. ASSUME NEW t \in Threads, NEW w \in Threads, Recycle(t, w) PROVE Abstract!Next
  <2>1. was_empty' = was_empty
    BY <1>7 DEF Recycle
  <2> QED
    BY <1>1, <1>2, <1>7, <1>e, <2>1, RecycleShape
\* A pop takes effect.
<1>8. ASSUME NEW t \in Threads, PopDone(t) PROVE Abstract!Next
  <2>1. /\ Listed # <<>> /\ Listed' = <<>> /\ \A u \in Threads : u # t => HeldSame(u)
        /\ Cur(t) = <<>> /\ Prv(t) = <<>> /\ Cur(t)' = Listed /\ Prv(t)' = <<>>
    BY <1>1, <1>2, <1>8, PopDoneShape
  <2>2. was_empty' = was_empty
    BY <1>8 DEF PopDone
  <2>3. Listed \in Seq(Nodes)
    BY <1>2, ShapeFacts DEF Leads
  <2>4. Reverse(Listed) \o <<>> = Reverse(Listed)
    BY <2>3, HeldNone
  <2>5. Held(t) = <<>> /\ Held(t)' = Reverse(Listed)
    BY <1>c, <2>1, <2>4, HeldIs
  <2>6. \A u \in Threads : u # t => Held(u)' = Held(u)
    BY <1>a, <2>1 DEF HeldKept
  <2>7. held' = [held EXCEPT ![t] = Reverse(Listed)]
    BY <2>5, <2>6
  <2>8. Abstract!Reverse(Listed) = Reverse(Listed)
    BY DEF Abstract!Reverse, Reverse
  <2>9. Abstract!PopAll(t)
    BY <2>1, <2>2, <2>5, <2>7, <2>8 DEF Abstract!PopAll, Listed
  <2> QED
    BY <2>9 DEF Abstract!Next
\* A push takes effect.
<1>9. ASSUME NEW t \in Threads, PushDone(t) PROVE Abstract!Next
  <2>1. /\ Listed' = c[t] \o Listed /\ \A u \in Threads : HeldSame(u)
        /\ c[t] # <<>> /\ c[t] \in Seq(Nodes) /\ IsInjective(c[t])
        /\ exchange[t] = NULL <=> Listed = <<>>
    BY <1>1, <1>2, <1>9, PushDoneShape
  <2>2. was_empty' = [was_empty EXCEPT ![t] = (exchange[t] = NULL)]
    BY <1>9 DEF PushDone
  <2>3. was_empty' = [was_empty EXCEPT ![t] = (Listed = <<>>)]
    BY <2>1, <2>2, Zenon
  <2>4. held' = held
    <3>1. \A u \in Threads : Held(u)' = Held(u)
      BY <1>a, <2>1 DEF HeldKept
    <3> QED
      BY <3>1
  <2>5. c[t] \in Abstract!Chains
    <3>1. /\ Len(c[t]) \in Nat /\ Len(c[t]) # 0 /\ c[t] \in [1..Len(c[t]) -> Nodes] /\ DOMAIN c[t] = 1..Len(c[t])
      BY <2>1, SeqFacts
    <3>2. \A i, j \in 1..Len(c[t]) : c[t][i] = c[t][j] => i = j
      BY <2>1, <3>1 DEF IsInjective
    <3>3. Cardinality(Nodes) \in Nat /\ Len(c[t]) <= Cardinality(Nodes)
      BY <2>1, <3>2, LeadsLength, NullAssumption
    <3>4. Len(c[t]) \in 1..Cardinality(Nodes)
      BY <3>1, <3>3
    <3>5. Abstract!IsInjective(c[t])
      BY <3>1, <3>2 DEF Abstract!IsInjective
    <3> QED
      BY <3>1, <3>4, <3>5 DEF Abstract!Chains
  <2>6. Abstract!Range(c[t]) \cap Abstract!Taken = {}
    <3>1. Abstract!Range(c[t]) = Range(c[t]) /\ Abstract!Range(Listed) = Range(Listed)
          /\ \A u \in Threads : Abstract!Range(Held(u)) = Range(Held(u))
      BY DEF Abstract!Range, Range
    <3>2. Range(c[t]) \cap Range(Listed) = {}
      BY <1>2, ShapeFacts DEF Mine
    <3>3. ASSUME NEW u \in Threads PROVE Range(c[t]) \cap Range(Held(u)) = {}
      <4>1. CASE u = t
        BY <1>2, <1>c, <4>1, ShapeFacts DEF ListsOf
      <4>2. CASE u # t
        BY <1>2, <1>c, <4>2, ShapeFacts DEF Mine
      <4> QED
        BY <4>1, <4>2
    <3>4. Abstract!Taken = Abstract!Range(Listed) \cup UNION {Abstract!Range(Held(u)) : u \in Threads}
      BY DEF Abstract!Taken, Listed
    <3> QED
      BY <3>1, <3>2, <3>3, <3>4
  <2>7. Abstract!Push(t, c[t])
    BY <2>1, <2>3, <2>4, <2>6 DEF Abstract!Push, Listed
  <2> QED
    BY <2>5, <2>7 DEF Abstract!Next
<1> QED
  BY <1>3, <1>4, <1>5, <1>6, <1>7, <1>8, <1>9, Outcomes DEF Next, ThreadStep

(* push, push_chain and pop_reversed take effect at their compare-and-      *)
(* exchange: the lock-free list implements AbstractStack.                   *)
THEOREM IntrusiveIsAtomic == Spec => AtomicOperations
<1>1. IntrusiveInv /\ [Next]_vars => [Abstract!Next]_(Abstract!vars)
  BY AbstractStep
<1> QED
  BY <1>1, IntrusiveInvAlways, AbstractInit, PTL DEF Spec, AtomicOperations, Abstract!Spec

(* The same of the specification that TLC checks, whose behaviours are each *)
(* of one of the components.                                                *)
THEOREM ThreadsAreAtomic == ThreadsSpec => OperationsAtomic
<1>1. ThreadsInit => IntrusiveInv /\ MpmcInv /\ Abstract!Init /\ MpmcAbstract!Init
  BY IntrusiveInit, MpmcInitInv, AbstractInit, MpmcAbstractInit DEF ThreadsInit
<1>2. [ThreadsNext]_threadsVars => [Next]_vars /\ [MpmcNext]_mpmcVars
  BY DEF ThreadsNext, threadsVars
<1>3. IntrusiveInv /\ MpmcInv /\ [ThreadsNext]_threadsVars => IntrusiveInv' /\ MpmcInv'
  BY <1>2, IntrusiveStep, MpmcInvStep
<1>4. IntrusiveInv /\ MpmcInv /\ IntrusiveInv' /\ MpmcInv' /\ [ThreadsNext]_threadsVars
      => [/\ component = "intrusive" => Abstract!Next \/ UNCHANGED Abstract!vars
          /\ component = "mpmc" => MpmcAbstract!Next \/ UNCHANGED MpmcAbstract!vars]_threadsVars
  BY <1>2, AbstractStep, MpmcAbstractStep
<1> QED
  BY <1>1, <1>3, <1>4, PTL DEF ThreadsSpec, OperationsAtomic
=============================================================================
