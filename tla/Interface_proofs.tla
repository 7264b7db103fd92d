--------------------------- MODULE Interface_proofs ---------------------------
(***************************************************************************)
(* Theorems about the components of MCInterface.                           *)
(***************************************************************************)
EXTENDS MCInterface, SequenceTheorems, FiniteSetTheorems, NatLemmas, TLAPS

-----------------------------------------------------------------------------
(* Sequences *)

LEMMA ElementsOfConcat ==
  ASSUME NEW S, NEW s \in Seq(S), NEW r \in Seq(S)
  PROVE  s \o r \in Seq(S) /\ ToSet(s \o r) = ToSet(s) \cup ToSet(r)
<1>1. \A i \in DOMAIN s : i \in DOMAIN (s \o r) /\ (s \o r)[i] = s[i]
  OBVIOUS
<1>2. \A i \in DOMAIN r : Len(s) + i \in DOMAIN (s \o r) /\ (s \o r)[Len(s) + i] = r[i]
  OBVIOUS
<1>3. \A i \in DOMAIN (s \o r) : \/ i \in DOMAIN s /\ (s \o r)[i] = s[i]
                                 \/ i - Len(s) \in DOMAIN r /\ (s \o r)[i] = r[i - Len(s)]
  OBVIOUS
<1>4. ASSUME NEW x \in ToSet(s) \cup ToSet(r) PROVE x \in ToSet(s \o r)
  BY <1>1, <1>2 DEF ToSet
<1>5. ASSUME NEW x \in ToSet(s \o r) PROVE x \in ToSet(s) \cup ToSet(r)
  <2>1. PICK i \in DOMAIN (s \o r) : x = (s \o r)[i]
    BY DEF ToSet
  <2> QED
    BY <1>3, <2>1 DEF ToSet
<1>6. s \o r \in Seq(S)
  OBVIOUS
<1> QED
  BY <1>4, <1>5, <1>6

LEMMA ElementsOfSeq == ASSUME NEW S, NEW s \in Seq(S) PROVE ToSet(s) \subseteq S
  BY DEF ToSet

LEMMA ElementsOfOne == \A x : ToSet(<<x>>) = {x} /\ Len(<<x>>) = 1
  BY DEF ToSet

LEMMA ElementsOfEmpty == ToSet(<<>>) = {}
  BY DEF ToSet

LEMMA NotEmpty == ASSUME NEW s, Len(s) \in {1, 2} PROVE s # <<>>
<1>1. Len(<<>>) = 0
  OBVIOUS
<1> QED
  BY <1>1

LEMMA OneOrNone ==
  ASSUME NEW S, NEW s \in Seq(S), Len(s) <= 1, s # <<>>
  PROVE  Len(s) = 1 /\ s[1] \in S /\ s = <<s[1]>>
<1>1. Len(s) \in Nat /\ Len(s) # 0
  BY EmptySeq, LenProperties
<1>2. Len(s) = 1
  <2> DEFINE n == Len(s)
  <2>1. n \in Nat /\ n # 0 /\ n <= 1
    BY <1>1
  <2> HIDE DEF n
  <2>2. n = 1
    BY <2>1
  <2> QED
    BY <2>2 DEF n
<1>3. s[1] \in S /\ <<s[1]>> \in Seq(S) /\ Len(<<s[1]>>) = 1 /\ \A i \in 1..1 : <<s[1]>>[i] = s[i]
  BY <1>2
<1> QED
  BY <1>2, <1>3, SeqEqual

LEMMA AppendSecond ==
  ASSUME NEW S, NEW s \in Seq(S), Len(s) = 1, NEW x \in S
  PROVE  Append(s, x) \in Seq(S) /\ Len(Append(s, x)) = 2 /\ Append(s, x)[1] = s[1] /\ Append(s, x)[2] = x
<1>1. Append(s, x) \in Seq(S) /\ Len(Append(s, x)) = Len(s) + 1
  BY AppendProperties
<1>2. Append(s, x)[Len(s) + 1] = x
  BY AppendProperties
<1>3. \A i \in 1..Len(s) : Append(s, x)[i] = s[i]
  BY AppendProperties
<1>4. 1 \in 1..Len(s) /\ Len(s) + 1 = 2
  OBVIOUS
<1> QED
  BY <1>1, <1>2, <1>3, <1>4, Zenon

LEMMA HeadThenTail ==
  ASSUME NEW S, NEW s \in Seq(S), s # <<>>
  PROVE  Tail(s) \in Seq(S) /\ Head(s) \in S /\ s = <<Head(s)>> \o Tail(s)
<1>1. Tail(s) \in Seq(S) /\ Head(s) \in S /\ Len(<<Head(s)>> \o Tail(s)) = Len(s)
  OBVIOUS
<1>2. \A i \in 1..Len(s) : (<<Head(s)>> \o Tail(s))[i] = s[i]
  OBVIOUS
<1>3. <<Head(s)>> \o Tail(s) \in Seq(S)
  BY <1>1
<1> QED
  BY <1>1, <1>2, <1>3, SeqEqual

LEMMA ListedOnce ==
  ASSUME NEW S, IsFiniteSet(S)
  PROVE  SetToSeq(S) \in Seq(S) /\ ToSet(SetToSeq(S)) = S
<1> DEFINE D == 1..Cardinality(S)
           f == SetToSeq(S)
<1>1. Cardinality(S) \in Nat /\ ExistsBijection(D, S)
  BY FS_CardinalityType
<1>2. \E g \in [D -> S] : IsInjective(g)
  <2>1. PICK g \in Bijection(D, S) : TRUE
    BY <1>1 DEF ExistsBijection
  <2> QED
    BY <2>1 DEF Bijection, Injection
<1>3. f \in [D -> S] /\ IsInjective(f)
  BY <1>2 DEF SetToSeq
<1> HIDE DEF f
<1>4. f \in Injection(D, S)
  BY <1>3 DEF Injection
<1>5. Cardinality(D) = Cardinality(S)
  BY <1>1, FS_Interval
<1>6. f \in Surjection(D, S)
  BY <1>4, <1>5, FS_Injection
<1>7. DOMAIN f = D /\ \A e \in S : \E i \in D : f[i] = e
  BY <1>3, <1>6 DEF Surjection
<1>8. ToSet(f) = S
  BY <1>3, <1>7 DEF ToSet
<1>9. f \in Seq(S)
  BY <1>1, <1>3
<1> QED
  BY <1>8, <1>9 DEF f

OrderedBy(s, R) == \A i, j \in DOMAIN s : i < j => <<s[i], s[j]>> \in R

LEMMA OrderOfConcat ==
  ASSUME NEW S, NEW s \in Seq(S), NEW r \in Seq(S), NEW R
  PROVE  OrderedBy(s \o r, R) <=>
           OrderedBy(s, R) /\ OrderedBy(r, R) /\ \A a \in ToSet(s), b \in ToSet(r) : <<a, b>> \in R
<1>1. \A i \in DOMAIN s : i \in DOMAIN (s \o r) /\ (s \o r)[i] = s[i]
  OBVIOUS
<1>2. \A i \in DOMAIN r : Len(s) + i \in DOMAIN (s \o r) /\ (s \o r)[Len(s) + i] = r[i]
  OBVIOUS
<1>3. DOMAIN s = 1..Len(s) /\ DOMAIN r = 1..Len(r) /\ Len(s) \in Nat /\ Len(r) \in Nat
  OBVIOUS
<1>4. ASSUME OrderedBy(s \o r, R)
      PROVE  OrderedBy(s, R) /\ OrderedBy(r, R) /\ \A a \in ToSet(s), b \in ToSet(r) : <<a, b>> \in R
  <2>1. OrderedBy(s, R)
    BY <1>1, <1>4 DEF OrderedBy
  <2>2. ASSUME NEW i \in DOMAIN r, NEW j \in DOMAIN r, i < j PROVE <<r[i], r[j]>> \in R
    <3>1. Len(s) + i < Len(s) + j
      BY <1>3, <2>2
    <3>2. <<(s \o r)[Len(s) + i], (s \o r)[Len(s) + j]>> \in R
      BY <1>2, <1>4, <3>1 DEF OrderedBy
    <3> QED
      BY <1>2, <3>2
  <2>3. ASSUME NEW i \in DOMAIN s, NEW j \in DOMAIN r PROVE <<s[i], r[j]>> \in R
    <3>1. i < Len(s) + j
      BY <1>3
    <3>2. <<(s \o r)[i], (s \o r)[Len(s) + j]>> \in R
      BY <1>1, <1>2, <1>4, <3>1 DEF OrderedBy
    <3> QED
      BY <1>1, <1>2, <3>2
  <2>4. OrderedBy(r, R)
    BY <2>2 DEF OrderedBy
  <2> QED
    BY <2>1, <2>3, <2>4 DEF ToSet
<1>5. ASSUME OrderedBy(s, R), OrderedBy(r, R), \A a \in ToSet(s), b \in ToSet(r) : <<a, b>> \in R,
             NEW i \in DOMAIN (s \o r), NEW j \in DOMAIN (s \o r), i < j
      PROVE  <<(s \o r)[i], (s \o r)[j]>> \in R
  <2>1. \A k \in DOMAIN (s \o r) : \/ k \in DOMAIN s /\ (s \o r)[k] = s[k]
                                   \/ k > Len(s) /\ k - Len(s) \in DOMAIN r /\ (s \o r)[k] = r[k - Len(s)]
    OBVIOUS
  <2>2. CASE i \in DOMAIN s /\ j \in DOMAIN s
    BY <1>1, <1>5, <2>2 DEF OrderedBy
  <2>3. CASE i \in DOMAIN s /\ j \notin DOMAIN s
    <3>1. s[i] \in ToSet(s) /\ r[j - Len(s)] \in ToSet(r)
      BY <2>1, <2>3 DEF ToSet
    <3> QED
      BY <1>1, <1>5, <2>1, <2>3, <3>1
  <2>4. CASE i \notin DOMAIN s
    <3>1. i - Len(s) \in DOMAIN r /\ j - Len(s) \in DOMAIN r /\ i - Len(s) < j - Len(s)
          /\ (s \o r)[i] = r[i - Len(s)] /\ (s \o r)[j] = r[j - Len(s)]
      BY <1>3, <1>5, <2>1, <2>4
    <3> QED
      BY <1>5, <3>1 DEF OrderedBy
  <2> QED
    BY <2>2, <2>3, <2>4
<1> QED
  BY <1>4, <1>5 DEF OrderedBy

-----------------------------------------------------------------------------
(* JsonIpc: the messages under way, the one in the web socket thread included *)

Requests ==
  [method : {"call", "renew"}, arg : {0}] \cup [method : {"report"}, arg : SUBSET Nat]
    \cup [method : {"create", "remove"}, arg : Triggers]
    \cup [method : {"js_trigger", "get"}, arg : Nat \X Triggers]
Replies ==
  [method : {"object"}, arg : Nat] \cup [method : {"renewed"}, arg : BOOLEAN]
    \cup [method : {"notify", "killed"}, arg : Triggers] \cup [method : {"value"}, arg : Triggers \X Nat]
    \cup [method : {"done", "error", "purged"}, arg : {0}]

Incoming == IF Len(ws) = 1 THEN <<ws[1]>> \o toServer ELSE toServer
Outgoing == IF Len(ws) = 2 THEN toClient \o <<ws[2]>> ELSE toClient

IpcTypeOK ==
  /\ toServer \in Seq(Requests) /\ toClient \in Seq(Replies)
  /\ ws \in Seq(Requests \cup Replies) /\ Len(ws) <= 2
  /\ Len(ws) >= 1 => ws[1] \in Requests
  /\ Len(ws) = 2 => ws[2] \in Replies
  /\ live \subseteq Nat /\ garbage \subseteq Nat /\ inflight \in BOOLEAN
  /\ watch \in [Triggers -> {"none", "on", "orphan", "off"}]
  /\ watched \in [Triggers -> Nat] /\ cached \in [Triggers -> Int]
  /\ opened \in BOOLEAN /\ wmap_ \in Seq(Objects \cup {0}) /\ value \in Nat
  /\ idset_ \in Seq(SUBSET Nat) /\ Len(idset_) <= 1
  /\ connections \subseteq triggers_ /\ triggers_ \subseteq Triggers
  /\ ~opened => ws = <<>>

\* What a may be sent before b.
RequestPair(a, b) ==
  /\ a.method \in {"renew", "report"} => ~ (b.method = "report")
  /\ a.method = "renew" => ~ (b.method = "renew")
  /\ b.method = "create" => ~ (a.method \in {"create", "remove"} /\ a.arg = b.arg)
  /\ b.method = "create" => ~ (a.method = "js_trigger" /\ a.arg[2] = b.arg)

\* ids are those sent since the last renew-gc.
ReplyPair(a, b, ids) ==
  /\ a.method = "renewed" => b.method # "renewed"
  /\ a.method = "renewed" /\ b.method = "object" => b.arg \in ids
  /\ a.method = "value" /\ b.method = "value" /\ a.arg[1] = b.arg[1] => a.arg[2] <= b.arg[2]

RequestOrder(s) == \A i, j \in DOMAIN s : i < j => RequestPair(s[i], s[j])
ReplyOrder(s, ids) == \A i, j \in DOMAIN s : i < j => ReplyPair(s[i], s[j], ids)

\* A connection is followed by a fetch.
Fetches(m, t) == m.method = "get" /\ m.arg[2] = t
Connects(m, t) == m.method = "js_trigger" /\ m.arg[2] = t
ConnectsFirst(s) ==
  \A i \in DOMAIN s : s[i].method = "js_trigger" => \E j \in DOMAIN s : i < j /\ Fetches(s[j], s[i].arg[2])

\* One collection at a time: renew-gc, its reply, report-gc.
SentIds == UNION ToSet(idset_)
Renewing == Msg("renew", 0) \in ToSet(Incoming)
Renewed == Msg("renewed", TRUE) \in ToSet(Outgoing)
Reported == \E m \in ToSet(Incoming) : m.method = "report"
GcStage ==
  /\ Renewing \/ Renewed => inflight
  /\ ~ (Renewing /\ Renewed) /\ ~ (Reported /\ Renewed)
  /\ Reported \/ Renewed <=> idset_ # <<>>
  /\ \A m \in ToSet(Outgoing) : m.method = "renewed" => m.arg = TRUE

\* What a report-gc purges is neither live nor on its way.
GcIds ==
  /\ garbage \cap live \subseteq late
  /\ live \ late \subseteq Ids
  /\ \A m \in ToSet(Outgoing) : m.method = "object" => m.arg \in Ids
  /\ \A m \in ToSet(Incoming) : m.method = "report" =>
       \A id \in m.arg : id \in live \ late \/ Msg("object", id) \in ToSet(Outgoing) => id \in SentIds

TriggerInv ==
  /\ \A t \in Triggers :
       /\ t \in triggers_ => Msg("create", t) \notin ToSet(Incoming)
       /\ watch[t] \in {"on", "orphan"} =>
            /\ t \in triggers_ \/ Msg("create", t) \in ToSet(Incoming)
            /\ Msg("remove", t) \notin ToSet(Incoming)
       /\ watch[t] = "off" /\ (t \in triggers_ \/ Msg("create", t) \in ToSet(Incoming)) =>
            Msg("remove", t) \in ToSet(Incoming)
       /\ watch[t] = "none" =>
            /\ t \notin triggers_
            /\ {Msg("create", t), Msg("remove", t)} \cap ToSet(Incoming) = {}
            /\ \A m \in ToSet(Incoming) : ~Fetches(m, t) /\ ~Connects(m, t)
  /\ \A m \in ToSet(Incoming) : m.method \in {"js_trigger", "get"} => m.arg[1] = watched[m.arg[2]]

\* The value that will be in the cache is the present one.
Fresh(t) ==
  \/ \E m \in ToSet(Incoming) : Fetches(m, t)
  \/ Msg("notify", t) \in ToSet(Outgoing)
  \/ Msg("value", <<t, value>>) \in ToSet(Outgoing)
  \/ cached[t] = value
CacheInv ==
  /\ \A t \in Triggers :
       /\ cached[t] <= value
       /\ watch[t] = "on" => watched[t] \in live
       /\ watch[t] = "on" /\ watched[t] \notin late =>
            Fresh(t) /\ (t \in connections \/ \E m \in ToSet(Incoming) : Connects(m, t))
  /\ \A m \in ToSet(Outgoing) : m.method = "value" => cached[m.arg[1]] <= m.arg[2] /\ m.arg[2] <= value

IpcInv ==
  /\ IpcTypeOK
  /\ opened =>
       /\ RequestOrder(Incoming) /\ ReplyOrder(Outgoing, SentIds) /\ ConnectsFirst(Incoming)
       /\ GcStage /\ GcIds /\ TriggerInv /\ CacheInv

LEMMA RequestsConcat ==
  ASSUME NEW s \in Seq(Requests), NEW r \in Seq(Requests)
  PROVE  RequestOrder(s \o r) <=>
           RequestOrder(s) /\ RequestOrder(r) /\ \A a \in ToSet(s), b \in ToSet(r) : RequestPair(a, b)
<1> DEFINE R == {p \in Requests \X Requests : RequestPair(p[1], p[2])}
<1>1. \A a, b \in Requests : <<a, b>> \in R <=> RequestPair(a, b)
  OBVIOUS
<1> HIDE DEF R
<1>2. ASSUME NEW q \in Seq(Requests) PROVE RequestOrder(q) <=> OrderedBy(q, R)
  <2>1. \A i, j \in DOMAIN q : <<q[i], q[j]>> \in R <=> RequestPair(q[i], q[j])
    <3>1. \A i \in DOMAIN q : q[i] \in Requests
      OBVIOUS
    <3> QED
      BY <1>1, <3>1, Zenon
  <2> QED
    BY <2>1, Zenon DEF RequestOrder, OrderedBy
<1>3. s \o r \in Seq(Requests) /\ ToSet(s) \subseteq Requests /\ ToSet(r) \subseteq Requests
  BY DEF ToSet
<1> QED
  BY <1>1, <1>2, <1>3, OrderOfConcat

LEMMA RepliesConcat ==
  ASSUME NEW s \in Seq(Replies), NEW r \in Seq(Replies), NEW ids
  PROVE  ReplyOrder(s \o r, ids) <=>
           ReplyOrder(s, ids) /\ ReplyOrder(r, ids) /\ \A a \in ToSet(s), b \in ToSet(r) : ReplyPair(a, b, ids)
<1> DEFINE R == {p \in Replies \X Replies : ReplyPair(p[1], p[2], ids)}
<1>1. \A a, b \in Replies : <<a, b>> \in R <=> ReplyPair(a, b, ids)
  OBVIOUS
<1> HIDE DEF R
<1>2. ASSUME NEW q \in Seq(Replies) PROVE ReplyOrder(q, ids) <=> OrderedBy(q, R)
  <2>1. \A i, j \in DOMAIN q : <<q[i], q[j]>> \in R <=> ReplyPair(q[i], q[j], ids)
    <3>1. \A i \in DOMAIN q : q[i] \in Replies
      OBVIOUS
    <3> QED
      BY <1>1, <3>1, Zenon
  <2> QED
    BY <2>1, Zenon DEF ReplyOrder, OrderedBy
<1>3. s \o r \in Seq(Replies) /\ ToSet(s) \subseteq Replies /\ ToSet(r) \subseteq Replies
  BY DEF ToSet
<1> QED
  BY <1>1, <1>2, <1>3, OrderOfConcat

LEMMA ReplyIds ==
  ASSUME NEW s \in Seq(Replies), NEW ids, NEW more, ReplyOrder(s, ids),
         \A m \in ToSet(s) : m.method = "object" /\ m.arg \in ids => m.arg \in more
  PROVE  ReplyOrder(s, more)
<1> SUFFICES ASSUME NEW i \in DOMAIN s, NEW j \in DOMAIN s, i < j PROVE ReplyPair(s[i], s[j], more)
  BY DEF ReplyOrder
<1>1. ReplyPair(s[i], s[j], ids) /\ s[j] \in ToSet(s)
  BY DEF ReplyOrder, ToSet
<1> QED
  BY <1>1 DEF ReplyPair

LEMMA ConnectsConcat ==
  ASSUME NEW s \in Seq(Requests), NEW r \in Seq(Requests)
  PROVE  ConnectsFirst(s) /\ ConnectsFirst(r) => ConnectsFirst(s \o r)
<1> SUFFICES ASSUME ConnectsFirst(s), ConnectsFirst(r), NEW i \in DOMAIN (s \o r), (s \o r)[i].method = "js_trigger"
             PROVE  \E j \in DOMAIN (s \o r) : i < j /\ Fetches((s \o r)[j], (s \o r)[i].arg[2])
  BY DEF ConnectsFirst
<1>1. \A k \in DOMAIN s : k \in DOMAIN (s \o r) /\ (s \o r)[k] = s[k]
  OBVIOUS
<1>2. \A k \in DOMAIN r : Len(s) + k \in DOMAIN (s \o r) /\ (s \o r)[Len(s) + k] = r[k]
  OBVIOUS
<1>3. DOMAIN s = 1..Len(s) /\ DOMAIN r = 1..Len(r) /\ DOMAIN (s \o r) = 1..Len(s) + Len(r)
      /\ Len(s) \in Nat /\ Len(r) \in Nat
  OBVIOUS
<1>4. CASE i \in DOMAIN s
  <2>1. PICK j \in DOMAIN s : i < j /\ Fetches(s[j], s[i].arg[2])
    BY <1>1, <1>4 DEF ConnectsFirst
  <2> QED
    BY <1>1, <1>4, <2>1
<1>5. CASE i \notin DOMAIN s
  <2>1. i - Len(s) \in DOMAIN r /\ (s \o r)[i] = r[i - Len(s)]
    BY <1>2, <1>3, <1>5
  <2>2. PICK j \in DOMAIN r : i - Len(s) < j /\ Fetches(r[j], r[i - Len(s)].arg[2])
    BY <2>1 DEF ConnectsFirst
  <2>3. i < Len(s) + j
    BY <1>3, <2>2
  <2> QED
    BY <1>2, <2>1, <2>2, <2>3
<1> QED
  BY <1>4, <1>5

LEMMA ConnectsRest ==
  ASSUME NEW m \in Requests, NEW s \in Seq(Requests), ConnectsFirst(<<m>> \o s)
  PROVE  /\ ConnectsFirst(s)
         /\ m.method = "js_trigger" => \E f \in ToSet(s) : Fetches(f, m.arg[2])
<1> DEFINE q == <<m>> \o s
<1>1. q[1] = m /\ 1 \in DOMAIN q /\ DOMAIN q = 1..Len(s) + 1 /\ DOMAIN s = 1..Len(s) /\ Len(s) \in Nat
  OBVIOUS
<1>2. \A k \in DOMAIN s : k + 1 \in DOMAIN q /\ q[k + 1] = s[k]
  OBVIOUS
<1>3. \A i \in DOMAIN q : q[i].method = "js_trigger" => \E j \in DOMAIN q : i < j /\ Fetches(q[j], q[i].arg[2])
  BY DEF ConnectsFirst
<1> HIDE DEF q
<1>4. ASSUME NEW i \in DOMAIN q, q[i].method = "js_trigger"
      PROVE  \E k \in DOMAIN s : i < k + 1 /\ Fetches(s[k], q[i].arg[2])
  <2>1. PICK j \in DOMAIN q : i < j /\ Fetches(q[j], q[i].arg[2])
    BY <1>3, <1>4
  <2>2. j - 1 \in DOMAIN s /\ q[j] = s[j - 1] /\ i < (j - 1) + 1
    BY <1>1, <1>2, <2>1
  <2> QED
    BY <2>1, <2>2
<1>5. ASSUME NEW i \in DOMAIN s, s[i].method = "js_trigger"
      PROVE  \E k \in DOMAIN s : i < k /\ Fetches(s[k], s[i].arg[2])
  <2>1. PICK k \in DOMAIN s : i + 1 < k + 1 /\ Fetches(s[k], s[i].arg[2])
    BY <1>2, <1>4, <1>5
  <2> QED
    BY <1>1, <2>1
<1>6. ASSUME m.method = "js_trigger" PROVE \E f \in ToSet(s) : Fetches(f, m.arg[2])
  <2>1. PICK k \in DOMAIN s : Fetches(s[k], m.arg[2])
    BY <1>1, <1>4, <1>6
  <2> QED
    BY <2>1 DEF ToSet
<1> QED
  BY <1>5, <1>6 DEF ConnectsFirst

LEMMA OneMessage ==
  /\ \A m \in Requests : <<m>> \in Seq(Requests) /\ RequestOrder(<<m>>) /\ (m.method # "js_trigger" => ConnectsFirst(<<m>>))
  /\ \A m \in Replies : <<m>> \in Seq(Replies) /\ \A ids : ReplyOrder(<<m>>, ids)
  BY DEF RequestOrder, ReplyOrder, ConnectsFirst

LEMMA RequestArgs ==
  ASSUME NEW m \in Requests
  PROVE  /\ m.method = "renew" => m = Msg("renew", 0)
         /\ m.method = "report" => m.arg \in SUBSET Nat
         /\ m.method = "create" => m.arg \in Triggers /\ m = Msg("create", m.arg)
         /\ m.method = "remove" => m.arg \in Triggers /\ m = Msg("remove", m.arg)
         /\ m.method \in {"js_trigger", "get"} => m.arg[1] \in Nat /\ m.arg[2] \in Triggers
         /\ m.method \in {"call", "renew", "report", "create", "remove", "js_trigger", "get"}
  BY DEF Requests, Msg

LEMMA ReplyArgs ==
  ASSUME NEW m \in Replies
  PROVE  /\ m.method = "object" => m.arg \in Nat /\ m = Msg("object", m.arg)
         /\ m.method = "renewed" => m.arg \in BOOLEAN /\ m = Msg("renewed", m.arg)
         /\ m.method = "notify" => m.arg \in Triggers /\ m = Msg("notify", m.arg)
         /\ m.method = "value" => /\ m.arg[1] \in Triggers /\ m.arg[2] \in Nat
                                  /\ m = Msg("value", <<m.arg[1], m.arg[2]>>)
  BY DEF Replies, Msg

LEMMA UnderWay ==
  ASSUME IpcTypeOK
  PROVE  /\ Incoming \in Seq(Requests) /\ ToSet(Incoming) \subseteq Requests
         /\ Outgoing \in Seq(Replies) /\ ToSet(Outgoing) \subseteq Replies
         /\ ToSet(toClient) \subseteq ToSet(Outgoing)
         /\ Len(ws) = 2 => ws[2] \in ToSet(Outgoing)
         /\ Len(ws) \in 0..2
<1>a. ws \in Seq(Requests \cup Replies) /\ Len(ws) <= 2
  BY DEF IpcTypeOK
<1>b. Len(ws) \in Nat
  BY <1>a, LenProperties
<1>c. Len(ws) \in 0..2
  <2> DEFINE n == Len(ws)
  <2>1. n \in Nat /\ n <= 2
    BY <1>a, <1>b
  <2> HIDE DEF n
  <2>2. n \in 0..2
    BY <2>1
  <2> QED
    BY <2>2 DEF n
<1>1. Len(ws) \in 0..2 /\ toServer \in Seq(Requests) /\ toClient \in Seq(Replies)
  BY <1>c DEF IpcTypeOK
<1>2. Incoming \in Seq(Requests)
  <2>1. CASE Len(ws) = 1
    BY <1>1, <2>1, OneMessage, ElementsOfConcat DEF Incoming, IpcTypeOK
  <2> QED
    BY <1>1, <2>1 DEF Incoming
<1>3. /\ Outgoing \in Seq(Replies) /\ ToSet(toClient) \subseteq ToSet(Outgoing)
      /\ Len(ws) = 2 => ws[2] \in ToSet(Outgoing)
  <2>1. CASE Len(ws) = 2
    <3>1. ws[2] \in Replies /\ <<ws[2]>> \in Seq(Replies)
      BY <2>1, OneMessage DEF IpcTypeOK
    <3>2. toClient \o <<ws[2]>> \in Seq(Replies) /\ ToSet(toClient \o <<ws[2]>>) = ToSet(toClient) \cup ToSet(<<ws[2]>>)
      BY <1>1, <3>1, ElementsOfConcat
    <3> QED
      BY <2>1, <3>2, ElementsOfOne DEF Outgoing
  <2> QED
    BY <1>1, <2>1 DEF Outgoing
<1>4. ToSet(Incoming) \subseteq Requests /\ ToSet(Outgoing) \subseteq Replies
  BY <1>2, <1>3, ElementsOfSeq
<1> QED
  BY <1>1, <1>2, <1>3, <1>4

\* The client sends r.
LEMMA SendStep ==
  ASSUME IpcTypeOK, RequestOrder(Incoming), ConnectsFirst(Incoming), NEW r \in Seq(Requests),
         toServer' = toServer \o r, ws' = ws, RequestOrder(r), ConnectsFirst(r),
         \A a \in ToSet(Incoming), b \in ToSet(r) : RequestPair(a, b)
  PROVE  /\ toServer' \in Seq(Requests) /\ RequestOrder(Incoming') /\ ConnectsFirst(Incoming')
         /\ ToSet(Incoming') = ToSet(Incoming) \cup ToSet(r)
<1>1. toServer \in Seq(Requests) /\ Incoming \in Seq(Requests)
  BY UnderWay DEF IpcTypeOK
<1>2. toServer' \in Seq(Requests)
  BY <1>1, ElementsOfConcat
<1>3. Incoming' = Incoming \o r
  <2>1. CASE Len(ws) = 1
    <3>1. <<ws[1]>> \in Seq(Requests)
      BY <2>1, OneMessage DEF IpcTypeOK
    <3>2. (<<ws[1]>> \o toServer) \o r = <<ws[1]>> \o (toServer \o r)
      BY <1>1, <3>1, ConcatAssociative
    <3> QED
      BY <2>1, <3>2 DEF Incoming
  <2> QED
    BY <2>1 DEF Incoming
<1> HIDE DEF Incoming
<1>4. RequestOrder(Incoming \o r)
  BY <1>1, RequestsConcat
<1>5. ConnectsFirst(Incoming \o r)
  BY <1>1, ConnectsConcat
<1>6. ToSet(Incoming \o r) = ToSet(Incoming) \cup ToSet(r)
  BY <1>1, ElementsOfConcat
<1> QED
  BY <1>2, <1>3, <1>4, <1>5, <1>6

\* The main thread handles the message ws[1]; it sends k, and q is the reply.
LEMMA HandleStep ==
  ASSUME IpcTypeOK, RequestOrder(Incoming), ConnectsFirst(Incoming), Len(ws) = 1,
         NEW q \in Replies, NEW k \in Seq(Replies), NEW ids, ReplyOrder(Outgoing, ids),
         ws' = Append(ws, q), toServer' = toServer, toClient' = toClient \o k,
         ReplyOrder(k, ids), \A a \in ToSet(Outgoing), b \in ToSet(k) : ReplyPair(a, b, ids),
         \A a \in ToSet(Outgoing) \cup ToSet(k) : ReplyPair(a, q, ids)
  PROVE  /\ ws' \in Seq(Requests \cup Replies) /\ Len(ws') = 2 /\ ws'[1] \in Requests /\ ws'[2] = q
         /\ toClient' \in Seq(Replies)
         /\ RequestOrder(Incoming') /\ ConnectsFirst(Incoming') /\ ReplyOrder(Outgoing', ids)
         /\ ToSet(Incoming) = {ws[1]} \cup ToSet(Incoming')
         /\ \A b \in ToSet(Incoming') : RequestPair(ws[1], b)
         /\ ws[1].method = "js_trigger" => \E f \in ToSet(Incoming') : Fetches(f, ws[1].arg[2])
         /\ ToSet(Outgoing') = ToSet(Outgoing) \cup ToSet(k) \cup {q}
<1>1. toServer \in Seq(Requests) /\ toClient \in Seq(Replies) /\ ws[1] \in Requests /\ ws \in Seq(Requests \cup Replies)
  BY DEF IpcTypeOK
<1>2. ws' \in Seq(Requests \cup Replies) /\ Len(ws') = 2 /\ ws'[1] = ws[1] /\ ws'[2] = q
  <2> DEFINE U == Requests \cup Replies
  <2> HIDE DEF U
  <2>1. ws \in Seq(U) /\ q \in U
    BY <1>1 DEF U
  <2>2. Append(ws, q) \in Seq(U) /\ Len(Append(ws, q)) = 2 /\ Append(ws, q)[1] = ws[1] /\ Append(ws, q)[2] = q
    BY <2>1, AppendSecond
  <2> QED
    BY <2>2 DEF U
<1>3. Incoming = <<ws[1]>> \o toServer /\ Incoming' = toServer /\ Outgoing = toClient
      /\ Outgoing' = (toClient \o k) \o <<q>>
  BY <1>2 DEF Incoming, Outgoing
<1>4. /\ <<ws[1]>> \in Seq(Requests) /\ ToSet(<<ws[1]>>) = {ws[1]}
      /\ <<q>> \in Seq(Replies) /\ ToSet(<<q>>) = {q} /\ ReplyOrder(<<q>>, ids)
  BY <1>1, OneMessage, ElementsOfOne
<1>5. /\ RequestOrder(toServer) /\ \A b \in ToSet(toServer) : RequestPair(ws[1], b)
      /\ ToSet(Incoming) = {ws[1]} \cup ToSet(toServer)
  <2>1. ToSet(<<ws[1]>> \o toServer) = ToSet(<<ws[1]>>) \cup ToSet(toServer)
    <3>1. <<ws[1]>> \in Seq(Requests) /\ toServer \in Seq(Requests)
      BY <1>1, <1>4
    <3> QED
      BY <3>1, ElementsOfConcat
  <2>2. RequestOrder(toServer) /\ \A a \in ToSet(<<ws[1]>>), b \in ToSet(toServer) : RequestPair(a, b)
    BY <1>1, <1>3, <1>4, RequestsConcat
  <2> QED
    BY <1>3, <1>4, <2>1, <2>2
<1>6. /\ ConnectsFirst(toServer)
      /\ ws[1].method = "js_trigger" => \E f \in ToSet(toServer) : Fetches(f, ws[1].arg[2])
  BY <1>1, <1>3, ConnectsRest
<1>7. /\ toClient \o k \in Seq(Replies) /\ ReplyOrder(toClient \o k, ids)
      /\ ToSet(toClient \o k) = ToSet(toClient) \cup ToSet(k)
  BY <1>1, <1>3, RepliesConcat, ElementsOfConcat
<1> DEFINE sent == toClient \o k
<1> HIDE DEF sent
<1>8. sent \in Seq(Replies) /\ ReplyOrder(sent, ids) /\ ToSet(sent) = ToSet(toClient) \cup ToSet(k)
  BY <1>7 DEF sent
<1>9. ReplyOrder(sent \o <<q>>, ids) /\ ToSet(sent \o <<q>>) = ToSet(sent) \cup {q}
  <2>1. ToSet(sent \o <<q>>) = ToSet(sent) \cup ToSet(<<q>>)
    <3>1. sent \in Seq(Replies) /\ <<q>> \in Seq(Replies)
      BY <1>4, <1>8
    <3> QED
      BY <3>1, ElementsOfConcat
  <2>2. \A a \in ToSet(sent), b \in ToSet(<<q>>) : ReplyPair(a, b, ids)
    BY <1>3, <1>4, <1>8
  <2>3. ReplyOrder(sent \o <<q>>, ids)
    BY <1>4, <1>8, <2>2, RepliesConcat
  <2> QED
    BY <1>4, <2>1, <2>3
<1> QED
  BY <1>1, <1>2, <1>3, <1>5, <1>6, <1>7, <1>8, <1>9 DEF sent

\* The client takes the first message.
LEMMA ReceiveStep ==
  ASSUME IpcTypeOK, NEW ids, ReplyOrder(Outgoing, ids), toClient # <<>>, toClient' = Tail(toClient), ws' = ws
  PROVE  /\ toClient' \in Seq(Replies) /\ ReplyOrder(Outgoing', ids) /\ Head(toClient) \in Replies
         /\ ToSet(Outgoing) = {Head(toClient)} \cup ToSet(Outgoing')
         /\ \A b \in ToSet(Outgoing') : ReplyPair(Head(toClient), b, ids)
<1>1. toClient \in Seq(Replies)
  BY DEF IpcTypeOK
<1>2. Tail(toClient) \in Seq(Replies) /\ Head(toClient) \in Replies /\ toClient = <<Head(toClient)>> \o Tail(toClient)
  BY <1>1, HeadThenTail
<1>3. Outgoing' \in Seq(Replies) /\ Outgoing = <<Head(toClient)>> \o Outgoing'
  <2>1. CASE Len(ws) = 2
    <3>1. <<ws[2]>> \in Seq(Replies) /\ <<Head(toClient)>> \in Seq(Replies)
      BY <1>2, <2>1, OneMessage DEF IpcTypeOK
    <3>2. /\ Tail(toClient) \o <<ws[2]>> \in Seq(Replies)
          /\ (<<Head(toClient)>> \o Tail(toClient)) \o <<ws[2]>> = <<Head(toClient)>> \o (Tail(toClient) \o <<ws[2]>>)
      BY <1>2, <3>1, ConcatAssociative, ElementsOfConcat
    <3> QED
      BY <1>2, <2>1, <3>2 DEF Outgoing
  <2> QED
    BY <1>2, <2>1 DEF Outgoing
<1>4. <<Head(toClient)>> \in Seq(Replies) /\ ToSet(<<Head(toClient)>>) = {Head(toClient)}
  BY <1>2, OneMessage, ElementsOfOne
<1>5. ReplyOrder(Outgoing', ids) /\ \A b \in ToSet(Outgoing') : ReplyPair(Head(toClient), b, ids)
  BY <1>3, <1>4, RepliesConcat
<1>6. ToSet(Outgoing) = {Head(toClient)} \cup ToSet(Outgoing')
  <2>1. ToSet(<<Head(toClient)>> \o Outgoing') = ToSet(<<Head(toClient)>>) \cup ToSet(Outgoing')
    <3>1. <<Head(toClient)>> \in Seq(Replies) /\ Outgoing' \in Seq(Replies)
      BY <1>3, <1>4
    <3> QED
      BY <3>1, ElementsOfConcat
  <2> QED
    BY <1>3, <1>4, <2>1
<1> QED
  BY <1>2, <1>5, <1>6

-----------------------------------------------------------------------------
(* JsonIpc: the client *)

LEMMA CallKeeps ==
  ASSUME IpcInv, Call
  PROVE  IpcInv'
<1> DEFINE r == <<Msg("call", 0)>>
<1>1. r \in Seq(Requests) /\ RequestOrder(r) /\ ConnectsFirst(r) /\ ToSet(r) = {Msg("call", 0)}
  BY OneMessage, ElementsOfOne DEF Msg, Requests
<1>2. \A a \in ToSet(Incoming), b \in ToSet(r) : RequestPair(a, b)
  BY <1>1 DEF RequestPair, Msg
<1>3. toServer \in Seq(Requests) /\ toServer' = toServer \o r
  <2>1. toServer \in Seq(Requests) /\ Msg("call", 0) \in Requests /\ toServer' = Append(toServer, Msg("call", 0))
    BY DEF IpcInv, IpcTypeOK, Call, Requests, Msg
  <2> QED
    BY <2>1, AppendIsConcat
<1> HIDE DEF r
<1>4. /\ toServer' \in Seq(Requests) /\ RequestOrder(Incoming') /\ ConnectsFirst(Incoming')
      /\ ToSet(Incoming') = ToSet(Incoming) \cup {Msg("call", 0)}
  BY <1>1, <1>2, <1>3, SendStep DEF IpcInv, Call
<1>5. Outgoing' = Outgoing /\ Ids' = Ids /\ SentIds' = SentIds
  BY DEF Outgoing, Ids, SentIds, Call, ipcServerVars
<1>6. IpcTypeOK'
  BY <1>4 DEF IpcTypeOK, IpcInv, Call, ipcServerVars
<1>7. GcStage'
  BY <1>4, <1>5 DEF GcStage, Renewing, Renewed, Reported, IpcInv, Call, ipcServerVars, Msg
<1>8. GcIds'
  BY <1>4, <1>5 DEF GcIds, IpcInv, Call, ipcServerVars, Msg
<1>9. TriggerInv'
  BY <1>4, <1>5 DEF TriggerInv, IpcInv, Call, ipcServerVars, Msg, Fetches, Connects
<1>10. CacheInv'
  BY <1>4, <1>5 DEF CacheInv, Fresh, IpcInv, Call, ipcServerVars, Msg
<1>11. ReplyOrder(Outgoing', SentIds')
  BY <1>5 DEF IpcInv, Call
<1> QED
  BY <1>4, <1>6, <1>7, <1>8, <1>9, <1>10, <1>11 DEF IpcInv

LEMMA WatchRequestsOrdered ==
  ASSUME NEW id \in Nat, NEW t \in Triggers
  PROVE  LET r == WatchRequests(id, t)
         IN  /\ r \in Seq(Requests) /\ RequestOrder(r) /\ ConnectsFirst(r)
             /\ ToSet(r) = {Msg("create", t), Msg("js_trigger", <<id, t>>), Msg("get", <<id, t>>)}
<1> DEFINE a == Msg("create", t)
           b == Msg("js_trigger", <<id, t>>)
           c == Msg("get", <<id, t>>)
<1>1. a \in Requests /\ b \in Requests /\ c \in Requests
  BY DEF Requests, Msg
<1>2. RequestPair(a, b) /\ RequestPair(a, c) /\ RequestPair(b, c)
  BY DEF RequestPair, Msg
<1>3. a.method # "js_trigger" /\ c.method # "js_trigger" /\ Fetches(c, b.arg[2])
  BY DEF Fetches, Msg
<1>4. WatchRequests(id, t) = <<a, b, c>>
  BY DEF WatchRequests
<1> HIDE DEF a, b, c
<1> DEFINE r == <<a, b, c>>
<1>5. DOMAIN r = 1..3 /\ r[1] = a /\ r[2] = b /\ r[3] = c /\ r \in Seq(Requests)
  BY <1>1
<1> HIDE DEF r
<1>6. RequestOrder(r)
  BY <1>2, <1>5 DEF RequestOrder
<1>7. ConnectsFirst(r)
  BY <1>3, <1>5 DEF ConnectsFirst
<1>8. ToSet(r) = {a, b, c}
  BY <1>5 DEF ToSet
<1> QED
  BY <1>4, <1>5, <1>6, <1>7, <1>8 DEF r, a, b, c

LEMMA WatchKeeps ==
  ASSUME IpcInv, NEW id \in live, NEW t \in Triggers, get_reactive_prop(id, t)
  PROVE  IpcInv'
<1> DEFINE r == WatchRequests(id, t)
<1>1. id \in Nat /\ live \subseteq Nat
  BY DEF IpcInv, IpcTypeOK
<1>2. /\ r \in Seq(Requests) /\ RequestOrder(r) /\ ConnectsFirst(r)
      /\ ToSet(r) = {Msg("create", t), Msg("js_trigger", <<id, t>>), Msg("get", <<id, t>>)}
  BY <1>1, WatchRequestsOrdered
<1>3. toServer' = toServer \o r /\ ws' = ws /\ opened
  BY DEF get_reactive_prop
<1> HIDE DEF r
<1>4. /\ t \notin triggers_
      /\ {Msg("create", t), Msg("remove", t)} \cap ToSet(Incoming) = {}
      /\ \A m \in ToSet(Incoming) : ~Fetches(m, t) /\ ~Connects(m, t)
  BY <1>3 DEF get_reactive_prop, IpcInv, TriggerInv
<1>5. ToSet(Incoming) \subseteq Requests
  BY UnderWay DEF IpcInv
<1>6. \A a \in ToSet(Incoming), b \in ToSet(r) : RequestPair(a, b)
  <2>1. ASSUME NEW a \in ToSet(Incoming) PROVE RequestPair(a, Msg("create", t))
    <3>1. a \in Requests /\ a # Msg("create", t) /\ a # Msg("remove", t) /\ ~Connects(a, t)
      BY <1>4, <1>5
    <3> QED
      BY <3>1, RequestArgs DEF RequestPair, Msg, Connects
  <2>2. \A a \in ToSet(Incoming) : RequestPair(a, Msg("js_trigger", <<id, t>>)) /\ RequestPair(a, Msg("get", <<id, t>>))
    BY DEF RequestPair, Msg
  <2> QED
    BY <1>2, <2>1, <2>2
<1>7. /\ toServer' \in Seq(Requests) /\ RequestOrder(Incoming') /\ ConnectsFirst(Incoming')
      /\ ToSet(Incoming') = ToSet(Incoming) \cup {Msg("create", t), Msg("js_trigger", <<id, t>>), Msg("get", <<id, t>>)}
  BY <1>2, <1>3, <1>6, SendStep DEF IpcInv
<1>8. Outgoing' = Outgoing /\ Ids' = Ids /\ SentIds' = SentIds
  BY DEF Outgoing, Ids, SentIds, get_reactive_prop, ipcServerVars
<1>9. /\ watch' = [watch EXCEPT ![t] = "on"] /\ watched' = [watched EXCEPT ![t] = id]
      /\ watch \in [Triggers -> {"none", "on", "orphan", "off"}] /\ watched \in [Triggers -> Nat]
      /\ UNCHANGED <<live, garbage, inflight, cached, late, triggers_, connections, value, idset_, opened>>
  BY DEF get_reactive_prop, ipcServerVars, IpcInv, IpcTypeOK
<1>10. IpcTypeOK'
  BY <1>1, <1>7, <1>9 DEF IpcTypeOK, IpcInv, get_reactive_prop, ipcServerVars
<1>11. GcStage'
  BY <1>3, <1>7, <1>8, <1>9 DEF GcStage, Renewing, Renewed, Reported, IpcInv, Msg
<1>12. GcIds'
  BY <1>3, <1>7, <1>8, <1>9 DEF GcIds, IpcInv, Msg
<1>13. TriggerInv'
  <2>1. TriggerInv /\ opened
    BY <1>3 DEF IpcInv
  <2>2. \A u \in Triggers : u # t =>
          /\ watch'[u] = watch[u] /\ watched'[u] = watched[u]
          /\ Msg("create", u) \in ToSet(Incoming') <=> Msg("create", u) \in ToSet(Incoming)
          /\ Msg("remove", u) \in ToSet(Incoming') <=> Msg("remove", u) \in ToSet(Incoming)
          /\ (\A m \in ToSet(Incoming) : ~Fetches(m, u) /\ ~Connects(m, u))
               => \A m \in ToSet(Incoming') : ~Fetches(m, u) /\ ~Connects(m, u)
    BY <1>7, <1>9 DEF Msg, Fetches, Connects
  <2>3. watch'[t] = "on" /\ watched'[t] = id /\ t \notin triggers_ /\ Msg("create", t) \in ToSet(Incoming')
        /\ Msg("remove", t) \notin ToSet(Incoming')
    BY <1>4, <1>7, <1>9 DEF Msg
  <2>4. ASSUME NEW m \in ToSet(Incoming'), m.method \in {"js_trigger", "get"} PROVE m.arg[1] = watched'[m.arg[2]]
    <3>1. CASE m \in ToSet(Incoming)
      <4>1. m.arg[2] \in Triggers /\ m.arg[2] # t /\ m.arg[1] = watched[m.arg[2]]
        BY <1>4, <1>5, <2>1, <2>4, <3>1, RequestArgs DEF Fetches, Connects, TriggerInv
      <4> QED
        BY <2>2, <4>1
    <3> QED
      BY <1>7, <2>3, <2>4, <3>1 DEF Msg
  <2> QED
    BY <1>9, <2>1, <2>2, <2>3, <2>4 DEF TriggerInv
<1>14. CacheInv'
  <2>1. CacheInv /\ opened
    BY <1>3 DEF IpcInv
  <2>2. \A u \in Triggers : u # t => watch'[u] = watch[u] /\ watched'[u] = watched[u] /\ (Fresh(u) => Fresh(u)')
    BY <1>7, <1>8, <1>9 DEF Fresh
  <2>3. watch'[t] = "on" /\ watched'[t] \in live /\ Fresh(t)' /\ \E m \in ToSet(Incoming') : Connects(m, t)
    <3>1. Fetches(Msg("get", <<id, t>>), t) /\ Connects(Msg("js_trigger", <<id, t>>), t)
      BY DEF Fetches, Connects, Msg
    <3> QED
      BY <1>7, <1>9, <3>1 DEF Fresh
  <2> QED
    BY <1>7, <1>8, <1>9, <2>1, <2>2, <2>3 DEF CacheInv
<1>15. ReplyOrder(Outgoing', SentIds')
  BY <1>3, <1>8 DEF IpcInv
<1> QED
  BY <1>7, <1>10, <1>11, <1>12, <1>13, <1>14, <1>15 DEF IpcInv

LEMMA CollectKeeps ==
  ASSUME IpcInv, NEW id, Collect(id)
  PROVE  IpcInv'
<1>1. Outgoing' = Outgoing /\ Incoming' = Incoming /\ Ids' = Ids /\ SentIds' = SentIds
  BY DEF Outgoing, Incoming, Ids, SentIds, Collect, ipcServerVars
<1>2. /\ live' = live \ {id}
      /\ UNCHANGED <<garbage, inflight, watched, cached, late, triggers_, connections, value, idset_, opened>>
  BY DEF Collect, ipcServerVars
<1>3. \A t \in Triggers : \/ watch'[t] = watch[t] /\ ~(watch[t] = "on" /\ watched[t] = id)
                          \/ watch'[t] = "orphan" /\ watch[t] = "on"
  BY DEF Collect, IpcInv, IpcTypeOK
<1>4. IpcTypeOK'
  BY DEF IpcTypeOK, IpcInv, Collect, ipcServerVars
<1>5. CASE opened
  <2>1. GcStage'
    BY <1>1, <1>2, <1>5 DEF GcStage, Renewing, Renewed, Reported, IpcInv
  <2>2. GcIds'
    BY <1>1, <1>2, <1>5 DEF GcIds, IpcInv
  <2>3. TriggerInv'
    <3>1. TriggerInv
      BY <1>5 DEF IpcInv
    <3> QED
      BY <1>1, <1>2, <1>3, <3>1 DEF TriggerInv
  <2>4. CacheInv'
    <3>1. CacheInv
      BY <1>5 DEF IpcInv
    <3> QED
      BY <1>1, <1>2, <1>3, <3>1 DEF CacheInv, Fresh
  <2> QED
    BY <1>1, <1>4, <1>5, <2>1, <2>2, <2>3, <2>4 DEF IpcInv
<1> QED
  BY <1>2, <1>4, <1>5 DEF IpcInv

LEMMA MessagesListed ==
  ASSUME NEW T \in SUBSET Triggers, NEW kind
  PROVE  LET S == {Msg(kind, t) : t \in T} IN SetToSeq(S) \in Seq(S) /\ ToSet(SetToSeq(S)) = S
<1> DEFINE S == {Msg(kind, t) : t \in T}
           f == [t \in T |-> Msg(kind, t)]
<1>1. IsFiniteSet(T)
  BY BoundsAssumption, FS_Subset
<1>2. f \in Surjection(T, S)
  BY DEF Surjection
<1>3. IsFiniteSet(S)
  BY <1>1, <1>2, FS_Surjection
<1> HIDE DEF S
<1>4. SetToSeq(S) \in Seq(S) /\ ToSet(SetToSeq(S)) = S
  BY <1>3, ListedOnce
<1> QED
  BY <1>4 DEF S

\* The requests of a finalizer: removals, then renew-gc.
LEMMA FinalizerRequests ==
  ASSUME NEW T \in SUBSET Triggers, NEW c \in BOOLEAN
  PROVE  LET r == SetToSeq({Msg("remove", t) : t \in T}) \o IF c THEN <<>> ELSE <<Msg("renew", 0)>>
         IN  /\ r \in Seq(Requests) /\ RequestOrder(r) /\ ConnectsFirst(r)
             /\ ToSet(r) = {Msg("remove", t) : t \in T} \cup IF c THEN {} ELSE {Msg("renew", 0)}
<1> DEFINE S == {Msg("remove", t) : t \in T}
           q == SetToSeq(S)
           e == IF c THEN <<>> ELSE <<Msg("renew", 0)>>
<1>1. q \in Seq(S) /\ ToSet(q) = S
  BY MessagesListed
<1>2. S \subseteq Requests /\ \A m \in S : m.method = "remove"
  BY DEF Requests, Msg
<1>3. /\ e \in Seq(Requests) /\ ToSet(e) = IF c THEN {} ELSE {Msg("renew", 0)}
      /\ RequestOrder(e) /\ ConnectsFirst(e)
  <2>1. CASE c
    <3>1. e = <<>> /\ DOMAIN e = {}
      BY <2>1
    <3> QED
      BY <2>1, <3>1, ElementsOfEmpty DEF RequestOrder, ConnectsFirst
  <2>2. CASE ~c
    <3>1. e = <<Msg("renew", 0)>> /\ Msg("renew", 0) \in Requests /\ Msg("renew", 0).method # "js_trigger"
      BY <2>2 DEF Requests, Msg
    <3> QED
      BY <2>2, <3>1, OneMessage, ElementsOfOne
  <2> QED
    BY <2>1, <2>2
<1> HIDE DEF S, q, e
<1>4. q \in Seq(Requests) /\ \A i \in DOMAIN q : q[i].method = "remove"
  BY <1>1, <1>2
<1>5. RequestOrder(q)
  BY <1>4 DEF RequestOrder, RequestPair
<1>6. ConnectsFirst(q)
  BY <1>4 DEF ConnectsFirst
<1>7. \A a \in ToSet(q), b \in ToSet(e) : RequestPair(a, b)
  <2>1. \A b \in ToSet(e) : b = Msg("renew", 0)
    BY <1>3
  <2> QED
    BY <1>1, <1>2, <2>1 DEF RequestPair, Msg
<1>8. RequestOrder(q \o e)
  BY <1>3, <1>4, <1>5, <1>7, RequestsConcat
<1>9. ConnectsFirst(q \o e)
  BY <1>3, <1>4, <1>6, ConnectsConcat
<1>10. q \o e \in Seq(Requests) /\ ToSet(q \o e) = ToSet(q) \cup ToSet(e)
  <2>1. q \in Seq(Requests) /\ e \in Seq(Requests)
    BY <1>3, <1>4
  <2> QED
    BY <2>1, ElementsOfConcat
<1> QED
  BY <1>1, <1>3, <1>8, <1>9, <1>10 DEF S, q, e

LEMMA FinalizeKeeps ==
  ASSUME IpcInv, NEW id \in DOMAIN wmap_, jsonapi_finalization_gc(id)
  PROVE  IpcInv'
<1> DEFINE Removes == {Msg("remove", t) : t \in Orphans(id)}
           More == IF inflight THEN {} ELSE {Msg("renew", 0)}
           e == IF inflight THEN <<>> ELSE <<Msg("renew", 0)>>
           r == SetToSeq(Removes) \o e
<1>1. /\ opened /\ ws' = ws /\ inflight' = TRUE /\ garbage' = garbage \cup {id}
      /\ late' = IF id \in live THEN late \cup {id} ELSE late
      /\ UNCHANGED <<live, watched, cached, triggers_, connections, value, idset_, opened>>
  BY DEF jsonapi_finalization_gc, ipcServerVars
<1>2. /\ watch \in [Triggers -> {"none", "on", "orphan", "off"}] /\ inflight \in BOOLEAN
      /\ toServer \in Seq(Requests)
  BY DEF IpcInv, IpcTypeOK
<1>3. Orphans(id) \in SUBSET Triggers
  BY DEF Orphans
<1>4. r \in Seq(Requests) /\ RequestOrder(r) /\ ConnectsFirst(r) /\ ToSet(r) = Removes \cup More
  BY <1>2, <1>3, FinalizerRequests
<1>5. toServer' = toServer \o r
  <2>1. toServer' = (toServer \o SetToSeq(Removes)) \o e
    BY DEF jsonapi_finalization_gc
  <2>2. SetToSeq(Removes) \in Seq(Removes)
    BY <1>3, MessagesListed
  <2>3. Removes \subseteq Requests
    BY <1>3 DEF Requests, Msg
  <2> HIDE DEF Removes
  <2>4. SetToSeq(Removes) \in Seq(Requests)
    BY <2>2, <2>3
  <2>5. e \in Seq(Requests)
    <3>1. <<Msg("renew", 0)>> \in Seq(Requests) /\ <<>> \in Seq(Requests)
      BY DEF Requests, Msg
    <3> QED
      BY <3>1, Zenon
  <2> HIDE DEF e
  <2> QED
    BY <1>2, <2>1, <2>4, <2>5, ConcatAssociative
<1> HIDE DEF r, e
<1>6. ~inflight => ~Renewing /\ ~Renewed
  BY <1>1 DEF IpcInv, GcStage
<1>7. \A a \in ToSet(Incoming), b \in ToSet(r) : RequestPair(a, b)
  <2>1. ASSUME NEW a \in ToSet(Incoming), NEW b \in ToSet(r) PROVE RequestPair(a, b)
    <3>1. a \in Requests
      BY UnderWay DEF IpcInv
    <3>2. CASE b \in Removes
      BY <3>2 DEF RequestPair, Msg
    <3>3. CASE b = Msg("renew", 0) /\ ~inflight
      <4>1. a # Msg("renew", 0)
        BY <1>6, <3>3 DEF Renewing
      <4>2. a.method # "renew"
        BY <3>1, <4>1, RequestArgs
      <4> QED
        BY <3>3, <4>2 DEF RequestPair, Msg
    <3> QED
      BY <1>2, <1>4, <3>2, <3>3
  <2> QED
    BY <2>1
<1>8. /\ toServer' \in Seq(Requests) /\ RequestOrder(Incoming') /\ ConnectsFirst(Incoming')
      /\ ToSet(Incoming') = ToSet(Incoming) \cup (Removes \cup More)
  <2>1. /\ toServer' \in Seq(Requests) /\ RequestOrder(Incoming') /\ ConnectsFirst(Incoming')
        /\ ToSet(Incoming') = ToSet(Incoming) \cup ToSet(r)
    <3>1. IpcTypeOK /\ RequestOrder(Incoming) /\ ConnectsFirst(Incoming)
      BY <1>1 DEF IpcInv
    <3> QED
      BY <1>1, <1>4, <1>5, <1>7, <3>1, SendStep
  <2> QED
    BY <1>4, <2>1
<1>9. Outgoing' = Outgoing /\ Ids' = Ids /\ SentIds' = SentIds
  BY DEF Outgoing, Ids, SentIds, jsonapi_finalization_gc, ipcServerVars
<1>10. \A m \in ToSet(Incoming') : m \notin ToSet(Incoming) => m.method \in {"remove", "renew"}
  BY <1>2, <1>8 DEF Msg
<1>11. \A m : m \in ToSet(Incoming) => m \in ToSet(Incoming')
  BY <1>8
<1>12. \A t \in Triggers : Msg("remove", t) \in ToSet(Incoming') <=>
         Msg("remove", t) \in ToSet(Incoming) \/ t \in Orphans(id)
  <2>1. \A t \in Triggers : Msg("remove", t) \in Removes <=> t \in Orphans(id)
    BY DEF Msg
  <2>2. \A t : Msg("remove", t) \notin More
    BY <1>2 DEF Msg
  <2> HIDE DEF Removes, More
  <2> QED
    BY <1>8, <2>1, <2>2
<1>13. Renewing' => Renewing \/ ~inflight
  BY <1>8 DEF Renewing, Msg
<1> HIDE DEF Removes, More
<1>14. /\ \A t \in Orphans(id) : watch'[t] = "off" /\ watch[t] = "orphan"
       /\ \A t \in Triggers \ Orphans(id) : watch'[t] = watch[t]
  BY <1>2 DEF jsonapi_finalization_gc, Orphans
<1>15. IpcTypeOK'
  <2>1. id \in Nat
    BY DEF IpcInv, IpcTypeOK
  <2>2. watch' \in [Triggers -> {"none", "on", "orphan", "off"}]
    BY <1>2 DEF jsonapi_finalization_gc
  <2> QED
    <3>1. garbage' \subseteq Nat /\ UNCHANGED <<toClient, wmap_>>
      BY <1>1, <2>1 DEF IpcTypeOK, IpcInv, jsonapi_finalization_gc, ipcServerVars
    <3> QED
      BY <1>1, <1>8, <2>2, <3>1 DEF IpcTypeOK, IpcInv
<1>16. GcStage'
  <2>1. Reported' <=> Reported
    BY <1>10, <1>11 DEF Reported
  <2>2. Renewed' <=> Renewed
    BY <1>9 DEF Renewed
  <2> QED
    BY <1>1, <1>6, <1>9, <1>13, <2>1, <2>2 DEF GcStage, IpcInv
<1>17. GcIds'
  <2>1. GcIds
    BY <1>1 DEF IpcInv
  <2> QED
    BY <1>1, <1>9, <1>10, <2>1 DEF GcIds
<1>18. TriggerInv'
  <2>1. TriggerInv
    BY <1>1 DEF IpcInv
  <2>2. \A t \in Triggers : Msg("create", t) \in ToSet(Incoming') <=> Msg("create", t) \in ToSet(Incoming)
    BY <1>10, <1>11 DEF Msg
  <2>3. \A m \in ToSet(Incoming') : m.method \in {"js_trigger", "get"} => m \in ToSet(Incoming)
    BY <1>10
  <2>4. \A m \in ToSet(Incoming'), t \in Triggers : Fetches(m, t) \/ Connects(m, t) => m \in ToSet(Incoming)
    BY <1>10 DEF Fetches, Connects
  <2> QED
    BY <1>1, <1>3, <1>12, <1>14, <2>1, <2>2, <2>3, <2>4 DEF TriggerInv
<1>19. CacheInv'
  <2>1. CacheInv
    BY <1>1 DEF IpcInv
  <2>2. \A t \in Triggers : watch'[t] = "on" => watch[t] = "on"
    BY <1>3, <1>14
  <2>3. late \subseteq late'
    BY <1>1
  <2>4. \A t \in Triggers : Fresh(t) => Fresh(t)'
    BY <1>1, <1>9, <1>11 DEF Fresh
  <2> QED
    BY <1>1, <1>9, <1>11, <2>1, <2>2, <2>3, <2>4 DEF CacheInv
<1>20. ReplyOrder(Outgoing', SentIds')
  BY <1>1, <1>9 DEF IpcInv
<1> QED
  BY <1>8, <1>15, <1>16, <1>17, <1>18, <1>19, <1>20 DEF IpcInv

\* The client takes msg, whatever it does with it.
LEMMA SocketStep ==
  ASSUME IpcInv, socket_message
  PROVE  LET msg == Head(toClient)
         IN  /\ opened /\ msg \in Replies
             /\ toClient' \in Seq(Replies) /\ ReplyOrder(Outgoing', SentIds')
             /\ ToSet(Outgoing) = {msg} \cup ToSet(Outgoing')
             /\ \A b \in ToSet(Outgoing') : ReplyPair(msg, b, SentIds)
             /\ UNCHANGED <<opened, ws, wmap_, idset_, triggers_, connections, value>>
             /\ Ids' = Ids /\ SentIds' = SentIds
             /\ toServer' = toServer => Incoming' = Incoming
<1>1. /\ opened /\ toClient # <<>> /\ toClient' = Tail(toClient)
      /\ UNCHANGED <<opened, ws, wmap_, idset_, triggers_, connections, value>>
  BY DEF socket_message, ipcServerVars
<1>2. SentIds' = SentIds /\ Ids' = Ids
  BY <1>1 DEF SentIds, Ids
<1>3. toServer' = toServer => Incoming' = Incoming
  BY <1>1 DEF Incoming
<1>4. IpcTypeOK /\ ReplyOrder(Outgoing, SentIds) /\ ws' = ws
  BY <1>1 DEF IpcInv
<1>5. /\ toClient' \in Seq(Replies) /\ ReplyOrder(Outgoing', SentIds) /\ Head(toClient) \in Replies
      /\ ToSet(Outgoing) = {Head(toClient)} \cup ToSet(Outgoing')
      /\ \A b \in ToSet(Outgoing') : ReplyPair(Head(toClient), b, SentIds)
  BY <1>1, <1>4, ReceiveStep
<1> QED
  BY <1>1, <1>2, <1>3, <1>5

LEMMA ObjectReceived ==
  ASSUME IpcInv, socket_message, Head(toClient).method = "object", ReceiveObject(Head(toClient).arg)
  PROVE  IpcInv'
<1> DEFINE msg == Head(toClient)
           id == msg.arg
<1>1. /\ opened /\ msg \in Replies
      /\ toClient' \in Seq(Replies) /\ ReplyOrder(Outgoing', SentIds')
      /\ ToSet(Outgoing) = {msg} \cup ToSet(Outgoing')
      /\ UNCHANGED <<opened, ws, wmap_, idset_, triggers_, connections, value>>
      /\ Ids' = Ids /\ SentIds' = SentIds
      /\ toServer' = toServer => Incoming' = Incoming
  BY SocketStep
<1>2. /\ live' = live \cup {id} /\ garbage' = IF id \in live THEN garbage ELSE garbage \ {id}
      /\ UNCHANGED <<dead, inflight, watch, watched, cached, calls, late, toServer>>
  BY DEF ReceiveObject
<1>3. id \in Nat /\ msg = Msg("object", id)
  BY <1>1, ReplyArgs
<1>4. \A m \in ToSet(Outgoing) : m.method # "object" => m \in ToSet(Outgoing')
  BY <1>1
<1> HIDE DEF msg, id
<1>5. /\ ToSet(Outgoing') \subseteq ToSet(Outgoing) /\ Incoming' = Incoming
      /\ Msg("object", id) \in ToSet(Outgoing)
  BY <1>1, <1>2, <1>3
<1>6. IpcTypeOK'
  BY <1>1, <1>2, <1>3 DEF IpcInv, IpcTypeOK
<1>7. GcStage'
  <2>1. \A m \in ToSet(Outgoing') : m \in ToSet(Outgoing)
    BY <1>5
  <2>2. Renewed' <=> Renewed
    BY <1>4, <1>5 DEF Renewed, Msg
  <2> QED
    BY <1>1, <1>2, <1>5, <2>1, <2>2 DEF GcStage, IpcInv, Renewing, Reported
<1>8. GcIds'
  <2>1. GcIds
    BY <1>1 DEF IpcInv
  <2>2. garbage' \cap live' \subseteq late'
    BY <1>2, <2>1 DEF GcIds
  <2>3. id \in Ids
    BY <1>5, <2>1 DEF GcIds, Msg
  <2> QED
    BY <1>1, <1>2, <1>5, <2>1, <2>2, <2>3 DEF GcIds
<1>9. TriggerInv'
  BY <1>1, <1>2, <1>5 DEF TriggerInv, IpcInv
<1>10. CacheInv'
  <2>1. CacheInv
    BY <1>1 DEF IpcInv
  <2>2. \A t \in Triggers : Fresh(t) => Fresh(t)'
    BY <1>1, <1>2, <1>4, <1>5 DEF Fresh, Msg
  <2> QED
    BY <1>1, <1>2, <1>5, <2>1, <2>2 DEF CacheInv
<1>11. RequestOrder(Incoming') /\ ConnectsFirst(Incoming')
  BY <1>1, <1>5 DEF IpcInv
<1> QED
  BY <1>1, <1>6, <1>7, <1>8, <1>9, <1>10, <1>11 DEF IpcInv

LEMMA RenewedReceived ==
  ASSUME IpcInv, socket_message, Head(toClient).method = "renewed", ReceiveRenewed(Head(toClient).arg)
  PROVE  IpcInv'
<1> DEFINE msg == Head(toClient)
           r == <<Msg("report", garbage)>>
<1>1. /\ opened /\ msg \in Replies
      /\ toClient' \in Seq(Replies) /\ ReplyOrder(Outgoing', SentIds')
      /\ ToSet(Outgoing) = {msg} \cup ToSet(Outgoing')
      /\ \A b \in ToSet(Outgoing') : ReplyPair(msg, b, SentIds)
      /\ UNCHANGED <<opened, ws, wmap_, idset_, triggers_, connections, value>>
      /\ Ids' = Ids /\ SentIds' = SentIds
  BY SocketStep
<1>2. msg = Msg("renewed", TRUE) /\ GcStage /\ GcIds
  <2>1. GcStage /\ GcIds
    BY <1>1 DEF IpcInv
  <2>2. msg.arg = TRUE
    BY <1>1, <2>1 DEF GcStage
  <2> QED
    BY <1>1, <2>1, <2>2, ReplyArgs
<1>3. /\ inflight' = FALSE /\ garbage' = {} /\ toServer' = Append(toServer, Msg("report", garbage))
      /\ UNCHANGED <<live, dead, watch, watched, cached, calls, late>>
  BY <1>2 DEF ReceiveRenewed, Msg
<1>4. Renewed /\ ~Renewing /\ ~Reported /\ idset_ # <<>>
  BY <1>1, <1>2 DEF Renewed, GcStage
<1>5. ~ Renewed'
  BY <1>1, <1>2 DEF Renewed, ReplyPair, Msg
<1>6. Msg("report", garbage) \in Requests /\ Msg("report", garbage).method # "js_trigger"
  BY DEF IpcInv, IpcTypeOK, Requests, Msg
<1>7. toServer' = toServer \o r
  BY <1>3, <1>6, AppendIsConcat DEF IpcInv, IpcTypeOK
<1>8. r \in Seq(Requests) /\ RequestOrder(r) /\ ConnectsFirst(r) /\ ToSet(r) = {Msg("report", garbage)}
  BY <1>6, OneMessage, ElementsOfOne
<1> HIDE DEF r, msg
<1>9. \A a \in ToSet(Incoming), b \in ToSet(r) : RequestPair(a, b)
  <2>1. ASSUME NEW a \in ToSet(Incoming) PROVE a.method # "renew" /\ a.method # "report"
    <3>1. a \in Requests
      BY UnderWay DEF IpcInv
    <3> QED
      BY <1>4, <3>1, RequestArgs DEF Renewing, Reported
  <2> QED
    BY <1>8, <2>1 DEF RequestPair, Msg
<1>10. /\ toServer' \in Seq(Requests) /\ RequestOrder(Incoming') /\ ConnectsFirst(Incoming')
       /\ ToSet(Incoming') = ToSet(Incoming) \cup {Msg("report", garbage)}
  <2>1. IpcTypeOK /\ RequestOrder(Incoming) /\ ConnectsFirst(Incoming) /\ ws' = ws
    BY <1>1 DEF IpcInv
  <2> QED
    BY <1>7, <1>8, <1>9, <2>1, SendStep
<1>11. ToSet(Outgoing') \subseteq ToSet(Outgoing) /\ \A m \in ToSet(Outgoing) : m.method # "renewed" => m \in ToSet(Outgoing')
  BY <1>1, <1>2 DEF Msg
<1>12. IpcTypeOK'
  BY <1>1, <1>3, <1>10 DEF IpcInv, IpcTypeOK
<1>13. GcStage'
  <2>1. ~ Renewing'
    BY <1>4, <1>10 DEF Renewing, Msg
  <2>2. Reported'
    <3>1. Msg("report", garbage).method = "report" /\ Msg("report", garbage) \in ToSet(Incoming')
      BY <1>10 DEF Msg
    <3> HIDE DEF Incoming
    <3>2. \E m \in ToSet(Incoming') : m.method = "report"
      BY <3>1, Zenon
    <3> QED
      BY <3>2 DEF Reported
  <2> QED
    BY <1>1, <1>2, <1>4, <1>5, <1>11, <2>1, <2>2 DEF GcStage
<1>14. GcIds'
  <2>1. ASSUME NEW m \in ToSet(Incoming'), m.method = "report", NEW id \in m.arg,
               id \in live \ late \/ Msg("object", id) \in ToSet(Outgoing')
        PROVE  id \in SentIds
    <3>1. m = Msg("report", garbage)
      BY <1>4, <1>10, <2>1 DEF Reported
    <3>2. id \notin live \ late
      BY <1>2, <2>1, <3>1 DEF GcIds, Msg
    <3> QED
      BY <1>1, <1>2, <2>1, <3>2 DEF ReplyPair, Msg
  <2> QED
    BY <1>1, <1>2, <1>3, <1>11, <2>1 DEF GcIds
<1>15. \A m \in ToSet(Incoming') : m \in ToSet(Incoming) \/ m.method = "report"
  BY <1>10 DEF Msg
<1>16. TriggerInv'
  <2>1. TriggerInv
    BY <1>1 DEF IpcInv
  <2>2. \A t \in Triggers : /\ Msg("create", t) \in ToSet(Incoming') <=> Msg("create", t) \in ToSet(Incoming)
                            /\ Msg("remove", t) \in ToSet(Incoming') <=> Msg("remove", t) \in ToSet(Incoming)
    BY <1>10 DEF Msg
  <2>3. \A m \in ToSet(Incoming') : m.method \in {"js_trigger", "get"} => m \in ToSet(Incoming)
    BY <1>15
  <2>4. \A m \in ToSet(Incoming'), t \in Triggers : Fetches(m, t) \/ Connects(m, t) => m \in ToSet(Incoming)
    BY <1>15 DEF Fetches, Connects
  <2> QED
    BY <1>1, <1>3, <2>1, <2>2, <2>3, <2>4 DEF TriggerInv
<1>17. CacheInv'
  <2>1. CacheInv
    BY <1>1 DEF IpcInv
  <2>2. \A t \in Triggers : Fresh(t) => Fresh(t)'
    BY <1>1, <1>3, <1>10, <1>11 DEF Fresh, Msg
  <2> QED
    BY <1>1, <1>3, <1>10, <1>11, <2>1, <2>2 DEF CacheInv
<1> QED
  BY <1>1, <1>10, <1>12, <1>13, <1>14, <1>16, <1>17 DEF IpcInv

LEMMA NotifyReceived ==
  ASSUME IpcInv, socket_message, Head(toClient).method = "notify", ReceiveNotify(Head(toClient).arg)
  PROVE  IpcInv'
<1> DEFINE msg == Head(toClient)
           t == msg.arg
           get == Msg("get", <<watched[t], t>>)
           More == IF watch[t] = "on" THEN {get} ELSE {}
<1>1. /\ opened /\ msg \in Replies
      /\ toClient' \in Seq(Replies) /\ ReplyOrder(Outgoing', SentIds')
      /\ ToSet(Outgoing) = {msg} \cup ToSet(Outgoing')
      /\ UNCHANGED <<opened, ws, wmap_, idset_, triggers_, connections, value>>
      /\ Ids' = Ids /\ SentIds' = SentIds
      /\ toServer' = toServer => Incoming' = Incoming
  BY SocketStep
<1>2. /\ toServer' = IF watch[t] = "on" THEN Append(toServer, get) ELSE toServer
      /\ UNCHANGED <<live, garbage, inflight, watch, watched, cached, late>>
  BY DEF ReceiveNotify, clientVars
<1>3. t \in Triggers /\ msg = Msg("notify", t)
  BY <1>1, ReplyArgs
<1>4. ToSet(Outgoing') \subseteq ToSet(Outgoing) /\ \A m \in ToSet(Outgoing) : m # Msg("notify", t) => m \in ToSet(Outgoing')
  BY <1>1, <1>3
<1>5. IpcTypeOK /\ RequestOrder(Incoming) /\ ConnectsFirst(Incoming)
  BY <1>1 DEF IpcInv
<1> HIDE DEF msg, t
<1>6. get \in Requests /\ get.method = "get" /\ Fetches(get, t) /\ get.arg[1] = watched[t] /\ get.arg[2] = t
  BY <1>3, <1>5 DEF IpcTypeOK, Requests, Msg, Fetches
<1> HIDE DEF get
<1>7. /\ toServer' \in Seq(Requests) /\ RequestOrder(Incoming') /\ ConnectsFirst(Incoming')
      /\ ToSet(Incoming') = ToSet(Incoming) \cup More
  <2>1. CASE watch[t] = "on"
    <3> DEFINE r == <<get>>
    <3>1. toServer' = toServer \o r
      BY <1>2, <1>5, <1>6, <2>1, AppendIsConcat DEF IpcTypeOK
    <3>2. r \in Seq(Requests) /\ RequestOrder(r) /\ ConnectsFirst(r) /\ ToSet(r) = {get}
      BY <1>6, OneMessage, ElementsOfOne
    <3> HIDE DEF r
    <3>3. \A a \in ToSet(Incoming), b \in ToSet(r) : RequestPair(a, b)
      BY <1>6, <3>2 DEF RequestPair
    <3>4. /\ toServer' \in Seq(Requests) /\ RequestOrder(Incoming') /\ ConnectsFirst(Incoming')
          /\ ToSet(Incoming') = ToSet(Incoming) \cup ToSet(r)
      <4>1. ws' = ws
        BY <1>1
      <4> QED
        BY <1>5, <3>1, <3>2, <3>3, <4>1, SendStep
    <3> QED
      BY <2>1, <3>2, <3>4
  <2>2. CASE watch[t] # "on"
    BY <1>1, <1>2, <1>5, <2>2 DEF IpcTypeOK
  <2> QED
    BY <2>1, <2>2
<1>8. \A m \in ToSet(Incoming) : m \in ToSet(Incoming')
  BY <1>7
<1>9. \A m \in ToSet(Incoming') : m \in ToSet(Incoming) \/ (m = get /\ watch[t] = "on")
  <2>1. \A m \in More : m = get /\ watch[t] = "on"
    OBVIOUS
  <2> HIDE DEF More
  <2> QED
    BY <1>7, <2>1
<1>10. IpcTypeOK'
  BY <1>1, <1>2, <1>5, <1>7 DEF IpcTypeOK
<1>11. GcStage'
  <2>1. (Renewed' <=> Renewed) /\ \A m \in ToSet(Outgoing') : m \in ToSet(Outgoing)
    BY <1>4 DEF Renewed, Msg
  <2>2. Renewing' <=> Renewing
    BY <1>6, <1>8, <1>9 DEF Renewing, Msg
  <2>3. Reported' <=> Reported
    BY <1>6, <1>8, <1>9 DEF Reported
  <2>4. GcStage
    BY <1>1 DEF IpcInv
  <2> QED
    BY <1>1, <1>2, <2>1, <2>2, <2>3, <2>4 DEF GcStage
<1>12. GcIds'
  <2>1. GcIds
    BY <1>1 DEF IpcInv
  <2> QED
    BY <1>1, <1>2, <1>4, <1>6, <1>9, <2>1 DEF GcIds
<1>13. TriggerInv'
  <2>1. TriggerInv
    BY <1>1 DEF IpcInv
  <2>2. \A u \in Triggers : /\ Msg("create", u) \in ToSet(Incoming') <=> Msg("create", u) \in ToSet(Incoming)
                            /\ Msg("remove", u) \in ToSet(Incoming') <=> Msg("remove", u) \in ToSet(Incoming)
    BY <1>6, <1>8, <1>9 DEF Msg
  <2>3. \A m \in ToSet(Incoming') : m.method \in {"js_trigger", "get"} => m.arg[1] = watched[m.arg[2]]
    BY <1>6, <1>9, <2>1 DEF TriggerInv
  <2>4. \A m \in ToSet(Incoming'), u \in Triggers :
          watch[u] = "none" /\ (Fetches(m, u) \/ Connects(m, u)) => m \in ToSet(Incoming)
    BY <1>6, <1>9 DEF Fetches, Connects
  <2> QED
    BY <1>1, <1>2, <2>1, <2>2, <2>3, <2>4 DEF TriggerInv
<1>14. CacheInv'
  <2>1. CacheInv
    BY <1>1 DEF IpcInv
  <2>2. ASSUME NEW u \in Triggers, watch[u] = "on", Fresh(u) PROVE Fresh(u)'
    <3>1. CASE u = t
      <4>1. get \in ToSet(Incoming') /\ Fetches(get, u)
        BY <1>6, <1>7, <2>2, <3>1
      <4> QED
        BY <4>1, Zenon DEF Fresh
    <3>2. CASE u # t
      BY <1>1, <1>2, <1>4, <1>8, <2>2, <3>2 DEF Fresh, Msg
    <3> QED
      BY <3>1, <3>2
  <2> QED
    BY <1>1, <1>2, <1>4, <1>8, <2>1, <2>2 DEF CacheInv
<1> QED
  BY <1>1, <1>7, <1>10, <1>11, <1>12, <1>13, <1>14 DEF IpcInv

LEMMA ValueReceived ==
  ASSUME IpcInv, socket_message, Head(toClient).method = "value",
         ReceiveValue(Head(toClient).arg[1], Head(toClient).arg[2])
  PROVE  IpcInv'
<1> DEFINE msg == Head(toClient)
           t == msg.arg[1]
           v == msg.arg[2]
<1>1. /\ opened /\ msg \in Replies
      /\ toClient' \in Seq(Replies) /\ ReplyOrder(Outgoing', SentIds')
      /\ ToSet(Outgoing) = {msg} \cup ToSet(Outgoing')
      /\ \A b \in ToSet(Outgoing') : ReplyPair(msg, b, SentIds)
      /\ UNCHANGED <<opened, ws, wmap_, idset_, triggers_, connections, value>>
      /\ Ids' = Ids /\ SentIds' = SentIds
      /\ toServer' = toServer => Incoming' = Incoming
  BY SocketStep
<1>2. /\ cached' = [cached EXCEPT ![t] = IF watch[t] = "on" THEN v ELSE @]
      /\ UNCHANGED <<live, garbage, inflight, watch, watched, late, toServer>>
      /\ cached \in [Triggers -> Int] /\ value \in Nat
  BY DEF ReceiveValue, IpcInv, IpcTypeOK
<1>3. t \in Triggers /\ v \in Nat /\ msg = Msg("value", <<t, v>>)
  BY <1>1, ReplyArgs
<1>4. \A b \in ToSet(Outgoing') : b.method = "value" /\ b.arg[1] = t => v <= b.arg[2]
  BY <1>1 DEF ReplyPair
<1> HIDE DEF msg, t, v
<1>5. /\ ToSet(Outgoing') \subseteq ToSet(Outgoing) /\ Incoming' = Incoming
      /\ \A m \in ToSet(Outgoing) : m # msg => m \in ToSet(Outgoing')
  BY <1>1, <1>2
<1>6. IpcTypeOK'
  BY <1>1, <1>2, <1>3 DEF IpcInv, IpcTypeOK
<1>7. GcStage'
  <2>1. (Renewed' <=> Renewed) /\ \A m \in ToSet(Outgoing') : m \in ToSet(Outgoing)
    BY <1>3, <1>5 DEF Renewed, Msg
  <2> QED
    BY <1>1, <1>2, <1>5, <2>1 DEF GcStage, IpcInv, Renewing, Reported
<1>8. GcIds'
  BY <1>1, <1>2, <1>5 DEF GcIds, IpcInv
<1>9. TriggerInv'
  BY <1>1, <1>2, <1>5 DEF TriggerInv, IpcInv
<1>10. CacheInv'
  <2>1. CacheInv
    BY <1>1 DEF IpcInv
  <2>2. cached[t] <= v /\ v <= value
    <3>1. msg \in ToSet(Outgoing) /\ msg.method = "value" /\ msg.arg[1] = t /\ msg.arg[2] = v
      BY <1>1, <1>3 DEF Msg
    <3> QED
      BY <2>1, <3>1 DEF CacheInv
  <2>3. ASSUME NEW u \in Triggers, Fresh(u), watch[u] = "on" PROVE Fresh(u)'
    <3>1. CASE u = t
      <4>1. cached'[u] = v
        BY <1>2, <1>3, <2>3, <3>1
      <4>2. CASE Msg("value", <<u, value>>) = msg
        <5>1. v = value
          BY <1>3, <3>1, <4>2 DEF Msg
        <5> QED
          BY <1>1, <4>1, <5>1 DEF Fresh
      <4>3. CASE cached[u] = value
        <5>1. v = value
          BY <1>2, <1>3, <2>2, <3>1, <4>3
        <5> QED
          BY <1>1, <4>1, <5>1 DEF Fresh
      <4>4. CASE \/ \E m \in ToSet(Incoming) : Fetches(m, u)
                 \/ Msg("notify", u) \in ToSet(Outgoing)
                 \/ Msg("value", <<u, value>>) \in ToSet(Outgoing) /\ Msg("value", <<u, value>>) # msg
        <5>1. Msg("notify", u) # msg
          BY <1>3 DEF Msg
        <5> QED
          BY <1>1, <1>5, <4>4, <5>1 DEF Fresh
      <4> QED
        BY <2>3, <4>2, <4>3, <4>4 DEF Fresh
    <3>2. CASE u # t
      <4>1. Msg("notify", u) # msg /\ Msg("value", <<u, value>>) # msg /\ cached'[u] = cached[u]
        BY <1>2, <1>3, <3>2 DEF Msg
      <4> QED
        BY <1>1, <1>5, <2>3, <4>1 DEF Fresh
    <3> QED
      BY <3>1, <3>2
  <2>4. ASSUME NEW u \in Triggers PROVE cached'[u] <= value /\ (cached'[u] = cached[u] \/ (u = t /\ cached'[u] = v))
    <3>1. CASE u = t /\ watch[t] = "on"
      <4>1. cached'[u] = v
        BY <1>2, <3>1
      <4> QED
        BY <2>2, <3>1, <4>1
    <3>2. CASE ~(u = t /\ watch[t] = "on")
      <4>1. cached'[u] = cached[u]
        BY <1>2, <3>2
      <4> QED
        BY <2>1, <4>1 DEF CacheInv
    <3> QED
      BY <3>1, <3>2
  <2>5. ASSUME NEW m \in ToSet(Outgoing'), m.method = "value" PROVE cached'[m.arg[1]] <= m.arg[2] /\ m.arg[2] <= value
    <3>1. m \in ToSet(Outgoing) /\ m \in Replies
      BY <1>5, UnderWay DEF IpcInv
    <3>2. m.arg[1] \in Triggers /\ cached[m.arg[1]] <= m.arg[2] /\ m.arg[2] <= value
      BY <2>1, <2>5, <3>1, ReplyArgs DEF CacheInv
    <3> QED
      BY <1>4, <2>4, <2>5, <3>2
  <2> QED
    BY <1>1, <1>2, <1>5, <2>1, <2>3, <2>4, <2>5 DEF CacheInv
<1>11. RequestOrder(Incoming') /\ ConnectsFirst(Incoming')
  BY <1>1, <1>5 DEF IpcInv
<1> QED
  BY <1>1, <1>6, <1>7, <1>8, <1>9, <1>10, <1>11 DEF IpcInv

LEMMA OtherReceived ==
  ASSUME IpcInv, socket_message, ReceiveOther,
         Head(toClient).method \notin {"object", "renewed", "notify", "value"}
  PROVE  IpcInv'
<1> DEFINE msg == Head(toClient)
<1>1. /\ opened /\ msg.method \notin {"object", "renewed", "notify", "value"}
      /\ toClient' \in Seq(Replies) /\ ReplyOrder(Outgoing', SentIds')
      /\ ToSet(Outgoing) = {msg} \cup ToSet(Outgoing')
      /\ UNCHANGED <<opened, ws, wmap_, idset_, triggers_, connections, value>>
      /\ Ids' = Ids /\ SentIds' = SentIds
      /\ toServer' = toServer => Incoming' = Incoming
  BY SocketStep
<1>2. UNCHANGED <<live, garbage, inflight, watch, watched, cached, late, toServer>>
  BY DEF ReceiveOther, clientVars
<1> HIDE DEF msg
<1>3. /\ ToSet(Outgoing') \subseteq ToSet(Outgoing) /\ Incoming' = Incoming
      /\ \A m \in ToSet(Outgoing) : m.method \in {"object", "renewed", "notify", "value"} => m \in ToSet(Outgoing')
  BY <1>1, <1>2
<1>4. IpcTypeOK'
  BY <1>1, <1>2 DEF IpcInv, IpcTypeOK
<1>5. GcStage'
  <2>1. (Renewed' <=> Renewed) /\ \A m \in ToSet(Outgoing') : m \in ToSet(Outgoing)
    BY <1>3 DEF Renewed, Msg
  <2> QED
    BY <1>1, <1>2, <1>3, <2>1 DEF GcStage, IpcInv, Renewing, Reported
<1>6. GcIds'
  BY <1>1, <1>2, <1>3 DEF GcIds, IpcInv
<1>7. TriggerInv'
  BY <1>1, <1>2, <1>3 DEF TriggerInv, IpcInv
<1>8. CacheInv'
  <2>1. CacheInv
    BY <1>1 DEF IpcInv
  <2>2. \A u \in Triggers : Fresh(u) => Fresh(u)'
    BY <1>1, <1>2, <1>3 DEF Fresh, Msg
  <2> QED
    BY <1>1, <1>2, <1>3, <2>1, <2>2 DEF CacheInv
<1>9. RequestOrder(Incoming') /\ ConnectsFirst(Incoming')
  BY <1>1, <1>3 DEF IpcInv
<1> QED
  BY <1>1, <1>4, <1>5, <1>6, <1>7, <1>8, <1>9 DEF IpcInv

-----------------------------------------------------------------------------
(* JsonIpc: the web socket thread, and changes of the property *)

\* What is under way stays under way.
LEMMA SameMessages ==
  ASSUME IpcInv, opened, IpcTypeOK', Incoming' = Incoming, Outgoing' = Outgoing,
         UNCHANGED <<clientVars, wmap_, idset_, triggers_, connections, value>>
  PROVE  IpcInv'
<1>1. UNCHANGED <<live, garbage, inflight, watch, watched, cached, late>>
  BY DEF clientVars
<1>2. SentIds' = SentIds /\ Ids' = Ids
  BY DEF SentIds, Ids
<1>3. GcStage'
  BY <1>1 DEF IpcInv, GcStage, Renewing, Renewed, Reported
<1>4. GcIds'
  BY <1>1, <1>2 DEF IpcInv, GcIds
<1>5. TriggerInv'
  BY <1>1 DEF IpcInv, TriggerInv
<1>6. CacheInv'
  BY <1>1 DEF IpcInv, CacheInv, Fresh
<1> QED
  BY <1>2, <1>3, <1>4, <1>5, <1>6 DEF IpcInv

LEMMA MessageKeeps ==
  ASSUME IpcInv, message
  PROVE  IpcInv'
<1>1. /\ opened /\ ws = <<>> /\ toServer # <<>>
      /\ ws' = <<Head(toServer)>> /\ toServer' = Tail(toServer)
      /\ UNCHANGED <<clientVars, toClient, opened, wmap_, idset_, triggers_, connections, value>>
  BY DEF message, ipcServerVars
<1>2. toServer \in Seq(Requests)
  BY DEF IpcInv, IpcTypeOK
<1>3. /\ Tail(toServer) \in Seq(Requests) /\ Head(toServer) \in Requests
      /\ toServer = <<Head(toServer)>> \o Tail(toServer)
  BY <1>1, <1>2, HeadThenTail
<1>4. Len(ws') = 1 /\ ws'[1] = Head(toServer) /\ ws' \in Seq(Requests \cup Replies)
  BY <1>1, <1>3
<1>5. Incoming' = Incoming
  <2>1. Len(ws) # 1
    BY <1>1
  <2>2. Incoming = toServer
    BY <2>1 DEF Incoming
  <2>3. Incoming' = <<ws'[1]>> \o toServer'
    BY <1>4 DEF Incoming
  <2> QED
    BY <1>1, <1>3, <1>4, <2>2, <2>3
<1>6. Outgoing' = Outgoing
  <2>1. Len(ws) # 2 /\ Len(ws') # 2
    BY <1>1, <1>4
  <2> QED
    BY <1>1, <2>1 DEF Outgoing
<1>7. IpcTypeOK'
  <2>1. UNCHANGED <<live, garbage, inflight, watch, watched, cached>>
    BY <1>1 DEF clientVars
  <2> QED
    BY <1>1, <1>3, <1>4, <2>1 DEF IpcInv, IpcTypeOK
<1> QED
  BY <1>1, <1>5, <1>6, <1>7, SameMessages

LEMMA SendTextKeeps ==
  ASSUME IpcInv, send_text
  PROVE  IpcInv'
<1>1. /\ Len(ws) = 2 /\ toClient' = Append(toClient, ws[2]) /\ ws' = <<>>
      /\ UNCHANGED <<clientVars, toServer, opened, wmap_, idset_, triggers_, connections, value>>
  BY DEF send_text, ipcServerVars
<1>2. toClient \in Seq(Replies) /\ ws[2] \in Replies /\ opened
  <2>1. ws # <<>>
    BY <1>1
  <2> QED
    BY <1>1, <2>1 DEF IpcInv, IpcTypeOK
<1>3. toClient' = toClient \o <<ws[2]>> /\ toClient' \in Seq(Replies)
  BY <1>1, <1>2, AppendIsConcat, AppendProperties
<1>4. Len(ws') = 0 /\ ws' \in Seq(Requests \cup Replies)
  BY <1>1
<1>5. Incoming' = Incoming /\ Outgoing' = Outgoing
  BY <1>1, <1>3, <1>4 DEF Incoming, Outgoing
<1>6. IpcTypeOK'
  <2>1. UNCHANGED <<live, garbage, inflight, watch, watched, cached>>
    BY <1>1 DEF clientVars
  <2> QED
    BY <1>1, <1>3, <1>4, <2>1 DEF IpcInv, IpcTypeOK
<1> QED
  BY <1>1, <1>2, <1>5, <1>6, SameMessages

LEMMA ClosedKeeps ==
  ASSUME IpcInv, ws_closed
  PROVE  IpcInv'
<1>1. /\ opened' = FALSE /\ toServer' = <<>> /\ toClient' = <<>> /\ ws' = <<>>
      /\ triggers_' = {} /\ connections' = {} /\ wmap_' = <<>> /\ idset_' = <<>>
      /\ UNCHANGED <<live, garbage, inflight, watch, watched, cached, value>>
  BY DEF ws_closed, clientVars
<1>2. /\ Len(<<>>) = 0 /\ <<>> \in Seq(Requests) /\ <<>> \in Seq(Replies) /\ <<>> \in Seq(Requests \cup Replies)
      /\ <<>> \in Seq(SUBSET Nat) /\ <<>> \in Seq(Objects \cup {0})
  OBVIOUS
<1> DEFINE none == <<>>
<1>3. /\ opened' = FALSE /\ toServer' = none /\ toClient' = none /\ ws' = none
      /\ triggers_' = {} /\ connections' = {} /\ wmap_' = none /\ idset_' = none
      /\ Len(none) = 0 /\ none \in Seq(Requests) /\ none \in Seq(Replies) /\ none \in Seq(Requests \cup Replies)
      /\ none \in Seq(SUBSET Nat) /\ none \in Seq(Objects \cup {0})
  BY <1>1, <1>2
<1>4. IpcTypeOK'
  <2>1. ws' = <<>> /\ UNCHANGED <<live, garbage, inflight, watch, watched, cached, value>>
    BY <1>1
  <2>2. /\ live \subseteq Nat /\ garbage \subseteq Nat /\ inflight \in BOOLEAN
        /\ watch \in [Triggers -> {"none", "on", "orphan", "off"}]
        /\ watched \in [Triggers -> Nat] /\ cached \in [Triggers -> Int] /\ value \in Nat
    BY DEF IpcInv, IpcTypeOK
  <2> HIDE DEF none
  <2>3. /\ toServer' \in Seq(Requests) /\ toClient' \in Seq(Replies)
        /\ ws' \in Seq(Requests \cup Replies) /\ Len(ws') = 0
    BY <1>3
  <2>4. wmap_' \in Seq(Objects \cup {0}) /\ idset_' \in Seq(SUBSET Nat) /\ Len(idset_') = 0
    BY <1>3
  <2>5. opened' \in BOOLEAN /\ connections' \subseteq triggers_' /\ triggers_' \subseteq Triggers
    BY <1>3
  <2> QED
    BY <2>1, <2>2, <2>3, <2>4, <2>5 DEF IpcTypeOK
<1> QED
  BY <1>1, <1>4 DEF IpcInv

LEMMA NotifyKeeps ==
  ASSUME IpcInv, emit_notify
  PROVE  IpcInv'
<1> DEFINE N == {Msg("notify", t) : t \in connections}
           n == SetToSeq(N)
<1>1. /\ value' = value + 1 /\ toClient' = IF opened THEN toClient \o n ELSE toClient
      /\ UNCHANGED <<toServer, opened, ws, wmap_, idset_, triggers_, connections>>
      /\ UNCHANGED <<live, garbage, inflight, watch, watched, cached, late>>
  BY DEF emit_notify, clientVars
<1>2. connections \subseteq Triggers /\ IpcTypeOK /\ toClient \in Seq(Replies)
  BY DEF IpcInv, IpcTypeOK
<1>3. n \in Seq(N) /\ ToSet(n) = N
  <2>1. connections \in SUBSET Triggers
    BY <1>2
  <2> QED
    BY <2>1, MessagesListed
<1>4. N \subseteq Replies /\ \A m \in N : m.method = "notify"
  BY <1>2 DEF Replies, Msg
<1>a. \A t \in connections : Msg("notify", t) \in N
  OBVIOUS
<1> HIDE DEF N, n
<1>5. n \in Seq(Replies)
  BY <1>3, <1>4
<1>6. toClient \o n \in Seq(Replies) /\ ToSet(toClient \o n) = ToSet(toClient) \cup ToSet(n)
  BY <1>2, <1>5, ElementsOfConcat
<1>7. IpcTypeOK'
  BY <1>1, <1>6 DEF IpcInv, IpcTypeOK
<1>8. CASE opened
  <2>1. ReplyOrder(Outgoing, SentIds)
    BY <1>8 DEF IpcInv
  <2>2. \A a \in Replies, b \in N : ReplyPair(a, b, SentIds) /\ ReplyPair(b, a, SentIds)
    BY <1>4 DEF ReplyPair
  <2>3. ReplyOrder(n, SentIds)
    <3>1. \A i \in DOMAIN n : n[i] \in N /\ n[i] \in Replies
      BY <1>3, <1>4
    <3> QED
      BY <2>2, <3>1 DEF ReplyOrder
  <2>4. ToSet(toClient) \subseteq Replies
    BY <1>2, ElementsOfSeq
  <2> DEFINE sent == toClient \o n
  <2>5. ReplyOrder(toClient, SentIds) => ReplyOrder(sent, SentIds)
    <3>1. \A a \in ToSet(toClient), b \in ToSet(n) : ReplyPair(a, b, SentIds)
      BY <1>3, <2>2, <2>4
    <3> QED
      BY <1>2, <1>5, <2>3, <3>1, RepliesConcat
  <2>6. sent \in Seq(Replies) /\ ToSet(sent) = ToSet(toClient) \cup N /\ toClient' = sent
    BY <1>1, <1>3, <1>6, <1>8
  <2> HIDE DEF sent
  <2>7. ReplyOrder(Outgoing', SentIds) /\ ToSet(Outgoing') = ToSet(Outgoing) \cup N
    <3>1. CASE Len(ws) = 2
      <4> DEFINE q == ws[2]
      <4>1. q \in Replies
        BY <3>1 DEF IpcInv, IpcTypeOK
      <4>2. Outgoing = toClient \o <<q>> /\ Outgoing' = sent \o <<q>>
        BY <1>1, <2>6, <3>1 DEF Outgoing
      <4> HIDE DEF q
      <4>3. <<q>> \in Seq(Replies) /\ ReplyOrder(<<q>>, SentIds) /\ ToSet(<<q>>) = {q}
        BY <4>1, OneMessage, ElementsOfOne
      <4>4. /\ ReplyOrder(toClient, SentIds)
            /\ \A a \in ToSet(toClient), b \in ToSet(<<q>>) : ReplyPair(a, b, SentIds)
        BY <1>2, <2>1, <4>2, <4>3, RepliesConcat
      <4>5. \A a \in ToSet(sent), b \in ToSet(<<q>>) : ReplyPair(a, b, SentIds)
        BY <2>2, <2>6, <4>1, <4>3, <4>4
      <4>6. ReplyOrder(sent \o <<q>>, SentIds)
        BY <2>5, <2>6, <4>3, <4>4, <4>5, RepliesConcat
      <4>7. ToSet(toClient \o <<q>>) = ToSet(toClient) \cup ToSet(<<q>>)
        <5>1. toClient \in Seq(Replies) /\ <<q>> \in Seq(Replies)
          BY <1>2, <4>3
        <5> QED
          BY <5>1, ElementsOfConcat
      <4>8. ToSet(sent \o <<q>>) = ToSet(sent) \cup ToSet(<<q>>)
        BY <2>6, <4>3, ElementsOfConcat
      <4> QED
        BY <2>6, <4>2, <4>6, <4>7, <4>8
    <3>2. CASE Len(ws) # 2
      <4>1. Outgoing = toClient /\ Outgoing' = sent
        BY <1>1, <2>6, <3>2 DEF Outgoing
      <4> QED
        BY <2>1, <2>5, <2>6, <4>1
    <3> QED
      BY <3>1, <3>2
  <2>8. Incoming' = Incoming /\ SentIds' = SentIds /\ Ids' = Ids
    BY <1>1 DEF Incoming, SentIds, Ids
  <2>9. \A m \in ToSet(Outgoing') : m \in ToSet(Outgoing) \/ m.method = "notify"
    BY <1>4, <2>7
  <2>10. ToSet(Outgoing) \subseteq ToSet(Outgoing')
    BY <2>7
  <2>11. GcStage'
    <3>1. Renewed' <=> Renewed
      BY <2>9, <2>10 DEF Renewed, Msg
    <3> QED
      BY <1>1, <1>8, <2>8, <2>9, <3>1 DEF IpcInv, GcStage, Renewing, Reported
  <2>12. GcIds'
    <3>1. \A id : Msg("object", id) \in ToSet(Outgoing') => Msg("object", id) \in ToSet(Outgoing)
      BY <2>9 DEF Msg
    <3> QED
      BY <1>1, <1>8, <2>8, <2>9, <3>1 DEF IpcInv, GcIds
  <2>13. TriggerInv'
    BY <1>1, <1>8, <2>8 DEF IpcInv, TriggerInv
  <2>14. CacheInv'
    <3>1. CacheInv /\ ConnectsFirst(Incoming)
      BY <1>8 DEF IpcInv
    <3>2. cached \in [Triggers -> Int] /\ value \in Nat
      BY <1>2 DEF IpcTypeOK
    <3>3. ASSUME NEW t \in Triggers, t \in connections \/ \E m \in ToSet(Incoming) : Connects(m, t)
          PROVE  Fresh(t)'
      <4>1. CASE t \in connections
        BY <1>a, <2>7, <4>1 DEF Fresh
      <4>2. CASE \E m \in ToSet(Incoming) : Connects(m, t)
        <5>1. PICK i \in DOMAIN Incoming : Connects(Incoming[i], t)
          BY <4>2 DEF ToSet
        <5>2. Incoming[i].method = "js_trigger" /\ Incoming[i].arg[2] = t
          BY <5>1 DEF Connects
        <5>3. \E j \in DOMAIN Incoming : Fetches(Incoming[j], t)
          BY <3>1, <5>2 DEF ConnectsFirst
        <5>4. \E m \in ToSet(Incoming) : Fetches(m, t)
          BY <5>3 DEF ToSet
        <5> QED
          BY <2>8, <5>4 DEF Fresh
      <4> QED
        BY <3>3, <4>1, <4>2
    <3>4. ASSUME NEW m \in ToSet(Outgoing'), m.method = "value" PROVE cached[m.arg[1]] <= m.arg[2] /\ m.arg[2] <= value + 1
      <4>1. m \in ToSet(Outgoing) /\ m \in Replies
        BY <1>2, <2>9, <3>4, UnderWay
      <4>2. m.arg[2] \in Nat /\ cached[m.arg[1]] <= m.arg[2] /\ m.arg[2] <= value
        BY <3>1, <3>4, <4>1, ReplyArgs DEF CacheInv
      <4> QED
        BY <3>2, <4>2
    <3>5. \A t \in Triggers : cached[t] <= value + 1
      BY <3>1, <3>2 DEF CacheInv
    <3> QED
      BY <1>1, <2>8, <3>1, <3>3, <3>4, <3>5 DEF CacheInv
  <2> QED
    BY <1>1, <1>7, <1>8, <2>7, <2>8, <2>11, <2>12, <2>13, <2>14 DEF IpcInv
<1> QED
  BY <1>1, <1>7, <1>8 DEF IpcInv

-----------------------------------------------------------------------------
(* JsonIpc: the main thread *)

\* The main thread handles ws[1], sends k and answers q, whatever else it does.
LEMMA DispatchStep ==
  ASSUME IpcInv, dispatch_message, NEW q \in Replies, NEW k \in Seq(Replies), NEW ids, ReplyOrder(Outgoing, ids),
         ws' = Append(ws, q), toClient' = toClient \o k, ReplyOrder(k, ids),
         \A a \in ToSet(Outgoing), b \in ToSet(k) : ReplyPair(a, b, ids),
         \A a \in ToSet(Outgoing) \cup ToSet(k) : ReplyPair(a, q, ids)
  PROVE  /\ opened /\ opened' /\ ws[1] \in Requests
         /\ ws' \in Seq(Requests \cup Replies) /\ Len(ws') = 2 /\ ws'[1] \in Requests /\ ws'[2] = q
         /\ toServer' \in Seq(Requests) /\ toClient' \in Seq(Replies)
         /\ RequestOrder(Incoming') /\ ConnectsFirst(Incoming') /\ ReplyOrder(Outgoing', ids)
         /\ ToSet(Incoming) = {ws[1]} \cup ToSet(Incoming')
         /\ \A b \in ToSet(Incoming') : RequestPair(ws[1], b)
         /\ ws[1].method = "js_trigger" => \E f \in ToSet(Incoming') : Fetches(f, ws[1].arg[2])
         /\ ToSet(Outgoing') = ToSet(Outgoing) \cup ToSet(k) \cup {q}
         /\ UNCHANGED <<live, garbage, inflight, watch, watched, cached, late>>
<1>1. Len(ws) = 1 /\ toServer' = toServer /\ opened' = opened /\ UNCHANGED clientVars
  BY DEF dispatch_message
<1>2. ws # <<>>
  BY <1>1, NotEmpty
<1>3. opened /\ IpcTypeOK /\ RequestOrder(Incoming) /\ ConnectsFirst(Incoming)
  BY <1>2 DEF IpcInv, IpcTypeOK
<1>4. /\ ws' \in Seq(Requests \cup Replies) /\ Len(ws') = 2 /\ ws'[1] \in Requests /\ ws'[2] = q
      /\ toClient' \in Seq(Replies)
      /\ RequestOrder(Incoming') /\ ConnectsFirst(Incoming') /\ ReplyOrder(Outgoing', ids)
      /\ ToSet(Incoming) = {ws[1]} \cup ToSet(Incoming')
      /\ \A b \in ToSet(Incoming') : RequestPair(ws[1], b)
      /\ ws[1].method = "js_trigger" => \E f \in ToSet(Incoming') : Fetches(f, ws[1].arg[2])
      /\ ToSet(Outgoing') = ToSet(Outgoing) \cup ToSet(k) \cup {q}
  BY <1>1, <1>3, HandleStep
<1>5. toServer' \in Seq(Requests) /\ ws[1] \in Requests
  BY <1>1, <1>3 DEF IpcTypeOK
<1>6. UNCHANGED <<live, garbage, inflight, watch, watched, cached, late>>
  BY <1>1 DEF clientVars
<1> QED
  BY <1>1, <1>3, <1>4, <1>5, <1>6

\* It sends nothing but the answer.
LEMMA AnswerStep ==
  ASSUME IpcInv, dispatch_message, NEW q \in Replies, NEW ids, ReplyOrder(Outgoing, ids),
         ws' = Append(ws, q), toClient' = toClient, \A a \in ToSet(Outgoing) : ReplyPair(a, q, ids)
  PROVE  /\ opened /\ opened' /\ ws[1] \in Requests
         /\ ws' \in Seq(Requests \cup Replies) /\ Len(ws') = 2 /\ ws'[1] \in Requests /\ ws'[2] = q
         /\ toServer' \in Seq(Requests) /\ toClient' \in Seq(Replies)
         /\ RequestOrder(Incoming') /\ ConnectsFirst(Incoming') /\ ReplyOrder(Outgoing', ids)
         /\ ToSet(Incoming) = {ws[1]} \cup ToSet(Incoming')
         /\ \A b \in ToSet(Incoming') : RequestPair(ws[1], b)
         /\ ws[1].method = "js_trigger" => \E f \in ToSet(Incoming') : Fetches(f, ws[1].arg[2])
         /\ ToSet(Outgoing') = ToSet(Outgoing) \cup {q}
         /\ UNCHANGED <<live, garbage, inflight, watch, watched, cached, late>>
<1> DEFINE k == <<>>
<1>1. k \in Seq(Replies) /\ ReplyOrder(k, ids) /\ ToSet(k) = {}
  BY ElementsOfEmpty DEF ReplyOrder
<1>2. toClient' = toClient \o k
  BY DEF IpcInv, IpcTypeOK
<1> HIDE DEF k
<1>3. /\ \A a \in ToSet(Outgoing), b \in ToSet(k) : ReplyPair(a, b, ids)
      /\ \A a \in ToSet(Outgoing) \cup ToSet(k) : ReplyPair(a, q, ids)
  BY <1>1
<1>4. /\ opened /\ opened' /\ ws[1] \in Requests
      /\ ws' \in Seq(Requests \cup Replies) /\ Len(ws') = 2 /\ ws'[1] \in Requests /\ ws'[2] = q
      /\ toServer' \in Seq(Requests) /\ toClient' \in Seq(Replies)
      /\ RequestOrder(Incoming') /\ ConnectsFirst(Incoming') /\ ReplyOrder(Outgoing', ids)
      /\ ToSet(Incoming) = {ws[1]} \cup ToSet(Incoming')
      /\ \A b \in ToSet(Incoming') : RequestPair(ws[1], b)
      /\ ws[1].method = "js_trigger" => \E f \in ToSet(Incoming') : Fetches(f, ws[1].arg[2])
      /\ ToSet(Outgoing') = ToSet(Outgoing) \cup ToSet(k) \cup {q}
      /\ UNCHANGED <<live, garbage, inflight, watch, watched, cached, late>>
  BY <1>1, <1>2, <1>3, DispatchStep
<1> QED
  BY <1>1, <1>4

LEMMA CallHandled ==
  ASSUME IpcInv, dispatch_message, ws[1].method = "call", WrapObject
  PROVE  IpcInv'
<1>1. PICK o \in Objects :
        LET known == {i \in Ids : wmap_[i] = o}
            thisid == IF known = {} THEN Len(wmap_) + 1 ELSE CHOOSE i \in known : TRUE
        IN  /\ wmap_' = IF known = {} THEN Append(wmap_, o) ELSE wmap_
            /\ idset_' = IF idset_ = <<>> THEN <<>> ELSE <<idset_[1] \cup {thisid}>>
            /\ Reply("object", thisid)
            /\ UNCHANGED <<toClient, triggers_, connections, value>>
  BY DEF WrapObject
<1> DEFINE known == {i \in Ids : wmap_[i] = o}
           thisid == IF known = {} THEN Len(wmap_) + 1 ELSE CHOOSE i \in known : TRUE
           q == Msg("object", thisid)
<1>2. /\ wmap_' = IF known = {} THEN Append(wmap_, o) ELSE wmap_
      /\ idset_' = IF idset_ = <<>> THEN <<>> ELSE <<idset_[1] \cup {thisid}>>
      /\ ws' = Append(ws, q) /\ toClient' = toClient
      /\ UNCHANGED <<triggers_, connections, value>>
  BY <1>1 DEF Reply
<1>3. /\ wmap_ \in Seq(Objects \cup {0}) /\ idset_ \in Seq(SUBSET Nat) /\ Len(idset_) <= 1 /\ o # 0
  BY BoundsAssumption DEF IpcInv, IpcTypeOK
<1>4. wmap_' \in Seq(Objects \cup {0}) /\ thisid \in Ids' /\ Ids \subseteq Ids' /\ thisid \in Nat
  <2>1. CASE known = {}
    <3>1. thisid = Len(wmap_) + 1 /\ wmap_' = Append(wmap_, o)
      BY <1>2, <2>1
    <3> HIDE DEF thisid
    <3>2. /\ wmap_' \in Seq(Objects \cup {0}) /\ Len(wmap_') = Len(wmap_) + 1 /\ wmap_'[Len(wmap_) + 1] = o
          /\ \A i \in 1..Len(wmap_) : wmap_'[i] = wmap_[i]
      BY <1>3, <3>1, AppendProperties
    <3>3. DOMAIN wmap_ = 1..Len(wmap_) /\ DOMAIN wmap_' = 1..Len(wmap_') /\ Len(wmap_) \in Nat
      BY <1>3, <3>2
    <3> QED
      BY <1>3, <3>1, <3>2, <3>3 DEF Ids
  <2>2. CASE known # {}
    <3>1. thisid \in known /\ wmap_' = wmap_
      BY <1>2, <2>2
    <3>2. thisid \in Ids /\ Ids' = Ids
      BY <3>1 DEF Ids
    <3> HIDE DEF thisid
    <3> QED
      BY <1>3, <3>1, <3>2 DEF Ids
  <2> QED
    BY <2>1, <2>2
<1> HIDE DEF known, thisid, q
<1>5. /\ idset_ = <<>> => idset_' = <<>> /\ SentIds = {} /\ SentIds' = {}
      /\ idset_ # <<>> => idset_' # <<>> /\ SentIds' = SentIds \cup {thisid}
      /\ idset_' \in Seq(SUBSET Nat) /\ Len(idset_') <= 1
  <2>1. CASE idset_ = <<>>
    <3>1. idset_' = <<>>
      BY <1>2, <2>1
    <3> QED
      BY <1>3, <2>1, <3>1, ElementsOfEmpty DEF SentIds
  <2>2. CASE idset_ # <<>>
    <3> DEFINE s == idset_[1]
    <3>1. Len(idset_) = 1 /\ s \in SUBSET Nat /\ idset_ = <<s>>
      BY <1>3, <2>2, OneOrNone
    <3>2. idset_' = <<s \cup {thisid}>>
      BY <1>2, <2>2
    <3> HIDE DEF s
    <3>3. ToSet(idset_) = {s} /\ ToSet(<<s \cup {thisid}>>) = {s \cup {thisid}} /\ Len(<<s \cup {thisid}>>) = 1
      BY <3>1, ElementsOfOne
    <3>4. SentIds = s /\ SentIds' = s \cup {thisid}
      BY <3>2, <3>3 DEF SentIds
    <3>5. idset_' \in Seq(SUBSET Nat) /\ Len(idset_') = 1 /\ idset_' # <<>>
      BY <1>4, <3>1, <3>2
    <3> QED
      BY <2>2, <3>4, <3>5
  <2> QED
    BY <2>1, <2>2
<1>6. Len(ws) = 1 /\ opened /\ GcStage /\ GcIds
  <2>1. Len(ws) = 1
    BY DEF dispatch_message
  <2>2. ws # <<>>
    BY <2>1
  <2> QED
    BY <2>1, <2>2 DEF IpcInv, IpcTypeOK
<1>7. ToSet(Outgoing) \subseteq Replies /\ ReplyOrder(Outgoing, SentIds) /\ Outgoing \in Seq(Replies)
  BY <1>6, UnderWay DEF IpcInv
<1>8. ReplyOrder(Outgoing, SentIds')
  BY <1>5, <1>7, ReplyIds
<1>9. q \in Replies
  BY <1>4 DEF q, Replies, Msg
<1>10. \A a \in ToSet(Outgoing) : ReplyPair(a, q, SentIds')
  <2>1. ASSUME NEW a \in ToSet(Outgoing), a.method = "renewed" PROVE thisid \in SentIds'
    <3>1. a = Msg("renewed", TRUE)
      BY <1>6, <1>7, <2>1, ReplyArgs DEF GcStage
    <3>2. Renewed
      BY <2>1, <3>1 DEF Renewed
    <3> QED
      BY <1>5, <1>6, <3>2 DEF GcStage
  <2> QED
    BY <2>1 DEF ReplyPair, q, Msg
<1>11. /\ opened' /\ ws[1] \in Requests
       /\ ws' \in Seq(Requests \cup Replies) /\ Len(ws') = 2 /\ ws'[1] \in Requests /\ ws'[2] = q
       /\ toServer' \in Seq(Requests) /\ toClient' \in Seq(Replies)
       /\ RequestOrder(Incoming') /\ ConnectsFirst(Incoming') /\ ReplyOrder(Outgoing', SentIds')
       /\ ToSet(Incoming) = {ws[1]} \cup ToSet(Incoming')
       /\ ToSet(Outgoing') = ToSet(Outgoing) \cup {q}
       /\ UNCHANGED <<live, garbage, inflight, watch, watched, cached, late>>
  BY <1>2, <1>8, <1>9, <1>10, AnswerStep
<1>12. \A m \in ToSet(Incoming) : m.method # "call" => m \in ToSet(Incoming')
  BY <1>11
<1>13. ToSet(Incoming') \subseteq ToSet(Incoming) /\ ToSet(Outgoing) \subseteq ToSet(Outgoing')
  BY <1>11
<1>14. IpcTypeOK'
  <2>1. ws' # <<>>
    BY <1>11, NotEmpty
  <2> QED
    BY <1>2, <1>4, <1>5, <1>9, <1>11, <2>1 DEF IpcInv, IpcTypeOK
<1>15. GcStage'
  <2>1. Renewing' <=> Renewing
    BY <1>12, <1>13 DEF Renewing, Msg
  <2>2. Reported' <=> Reported
    BY <1>12, <1>13 DEF Reported
  <2>3. (Renewed' <=> Renewed) /\ \A m \in ToSet(Outgoing') : m.method = "renewed" => m \in ToSet(Outgoing)
    BY <1>11 DEF Renewed, q, Msg
  <2> QED
    BY <1>5, <1>6, <1>11, <2>1, <2>2, <2>3 DEF GcStage
<1>16. GcIds'
  <2>1. \A m \in ToSet(Outgoing') : m.method = "object" => m.arg \in Ids'
    BY <1>4, <1>6, <1>11 DEF GcIds, q, Msg
  <2>2. ASSUME NEW m \in ToSet(Incoming'), m.method = "report", NEW id \in m.arg,
               id \in live \ late \/ Msg("object", id) \in ToSet(Outgoing')
        PROVE  id \in SentIds'
    <3>1. m \in ToSet(Incoming) /\ Reported
      BY <1>13, <2>2 DEF Reported
    <3>2. idset_ # <<>>
      BY <1>6, <3>1 DEF GcStage
    <3>3. CASE Msg("object", id) = q
      BY <1>5, <3>2, <3>3 DEF q, Msg
    <3>4. CASE Msg("object", id) # q
      BY <1>5, <1>6, <1>11, <2>2, <3>1, <3>2, <3>4 DEF GcIds
    <3> QED
      BY <3>3, <3>4
  <2> QED
    BY <1>4, <1>6, <1>11, <2>1, <2>2 DEF GcIds
<1>17. TriggerInv'
  <2>1. TriggerInv
    BY <1>6 DEF IpcInv
  <2>2. \A t \in Triggers : /\ Msg("create", t) \in ToSet(Incoming') <=> Msg("create", t) \in ToSet(Incoming)
                            /\ Msg("remove", t) \in ToSet(Incoming') <=> Msg("remove", t) \in ToSet(Incoming)
    BY <1>12, <1>13 DEF Msg
  <2> QED
    BY <1>2, <1>11, <1>13, <2>1, <2>2 DEF TriggerInv
<1>18. CacheInv'
  <2>1. CacheInv
    BY <1>6 DEF IpcInv
  <2>2. \A t \in Triggers : Fresh(t) => Fresh(t)'
    BY <1>2, <1>11, <1>12, <1>13 DEF Fresh, Fetches
  <2>3. \A t \in Triggers : (\E m \in ToSet(Incoming) : Connects(m, t)) => \E m \in ToSet(Incoming') : Connects(m, t)
    BY <1>12 DEF Connects
  <2>4. \A m \in ToSet(Outgoing') : m.method = "value" => m \in ToSet(Outgoing)
    BY <1>11 DEF q, Msg
  <2> QED
    BY <1>2, <1>11, <2>1, <2>2, <2>3, <2>4 DEF CacheInv
<1> QED
  BY <1>11, <1>14, <1>15, <1>16, <1>17, <1>18 DEF IpcInv

\* Before a message is handled.
LEMMA BeforeDispatch ==
  ASSUME IpcInv, dispatch_message
  PROVE  /\ Len(ws) = 1 /\ opened /\ ws[1] \in Requests /\ ws[1] \in ToSet(Incoming)
         /\ RequestOrder(Incoming) /\ ReplyOrder(Outgoing, SentIds)
         /\ GcStage /\ GcIds /\ TriggerInv /\ CacheInv
         /\ ToSet(Outgoing) \subseteq Replies /\ ToSet(Incoming) \subseteq Requests /\ Outgoing \in Seq(Replies)
         /\ \A a \in ToSet(Outgoing) : a.method = "renewed" => a = Msg("renewed", TRUE) /\ Renewed
<1>1. Len(ws) = 1
  BY DEF dispatch_message
<1>2. opened /\ IpcTypeOK
  BY <1>1, NotEmpty DEF IpcInv, IpcTypeOK
<1>3. ws[1] \in Requests /\ toServer \in Seq(Requests)
  BY <1>1, <1>2 DEF IpcTypeOK
<1>4. ws[1] \in ToSet(Incoming)
  <2>1. Incoming = <<ws[1]>> \o toServer
    BY <1>1 DEF Incoming
  <2>2. <<ws[1]>> \in Seq(Requests) /\ ToSet(<<ws[1]>>) = {ws[1]}
    BY <1>3, OneMessage, ElementsOfOne
  <2>3. ToSet(<<ws[1]>> \o toServer) = ToSet(<<ws[1]>>) \cup ToSet(toServer)
    <3>1. <<ws[1]>> \in Seq(Requests) /\ toServer \in Seq(Requests)
      BY <1>3, <2>2
    <3> QED
      BY <3>1, ElementsOfConcat
  <2> QED
    BY <2>1, <2>2, <2>3
<1>5. /\ RequestOrder(Incoming) /\ ReplyOrder(Outgoing, SentIds)
      /\ GcStage /\ GcIds /\ TriggerInv /\ CacheInv
  BY <1>2 DEF IpcInv
<1>6. ToSet(Outgoing) \subseteq Replies /\ ToSet(Incoming) \subseteq Requests /\ Outgoing \in Seq(Replies)
  BY <1>2, UnderWay
<1>7. \A a \in ToSet(Outgoing) : a.method = "renewed" => a = Msg("renewed", TRUE) /\ Renewed
  <2>1. ASSUME NEW a \in ToSet(Outgoing), a.method = "renewed" PROVE a = Msg("renewed", TRUE)
    BY <1>5, <1>6, <2>1, ReplyArgs DEF GcStage
  <2> QED
    BY <2>1 DEF Renewed
<1> QED
  BY <1>1, <1>2, <1>3, <1>4, <1>5, <1>6, <1>7

LEMMA RenewHandled ==
  ASSUME IpcInv, dispatch_message, ws[1].method = "renew", renew_gc
  PROVE  IpcInv'
<1> DEFINE q == Msg("renewed", TRUE)
<1>1. /\ Len(ws) = 1 /\ opened /\ ws[1] \in Requests /\ ws[1] \in ToSet(Incoming)
      /\ ReplyOrder(Outgoing, SentIds)
      /\ GcStage /\ GcIds /\ TriggerInv /\ CacheInv
      /\ ToSet(Outgoing) \subseteq Replies /\ Outgoing \in Seq(Replies) /\ ToSet(Incoming) \subseteq Requests
      /\ \A a \in ToSet(Outgoing) : a.method = "renewed" => a = Msg("renewed", TRUE) /\ Renewed
  BY BeforeDispatch
<1>2. ws[1] = Msg("renew", 0) /\ Renewing /\ inflight /\ ~Renewed
  <2>1. ws[1] = Msg("renew", 0)
    BY <1>1, RequestArgs
  <2>2. Renewing
    BY <1>1, <2>1 DEF Renewing
  <2> QED
    BY <1>1, <2>1, <2>2 DEF GcStage
<1>3. \A a \in ToSet(Outgoing) : a.method # "renewed"
  BY <1>1, <1>2
<1>4. ~Reported
  <2>1. ASSUME NEW m \in ToSet(Incoming), m.method = "report" PROVE FALSE
    <3>1. RequestOrder(Incoming) /\ Incoming = <<ws[1]>> \o toServer /\ toServer \in Seq(Requests)
          /\ <<ws[1]>> \in Seq(Requests) /\ ToSet(<<ws[1]>>) = {ws[1]}
      BY <1>1, OneMessage, ElementsOfOne DEF IpcInv, IpcTypeOK, Incoming
    <3>2. \A a \in ToSet(<<ws[1]>>), b \in ToSet(toServer) : RequestPair(a, b)
      BY <3>1, RequestsConcat
    <3>3. ToSet(Incoming) = ToSet(<<ws[1]>>) \cup ToSet(toServer)
      <4>1. <<ws[1]>> \in Seq(Requests) /\ toServer \in Seq(Requests)
        BY <3>1
      <4>2. ToSet(<<ws[1]>> \o toServer) = ToSet(<<ws[1]>>) \cup ToSet(toServer)
        BY <4>1, ElementsOfConcat
      <4> QED
        BY <3>1, <4>2
    <3>4. m # ws[1]
      BY <2>1
    <3> QED
      BY <2>1, <3>1, <3>2, <3>3, <3>4 DEF RequestPair
  <2> QED
    BY <2>1 DEF Reported
<1>5. idset_ = <<>>
  BY <1>1, <1>2, <1>4 DEF GcStage
<1>6. /\ ws' = Append(ws, q) /\ toClient' = toClient /\ idset_' = <<{}>>
      /\ UNCHANGED <<wmap_, triggers_, connections, value>>
  BY <1>5 DEF renew_gc, Reply
<1> HIDE DEF q
<1>7. SentIds = {} /\ SentIds' = {} /\ idset_' # <<>> /\ idset_' \in Seq(SUBSET Nat) /\ Len(idset_') = 1 /\ Ids' = Ids
  <2>1. ToSet(idset_) = {} /\ ToSet(<<{}>>) = {{}} /\ Len(<<{}>>) = 1
    BY <1>5, ElementsOfEmpty, ElementsOfOne
  <2>2. SentIds = {} /\ SentIds' = {}
    BY <1>6, <2>1 DEF SentIds
  <2>3. idset_' # <<>> /\ idset_' \in Seq(SUBSET Nat) /\ Len(idset_') = 1
    <3>1. {} \in SUBSET Nat /\ <<{}>> \in Seq(SUBSET Nat) /\ Len(<<{}>>) = 1
      OBVIOUS
    <3>2. Len(idset_') = 1
      BY <1>6, <3>1
    <3> QED
      BY <1>6, <3>1, <3>2, NotEmpty
  <2> QED
    BY <1>6, <2>2, <2>3 DEF Ids
<1>8. ReplyOrder(Outgoing, SentIds')
  BY <1>1, <1>7
<1>9. q \in Replies /\ q = Msg("renewed", TRUE) /\ q.method = "renewed"
  BY DEF q, Replies, Msg
<1>10. \A a \in ToSet(Outgoing) : ReplyPair(a, q, SentIds')
  BY <1>3, <1>9 DEF ReplyPair
<1>11. /\ opened' /\ ws[1] \in Requests
       /\ ws' \in Seq(Requests \cup Replies) /\ Len(ws') = 2 /\ ws'[1] \in Requests /\ ws'[2] = q
       /\ toServer' \in Seq(Requests) /\ toClient' \in Seq(Replies)
       /\ RequestOrder(Incoming') /\ ConnectsFirst(Incoming') /\ ReplyOrder(Outgoing', SentIds')
       /\ ToSet(Incoming) = {ws[1]} \cup ToSet(Incoming')
       /\ \A b \in ToSet(Incoming') : RequestPair(ws[1], b)
       /\ ToSet(Outgoing') = ToSet(Outgoing) \cup {q}
       /\ UNCHANGED <<live, garbage, inflight, watch, watched, cached, late>>
  BY <1>6, <1>8, <1>9, <1>10, AnswerStep
<1>12. \A m \in ToSet(Incoming) : m.method # "renew" => m \in ToSet(Incoming')
  BY <1>11
<1>13. /\ ToSet(Incoming') \subseteq ToSet(Incoming) /\ ToSet(Outgoing) \subseteq ToSet(Outgoing')
       /\ \A m \in ToSet(Outgoing') : m.method # "renewed" => m \in ToSet(Outgoing)
  BY <1>9, <1>11
<1>14. IpcTypeOK'
  <2>1. ws' # <<>>
    BY <1>11, NotEmpty
  <2>2. UNCHANGED <<wmap_, triggers_, connections, value>>
    BY <1>6
  <2>3. idset_' \in Seq(SUBSET Nat) /\ Len(idset_') <= 1
    BY <1>7
  <2>4. q \in Replies
    BY <1>9
  <2> QED
    BY <1>11, <2>1, <2>2, <2>3, <2>4 DEF IpcInv, IpcTypeOK
<1>15. GcStage'
  <2>1. ~ Renewing'
    BY <1>2, <1>11 DEF Renewing, RequestPair, Msg
  <2>2. ~ Reported'
    BY <1>4, <1>13 DEF Reported
  <2>3. Renewed' /\ \A m \in ToSet(Outgoing') : m.method = "renewed" => m.arg = TRUE
    BY <1>3, <1>9, <1>11 DEF Renewed, Msg
  <2> QED
    BY <1>2, <1>7, <1>11, <2>1, <2>2, <2>3 DEF GcStage
<1>16. GcIds'
  <2>1. \A m \in ToSet(Incoming') : m.method # "report"
    BY <1>4, <1>13 DEF Reported
  <2> QED
    BY <1>1, <1>7, <1>11, <1>13, <2>1 DEF GcIds
<1>17. TriggerInv'
  <2>1. \A t \in Triggers : /\ Msg("create", t) \in ToSet(Incoming') <=> Msg("create", t) \in ToSet(Incoming)
                            /\ Msg("remove", t) \in ToSet(Incoming') <=> Msg("remove", t) \in ToSet(Incoming)
    BY <1>12, <1>13 DEF Msg
  <2> QED
    BY <1>1, <1>6, <1>11, <1>13, <2>1 DEF TriggerInv
<1>18. CacheInv'
  <2>1. \A t \in Triggers : Fresh(t) => Fresh(t)'
    BY <1>6, <1>11, <1>12, <1>13 DEF Fresh, Fetches
  <2>2. \A t \in Triggers : (\E m \in ToSet(Incoming) : Connects(m, t)) => \E m \in ToSet(Incoming') : Connects(m, t)
    BY <1>12 DEF Connects
  <2> QED
    BY <1>1, <1>6, <1>11, <1>13, <2>1, <2>2 DEF CacheInv
<1> QED
  BY <1>11, <1>14, <1>15, <1>16, <1>17, <1>18 DEF IpcInv

LEMMA ReportHandled ==
  ASSUME IpcInv, dispatch_message, ws[1].method = "report", report_gc(ws[1].arg)
  PROVE  IpcInv'
<1> DEFINE q == Msg("purged", 0)
           unused == ws[1].arg
<1>1. /\ Len(ws) = 1 /\ opened /\ ws[1] \in Requests /\ ws[1] \in ToSet(Incoming)
      /\ ReplyOrder(Outgoing, SentIds)
      /\ GcStage /\ GcIds /\ TriggerInv /\ CacheInv
      /\ ToSet(Outgoing) \subseteq Replies /\ Outgoing \in Seq(Replies) /\ ToSet(Incoming) \subseteq Requests
      /\ \A a \in ToSet(Outgoing) : a.method = "renewed" => a = Msg("renewed", TRUE) /\ Renewed
  BY BeforeDispatch
<1>2. Reported /\ ~Renewed
  <2>1. Reported
    BY <1>1 DEF Reported
  <2> QED
    BY <1>1, <2>1 DEF GcStage
<1>3. \A a \in ToSet(Outgoing) : a.method # "renewed"
  BY <1>1, <1>2
<1>4. /\ ws' = Append(ws, q) /\ toClient' = toClient /\ idset_' = <<>>
      /\ wmap_' = [i \in DOMAIN wmap_ |-> IF i \in unused \ SentIds THEN 0 ELSE wmap_[i]]
      /\ UNCHANGED <<triggers_, connections, value>>
  BY DEF report_gc, purge_unused, Delete, SentIds, Reply
<1>5. wmap_' \in Seq(Objects \cup {0}) /\ Ids' = Ids \ (unused \ SentIds)
  <2>1. wmap_ \in Seq(Objects \cup {0})
    BY DEF IpcInv, IpcTypeOK
  <2>2. DOMAIN wmap_ = 1..Len(wmap_) /\ Len(wmap_) \in Nat /\ \A i \in DOMAIN wmap_ : wmap_[i] \in Objects \cup {0}
    BY <2>1
  <2> HIDE DEF unused
  <2>3. wmap_' \in [1..Len(wmap_) -> Objects \cup {0}]
    BY <1>4, <2>2
  <2>4. wmap_' \in Seq(Objects \cup {0})
    BY <2>2, <2>3, IsASeq
  <2>5. Ids' = Ids \ (unused \ SentIds)
    BY <1>4 DEF Ids
  <2> QED
    BY <2>4, <2>5
<1>6. \A id \in unused : id \in live \ late \/ Msg("object", id) \in ToSet(Outgoing) => id \in SentIds
  BY <1>1 DEF GcIds
<1> HIDE DEF q, unused
<1>7. SentIds' = {} /\ idset_' \in Seq(SUBSET Nat) /\ Len(idset_') = 0
  <2>1. <<>> \in Seq(SUBSET Nat) /\ Len(<<>>) = 0
    OBVIOUS
  <2> QED
    BY <1>4, <2>1, ElementsOfEmpty DEF SentIds
<1>8. ReplyOrder(Outgoing, SentIds')
  <2>1. \A i \in DOMAIN Outgoing : Outgoing[i].method # "renewed"
    BY <1>3 DEF ToSet
  <2> QED
    BY <1>1, <2>1 DEF ReplyOrder, ReplyPair
<1>9. q \in Replies /\ q.method = "purged"
  BY DEF q, Replies, Msg
<1>10. \A a \in ToSet(Outgoing) : ReplyPair(a, q, SentIds')
  BY <1>3, <1>9 DEF ReplyPair
<1>11. /\ opened' /\ ws[1] \in Requests
       /\ ws' \in Seq(Requests \cup Replies) /\ Len(ws') = 2 /\ ws'[1] \in Requests /\ ws'[2] = q
       /\ toServer' \in Seq(Requests) /\ toClient' \in Seq(Replies)
       /\ RequestOrder(Incoming') /\ ConnectsFirst(Incoming') /\ ReplyOrder(Outgoing', SentIds')
       /\ ToSet(Incoming) = {ws[1]} \cup ToSet(Incoming')
       /\ \A b \in ToSet(Incoming') : RequestPair(ws[1], b)
       /\ ToSet(Outgoing') = ToSet(Outgoing) \cup {q}
       /\ UNCHANGED <<live, garbage, inflight, watch, watched, cached, late>>
  BY <1>4, <1>8, <1>9, <1>10, AnswerStep
<1>12. \A m \in ToSet(Incoming) : m.method # "report" => m \in ToSet(Incoming')
  BY <1>11
<1>13. /\ ToSet(Incoming') \subseteq ToSet(Incoming) /\ ToSet(Outgoing) \subseteq ToSet(Outgoing')
       /\ \A m \in ToSet(Outgoing') : m.method # "purged" => m \in ToSet(Outgoing)
  BY <1>9, <1>11
<1>14. \A m \in ToSet(Incoming') : m.method # "report"
  BY <1>11 DEF RequestPair
<1>15. IpcTypeOK'
  <2>1. ws' # <<>>
    BY <1>11, NotEmpty
  <2> QED
    BY <1>4, <1>5, <1>7, <1>9, <1>11, <2>1 DEF IpcInv, IpcTypeOK
<1>16. GcStage'
  <2>1. Renewing' => Renewing
    BY <1>13 DEF Renewing
  <2>2. ~ Reported' /\ ~ Renewed'
    BY <1>2, <1>13, <1>14 DEF Reported, Renewed, Msg
  <2>3. \A m \in ToSet(Outgoing') : m.method # "renewed"
    BY <1>3, <1>13
  <2> QED
    BY <1>1, <1>4, <1>11, <2>1, <2>2, <2>3 DEF GcStage
<1>17. GcIds'
  <2>1. \A m \in ToSet(Outgoing') : m.method = "object" => m.arg \in Ids'
    <3>1. ASSUME NEW m \in ToSet(Outgoing'), m.method = "object" PROVE m.arg \in Ids'
      <4>1. m \in ToSet(Outgoing) /\ m = Msg("object", m.arg)
        BY <1>1, <1>13, <3>1, ReplyArgs
      <4>2. m.arg \in Ids
        BY <1>1, <3>1, <4>1 DEF GcIds
      <4>3. m.arg \notin unused \ SentIds
        BY <1>6, <4>1
      <4> QED
        BY <1>5, <4>2, <4>3
    <3> QED
      BY <3>1
  <2>2. live \ late \subseteq Ids'
    BY <1>1, <1>5, <1>6 DEF GcIds
  <2> QED
    BY <1>1, <1>11, <1>14, <2>1, <2>2 DEF GcIds
<1>18. TriggerInv'
  <2>1. \A t \in Triggers : /\ Msg("create", t) \in ToSet(Incoming') <=> Msg("create", t) \in ToSet(Incoming)
                            /\ Msg("remove", t) \in ToSet(Incoming') <=> Msg("remove", t) \in ToSet(Incoming)
    BY <1>12, <1>13 DEF Msg
  <2> QED
    BY <1>1, <1>4, <1>11, <1>13, <2>1 DEF TriggerInv
<1>19. CacheInv'
  <2>1. \A t \in Triggers : Fresh(t) => Fresh(t)'
    BY <1>4, <1>11, <1>12, <1>13 DEF Fresh, Fetches
  <2>2. \A t \in Triggers : (\E m \in ToSet(Incoming) : Connects(m, t)) => \E m \in ToSet(Incoming') : Connects(m, t)
    BY <1>12 DEF Connects
  <2> QED
    BY <1>1, <1>4, <1>11, <1>13, <2>1, <2>2 DEF CacheInv
<1> QED
  BY <1>11, <1>15, <1>16, <1>17, <1>18, <1>19 DEF IpcInv

LEMMA CreateHandled ==
  ASSUME IpcInv, dispatch_message, ws[1].method = "create", trigger_create(ws[1].arg)
  PROVE  IpcInv'
<1> DEFINE q == Msg("done", 0)
           t == ws[1].arg
<1>1. /\ Len(ws) = 1 /\ opened /\ ws[1] \in Requests /\ ws[1] \in ToSet(Incoming)
      /\ ReplyOrder(Outgoing, SentIds)
      /\ GcStage /\ GcIds /\ TriggerInv /\ CacheInv
      /\ ToSet(Outgoing) \subseteq Replies /\ Outgoing \in Seq(Replies) /\ ToSet(Incoming) \subseteq Requests
  BY BeforeDispatch
<1>2. t \in Triggers /\ ws[1] = Msg("create", t)
  BY <1>1, RequestArgs
<1>3. /\ ws' = Append(ws, q) /\ toClient' = toClient /\ triggers_' = triggers_ \cup {t}
      /\ UNCHANGED <<wmap_, idset_, connections, value>>
  BY DEF trigger_create, Reply
<1> HIDE DEF q, t
<1>4. SentIds' = SentIds /\ Ids' = Ids
  BY <1>3 DEF SentIds, Ids
<1>5. q \in Replies /\ q.method = "done"
  BY DEF q, Replies, Msg
<1>6. ReplyOrder(Outgoing, SentIds') /\ \A a \in ToSet(Outgoing) : ReplyPair(a, q, SentIds')
  BY <1>1, <1>4, <1>5 DEF ReplyPair
<1>7. /\ opened' /\ ws[1] \in Requests
      /\ ws' \in Seq(Requests \cup Replies) /\ Len(ws') = 2 /\ ws'[1] \in Requests /\ ws'[2] = q
      /\ toServer' \in Seq(Requests) /\ toClient' \in Seq(Replies)
      /\ RequestOrder(Incoming') /\ ConnectsFirst(Incoming') /\ ReplyOrder(Outgoing', SentIds')
      /\ ToSet(Incoming) = {ws[1]} \cup ToSet(Incoming')
      /\ \A b \in ToSet(Incoming') : RequestPair(ws[1], b)
      /\ ToSet(Outgoing') = ToSet(Outgoing) \cup {q}
      /\ UNCHANGED <<live, garbage, inflight, watch, watched, cached, late>>
  BY <1>3, <1>5, <1>6, AnswerStep
<1>8. \A m \in ToSet(Incoming) : m # Msg("create", t) => m \in ToSet(Incoming')
  BY <1>2, <1>7
<1>9. /\ ToSet(Incoming') \subseteq ToSet(Incoming) /\ ToSet(Outgoing) \subseteq ToSet(Outgoing')
      /\ \A m \in ToSet(Outgoing') : m.method # "done" => m \in ToSet(Outgoing)
  BY <1>5, <1>7
<1>10. IpcTypeOK'
  <2>1. ws' # <<>>
    BY <1>7, NotEmpty
  <2> QED
    BY <1>2, <1>3, <1>5, <1>7, <2>1 DEF IpcInv, IpcTypeOK
<1>11. GcStage'
  <2>1. (Renewing' <=> Renewing) /\ (Renewed' <=> Renewed)
    BY <1>8, <1>9 DEF Renewing, Renewed, Msg
  <2>2. Reported' <=> Reported
    BY <1>8, <1>9 DEF Reported, Msg
  <2> QED
    BY <1>1, <1>3, <1>7, <1>9, <2>1, <2>2 DEF GcStage
<1>12. GcIds'
  <2>1. \A id : Msg("object", id) \in ToSet(Outgoing') => Msg("object", id) \in ToSet(Outgoing)
    BY <1>9 DEF Msg
  <2> QED
    BY <1>1, <1>4, <1>7, <1>9, <2>1 DEF GcIds
<1>13. TriggerInv'
  <2>1. Msg("create", t) \notin ToSet(Incoming')
    BY <1>2, <1>7 DEF RequestPair, Msg
  <2>2. Msg("create", t) \in ToSet(Incoming)
    BY <1>1, <1>2
  <2>3. \A u \in Triggers : Msg("remove", u) \in ToSet(Incoming') <=> Msg("remove", u) \in ToSet(Incoming)
    BY <1>8, <1>9 DEF Msg
  <2>4. \A u \in Triggers : u # t => (Msg("create", u) \in ToSet(Incoming') <=> Msg("create", u) \in ToSet(Incoming))
    BY <1>8, <1>9 DEF Msg
  <2>5. watch[t] # "none"
    BY <1>1, <1>2, <2>2 DEF TriggerInv
  <2> QED
    BY <1>1, <1>3, <1>7, <1>9, <2>1, <2>2, <2>3, <2>4, <2>5 DEF TriggerInv
<1>14. CacheInv'
  <2>1. \A u \in Triggers : Fresh(u) => Fresh(u)'
    BY <1>3, <1>7, <1>8, <1>9 DEF Fresh, Fetches, Msg
  <2>2. \A u \in Triggers : (\E m \in ToSet(Incoming) : Connects(m, u)) => \E m \in ToSet(Incoming') : Connects(m, u)
    BY <1>8 DEF Connects, Msg
  <2> QED
    BY <1>1, <1>3, <1>7, <1>9, <2>1, <2>2 DEF CacheInv
<1> QED
  BY <1>7, <1>10, <1>11, <1>12, <1>13, <1>14 DEF IpcInv

LEMMA ConnectHandled ==
  ASSUME IpcInv, dispatch_message, ws[1].method = "js_trigger", js_trigger(ws[1].arg[1], ws[1].arg[2])
  PROVE  IpcInv'
<1> DEFINE id == ws[1].arg[1]
           t == ws[1].arg[2]
           q == Msg(IF id \in Ids THEN "done" ELSE "error", 0)
<1>1. /\ Len(ws) = 1 /\ opened /\ ws[1] \in Requests /\ ws[1] \in ToSet(Incoming)
      /\ ReplyOrder(Outgoing, SentIds)
      /\ GcStage /\ GcIds /\ TriggerInv /\ CacheInv
      /\ ToSet(Outgoing) \subseteq Replies /\ Outgoing \in Seq(Replies) /\ ToSet(Incoming) \subseteq Requests
  BY BeforeDispatch
<1>2. t \in Triggers /\ id = watched[t] /\ Connects(ws[1], t)
  BY <1>1, RequestArgs DEF TriggerInv, Connects
<1>3. /\ ws' = Append(ws, q) /\ toClient' = toClient
      /\ connections' = IF id \in Ids /\ t \in triggers_ THEN connections \cup {t} ELSE connections
      /\ UNCHANGED <<wmap_, idset_, triggers_, value>>
  BY DEF js_trigger, Reply
<1>4. q \in Replies /\ q.method \in {"done", "error"}
  BY DEF Replies, Msg
<1> HIDE DEF q, t, id
<1>5. SentIds' = SentIds /\ Ids' = Ids
  BY <1>3 DEF SentIds, Ids
<1>6. ReplyOrder(Outgoing, SentIds') /\ \A a \in ToSet(Outgoing) : ReplyPair(a, q, SentIds')
  BY <1>1, <1>4, <1>5 DEF ReplyPair
<1>7. /\ opened' /\ ws[1] \in Requests
      /\ ws' \in Seq(Requests \cup Replies) /\ Len(ws') = 2 /\ ws'[1] \in Requests /\ ws'[2] = q
      /\ toServer' \in Seq(Requests) /\ toClient' \in Seq(Replies)
      /\ RequestOrder(Incoming') /\ ConnectsFirst(Incoming') /\ ReplyOrder(Outgoing', SentIds')
      /\ ToSet(Incoming) = {ws[1]} \cup ToSet(Incoming')
      /\ \A b \in ToSet(Incoming') : RequestPair(ws[1], b)
      /\ ToSet(Outgoing') = ToSet(Outgoing) \cup {q}
      /\ UNCHANGED <<live, garbage, inflight, watch, watched, cached, late>>
  BY <1>3, <1>4, <1>6, AnswerStep
<1>8. \A m \in ToSet(Incoming) : m \in ToSet(Incoming') \/ m = ws[1]
  BY <1>7
<1>9. /\ ToSet(Incoming') \subseteq ToSet(Incoming) /\ ToSet(Outgoing) \subseteq ToSet(Outgoing')
      /\ \A m \in ToSet(Outgoing') : m.method \notin {"done", "error"} => m \in ToSet(Outgoing)
  BY <1>4, <1>7
<1>10. IpcTypeOK'
  <2>1. ws' # <<>>
    BY <1>7, NotEmpty
  <2>2. connections' \subseteq triggers_'
    BY <1>3 DEF IpcInv, IpcTypeOK
  <2> QED
    BY <1>3, <1>4, <1>7, <2>1, <2>2 DEF IpcInv, IpcTypeOK
<1>11. GcStage'
  <2>1. (Renewing' <=> Renewing) /\ (Renewed' <=> Renewed)
    BY <1>8, <1>9 DEF Renewing, Renewed, Msg
  <2>2. Reported' <=> Reported
    BY <1>8, <1>9 DEF Reported
  <2>3. \A m \in ToSet(Outgoing') : m.method = "renewed" => m.arg = TRUE
    BY <1>1, <1>9 DEF GcStage
  <2> QED
    BY <1>1, <1>3, <1>7, <2>1, <2>2, <2>3 DEF GcStage
<1>12. GcIds'
  <2>1. \A i : Msg("object", i) \in ToSet(Outgoing') => Msg("object", i) \in ToSet(Outgoing)
    BY <1>9 DEF Msg
  <2>2. \A m \in ToSet(Outgoing') : m.method = "object" => m \in ToSet(Outgoing)
    BY <1>9
  <2> QED
    BY <1>1, <1>5, <1>7, <1>9, <2>1, <2>2 DEF GcIds
<1>13. TriggerInv'
  <2>1. \A u \in Triggers : /\ Msg("create", u) \in ToSet(Incoming') <=> Msg("create", u) \in ToSet(Incoming)
                            /\ Msg("remove", u) \in ToSet(Incoming') <=> Msg("remove", u) \in ToSet(Incoming)
    BY <1>8, <1>9 DEF Msg
  <2> QED
    BY <1>1, <1>3, <1>7, <1>9, <2>1 DEF TriggerInv
<1>14. CacheInv'
  <2>1. \A u \in Triggers : Fresh(u) => Fresh(u)'
    BY <1>3, <1>7, <1>8, <1>9 DEF Fresh, Fetches
  <2>2. ASSUME NEW u \in Triggers, watch[u] = "on", watched[u] \notin late,
               u \in connections \/ \E m \in ToSet(Incoming) : Connects(m, u)
        PROVE  u \in connections' \/ \E m \in ToSet(Incoming') : Connects(m, u)
    <3>1. CASE u = t
      <4>1. id \in Ids
        BY <1>1, <1>2, <2>2, <3>1 DEF CacheInv, GcIds
      <4>2. Msg("create", t) \notin ToSet(Incoming')
        BY <1>2, <1>7 DEF RequestPair, Msg, Connects
      <4>3. Msg("create", t) # ws[1]
        BY <1>2 DEF Msg, Connects
      <4>4. t \in triggers_
        BY <1>1, <1>2, <1>8, <2>2, <3>1, <4>2, <4>3 DEF TriggerInv
      <4> QED
        BY <1>3, <3>1, <4>1, <4>4
    <3>2. CASE u # t
      <4>1. ~Connects(ws[1], u)
        BY <1>2, <3>2 DEF Connects
      <4>2. u \in connections => u \in connections'
        BY <1>3
      <4> QED
        BY <1>8, <2>2, <4>1, <4>2
    <3> QED
      BY <3>1, <3>2
  <2>3. \A m \in ToSet(Outgoing') : m.method = "value" => m \in ToSet(Outgoing)
    BY <1>9
  <2> QED
    BY <1>1, <1>3, <1>7, <2>1, <2>2, <2>3 DEF CacheInv
<1> QED
  BY <1>7, <1>10, <1>11, <1>12, <1>13, <1>14 DEF IpcInv

LEMMA GetHandled ==
  ASSUME IpcInv, dispatch_message, ws[1].method = "get", get_property(ws[1].arg[1], ws[1].arg[2])
  PROVE  IpcInv'
<1> DEFINE id == ws[1].arg[1]
           t == ws[1].arg[2]
           q == IF id \in Ids THEN Msg("value", <<t, value>>) ELSE Msg("error", 0)
<1>1. /\ Len(ws) = 1 /\ opened /\ ws[1] \in Requests /\ ws[1] \in ToSet(Incoming)
      /\ ReplyOrder(Outgoing, SentIds)
      /\ GcStage /\ GcIds /\ TriggerInv /\ CacheInv
      /\ ToSet(Outgoing) \subseteq Replies /\ Outgoing \in Seq(Replies) /\ ToSet(Incoming) \subseteq Requests
  BY BeforeDispatch
<1>2. t \in Triggers /\ id = watched[t] /\ Fetches(ws[1], t) /\ value \in Nat
  BY <1>1, RequestArgs DEF TriggerInv, Fetches, IpcInv, IpcTypeOK
<1>3. /\ ws' = Append(ws, q) /\ toClient' = toClient
      /\ UNCHANGED <<wmap_, idset_, triggers_, connections, value>>
  BY DEF get_property, Reply, ipcServerVars
<1>4. q \in Replies /\ (q = Msg("value", <<t, value>>) \/ q.method = "error") /\ (id \in Ids => q = Msg("value", <<t, value>>))
  <2>1. Msg("value", <<t, value>>) \in Replies /\ Msg("error", 0) \in Replies /\ Msg("error", 0).method = "error"
    BY <1>2 DEF Replies, Msg
  <2> QED
    BY <2>1
<1> HIDE DEF q, t, id
<1>a. q.method \in {"value", "error"} /\ (q.method = "value" => q.arg[1] = t /\ q.arg[2] = value)
  BY <1>4 DEF Msg
<1>5. SentIds' = SentIds /\ Ids' = Ids
  BY <1>3 DEF SentIds, Ids
<1>6. ReplyOrder(Outgoing, SentIds') /\ \A a \in ToSet(Outgoing) : ReplyPair(a, q, SentIds')
  <2>1. \A a \in ToSet(Outgoing) : a.method = "value" => a.arg[2] <= value
    BY <1>1 DEF CacheInv
  <2> QED
    BY <1>1, <1>5, <1>a, <2>1 DEF ReplyPair
<1>7. /\ opened' /\ ws[1] \in Requests
      /\ ws' \in Seq(Requests \cup Replies) /\ Len(ws') = 2 /\ ws'[1] \in Requests /\ ws'[2] = q
      /\ toServer' \in Seq(Requests) /\ toClient' \in Seq(Replies)
      /\ RequestOrder(Incoming') /\ ConnectsFirst(Incoming') /\ ReplyOrder(Outgoing', SentIds')
      /\ ToSet(Incoming) = {ws[1]} \cup ToSet(Incoming')
      /\ \A b \in ToSet(Incoming') : RequestPair(ws[1], b)
      /\ ToSet(Outgoing') = ToSet(Outgoing) \cup {q}
      /\ UNCHANGED <<live, garbage, inflight, watch, watched, cached, late>>
  BY <1>3, <1>4, <1>6, AnswerStep
<1>8. \A m \in ToSet(Incoming) : m \in ToSet(Incoming') \/ m = ws[1]
  BY <1>7
<1>9. /\ ToSet(Incoming') \subseteq ToSet(Incoming) /\ ToSet(Outgoing) \subseteq ToSet(Outgoing')
      /\ \A m \in ToSet(Outgoing') : m.method \notin {"value", "error"} => m \in ToSet(Outgoing)
  BY <1>7, <1>a
<1>10. IpcTypeOK'
  <2>1. ws' # <<>>
    BY <1>7, NotEmpty
  <2> QED
    BY <1>3, <1>4, <1>7, <2>1 DEF IpcInv, IpcTypeOK
<1>11. GcStage'
  <2>1. (Renewing' <=> Renewing) /\ (Renewed' <=> Renewed)
    BY <1>8, <1>9 DEF Renewing, Renewed, Msg
  <2>2. Reported' <=> Reported
    BY <1>8, <1>9 DEF Reported
  <2>3. \A m \in ToSet(Outgoing') : m.method = "renewed" => m.arg = TRUE
    BY <1>1, <1>9 DEF GcStage
  <2> QED
    BY <1>1, <1>3, <1>7, <2>1, <2>2, <2>3 DEF GcStage
<1>12. GcIds'
  <2>1. \A i : Msg("object", i) \in ToSet(Outgoing') => Msg("object", i) \in ToSet(Outgoing)
    BY <1>9 DEF Msg
  <2>2. \A m \in ToSet(Outgoing') : m.method = "object" => m \in ToSet(Outgoing)
    BY <1>9
  <2> QED
    BY <1>1, <1>5, <1>7, <1>9, <2>1, <2>2 DEF GcIds
<1>13. TriggerInv'
  <2>1. \A u \in Triggers : /\ Msg("create", u) \in ToSet(Incoming') <=> Msg("create", u) \in ToSet(Incoming)
                            /\ Msg("remove", u) \in ToSet(Incoming') <=> Msg("remove", u) \in ToSet(Incoming)
    BY <1>8, <1>9 DEF Msg
  <2> QED
    BY <1>1, <1>3, <1>7, <1>9, <2>1 DEF TriggerInv
<1>14. CacheInv'
  <2>1. ASSUME NEW u \in Triggers, watch[u] = "on", watched[u] \notin late, Fresh(u) PROVE Fresh(u)'
    <3>1. CASE u = t
      <4>1. id \in Ids
        BY <1>1, <1>2, <2>1, <3>1 DEF CacheInv, GcIds
      <4>2. Msg("value", <<t, value>>) \in ToSet(Outgoing')
        BY <1>4, <1>7, <4>1
      <4> QED
        BY <1>3, <3>1, <4>2 DEF Fresh
    <3>2. CASE u # t
      <4>1. ~Fetches(ws[1], u)
        BY <1>2, <3>2 DEF Fetches
      <4> QED
        BY <1>3, <1>7, <1>8, <1>9, <2>1, <4>1 DEF Fresh
    <3> QED
      BY <3>1, <3>2
  <2>2. \A u \in Triggers : (\E m \in ToSet(Incoming) : Connects(m, u)) => \E m \in ToSet(Incoming') : Connects(m, u)
    BY <1>8 DEF Connects
  <2>3. ASSUME NEW m \in ToSet(Outgoing'), m.method = "value" PROVE cached[m.arg[1]] <= m.arg[2] /\ m.arg[2] <= value
    <3>1. CASE m = q
      <4>1. m.arg[1] = t /\ m.arg[2] = value /\ cached[t] <= value
        BY <1>1, <1>2, <1>a, <2>3, <3>1 DEF CacheInv
      <4> QED
        BY <1>2, <4>1
    <3>2. CASE m # q
      BY <1>1, <1>7, <2>3, <3>2 DEF CacheInv
    <3> QED
      BY <3>1, <3>2
  <2> QED
    BY <1>1, <1>3, <1>7, <2>1, <2>2, <2>3 DEF CacheInv
<1> QED
  BY <1>7, <1>10, <1>11, <1>12, <1>13, <1>14 DEF IpcInv

LEMMA RemoveHandled ==
  ASSUME IpcInv, dispatch_message, ws[1].method = "remove", trigger_remove(ws[1].arg)
  PROVE  IpcInv'
<1> DEFINE t == ws[1].arg
           q == Msg("done", 0)
           kill == Msg("killed", t)
           k == IF t \in triggers_ THEN <<kill>> ELSE <<>>
<1>1. /\ Len(ws) = 1 /\ opened /\ ws[1] \in Requests /\ ws[1] \in ToSet(Incoming)
      /\ ReplyOrder(Outgoing, SentIds)
      /\ GcStage /\ GcIds /\ TriggerInv /\ CacheInv
      /\ ToSet(Outgoing) \subseteq Replies /\ Outgoing \in Seq(Replies) /\ ToSet(Incoming) \subseteq Requests
      /\ toClient \in Seq(Replies)
  BY BeforeDispatch DEF IpcInv, IpcTypeOK
<1>2. t \in Triggers /\ ws[1] = Msg("remove", t)
  BY <1>1, RequestArgs
<1>3. q \in Replies /\ q.method = "done" /\ kill \in Replies /\ kill.method = "killed"
  BY <1>2 DEF Replies, Msg
<1>4. /\ ws' = Append(ws, q) /\ triggers_' = triggers_ \ {t} /\ connections' = connections \ {t}
      /\ toClient' = (IF t \in triggers_ THEN Append(toClient, kill) ELSE toClient)
      /\ UNCHANGED <<wmap_, idset_, value>>
  BY DEF trigger_remove, Reply
<1> HIDE DEF q, t, kill
<1>5. SentIds' = SentIds /\ Ids' = Ids
  BY <1>4 DEF SentIds, Ids
<1>6. /\ k \in Seq(Replies) /\ toClient' = toClient \o k /\ ToSet(k) \subseteq {kill}
      /\ ReplyOrder(k, SentIds')
  <2>1. CASE t \in triggers_
    <3>1. Append(toClient, kill) = toClient \o <<kill>>
      BY <1>1, <1>3, AppendIsConcat
    <3>2. <<kill>> \in Seq(Replies) /\ ReplyOrder(<<kill>>, SentIds') /\ ToSet(<<kill>>) = {kill}
      BY <1>3, OneMessage, ElementsOfOne
    <3> QED
      BY <1>4, <2>1, <3>1, <3>2
  <2>2. CASE t \notin triggers_
    <3>1. toClient \o <<>> = toClient /\ <<>> \in Seq(Replies) /\ ReplyOrder(<<>>, SentIds') /\ ToSet(<<>>) = {}
      BY <1>1, ConcatEmptySeq, ElementsOfEmpty DEF ReplyOrder
    <3> QED
      BY <1>4, <2>2, <3>1
  <2> QED
    BY <2>1, <2>2
<1> HIDE DEF k
<1>7. /\ ReplyOrder(Outgoing, SentIds')
      /\ \A a \in ToSet(Outgoing), b \in ToSet(k) : ReplyPair(a, b, SentIds')
      /\ \A a \in ToSet(Outgoing) \cup ToSet(k) : ReplyPair(a, q, SentIds')
  <2>1. \A a, ids : ReplyPair(a, kill, ids) /\ ReplyPair(a, q, ids)
    BY <1>3 DEF ReplyPair
  <2> QED
    BY <1>1, <1>5, <1>6, <2>1
<1>8. /\ opened' /\ ws[1] \in Requests
      /\ ws' \in Seq(Requests \cup Replies) /\ Len(ws') = 2 /\ ws'[1] \in Requests /\ ws'[2] = q
      /\ toServer' \in Seq(Requests) /\ toClient' \in Seq(Replies)
      /\ RequestOrder(Incoming') /\ ConnectsFirst(Incoming') /\ ReplyOrder(Outgoing', SentIds')
      /\ ToSet(Incoming) = {ws[1]} \cup ToSet(Incoming')
      /\ \A b \in ToSet(Incoming') : RequestPair(ws[1], b)
      /\ ToSet(Outgoing') = ToSet(Outgoing) \cup ToSet(k) \cup {q}
      /\ UNCHANGED <<live, garbage, inflight, watch, watched, cached, late>>
  BY <1>3, <1>4, <1>6, <1>7, DispatchStep
<1>9. \A m \in ToSet(Incoming) : m # Msg("remove", t) => m \in ToSet(Incoming')
  BY <1>2, <1>8
<1>10. /\ ToSet(Incoming') \subseteq ToSet(Incoming) /\ ToSet(Outgoing) \subseteq ToSet(Outgoing')
       /\ \A m \in ToSet(Outgoing') : m.method \notin {"done", "killed"} => m \in ToSet(Outgoing)
  BY <1>3, <1>6, <1>8
<1>11. IpcTypeOK'
  <2>1. ws' # <<>>
    BY <1>8, NotEmpty
  <2>2. connections' \subseteq triggers_' /\ triggers_' \subseteq Triggers
    BY <1>4 DEF IpcInv, IpcTypeOK
  <2>3. UNCHANGED <<wmap_, idset_, value>>
    BY <1>4
  <2> QED
    BY <1>3, <1>8, <2>1, <2>2, <2>3 DEF IpcInv, IpcTypeOK
<1>12. GcStage'
  <2>1. (Renewing' <=> Renewing) /\ (Renewed' <=> Renewed)
    BY <1>9, <1>10 DEF Renewing, Renewed, Msg
  <2>2. Reported' <=> Reported
    BY <1>9, <1>10 DEF Reported, Msg
  <2>3. \A m \in ToSet(Outgoing') : m.method = "renewed" => m.arg = TRUE
    BY <1>1, <1>10 DEF GcStage
  <2> QED
    BY <1>1, <1>4, <1>8, <2>1, <2>2, <2>3 DEF GcStage
<1>13. GcIds'
  <2>1. \A i : Msg("object", i) \in ToSet(Outgoing') => Msg("object", i) \in ToSet(Outgoing)
    BY <1>10 DEF Msg
  <2>2. \A m \in ToSet(Outgoing') : m.method = "object" => m \in ToSet(Outgoing)
    BY <1>10
  <2> QED
    BY <1>1, <1>5, <1>8, <1>10, <2>1, <2>2 DEF GcIds
<1>14. watch[t] = "off" /\ Msg("create", t) \notin ToSet(Incoming')
  <2>1. Msg("remove", t) \in ToSet(Incoming)
    BY <1>1, <1>2
  <2>2. watch[t] \notin {"on", "orphan", "none"}
    BY <1>1, <1>2, <2>1 DEF TriggerInv
  <2>3. watch[t] \in {"none", "on", "orphan", "off"}
    BY <1>2 DEF IpcInv, IpcTypeOK
  <2>4. Msg("create", t) \notin ToSet(Incoming')
    BY <1>2, <1>8 DEF RequestPair, Msg
  <2> QED
    BY <2>2, <2>3, <2>4
<1>15. TriggerInv'
  <2>1. \A u \in Triggers : Msg("create", u) \in ToSet(Incoming') <=> Msg("create", u) \in ToSet(Incoming)
    BY <1>9, <1>10 DEF Msg
  <2>2. \A u \in Triggers : u # t =>
          /\ Msg("remove", u) \in ToSet(Incoming') <=> Msg("remove", u) \in ToSet(Incoming)
          /\ u \in triggers_' <=> u \in triggers_
    BY <1>4, <1>9, <1>10 DEF Msg
  <2>3. t \notin triggers_'
    BY <1>4
  <2>4. TriggerInv
    BY <1>1
  <2> QED
    BY <1>8, <1>10, <1>14, <2>1, <2>2, <2>3, <2>4 DEF TriggerInv
<1>16. CacheInv'
  <2>1. \A u \in Triggers : Fresh(u) => Fresh(u)'
    BY <1>4, <1>8, <1>9, <1>10 DEF Fresh, Fetches, Msg
  <2>2. \A u \in Triggers : (\E m \in ToSet(Incoming) : Connects(m, u)) => \E m \in ToSet(Incoming') : Connects(m, u)
    BY <1>9 DEF Connects, Msg
  <2>3. \A u \in Triggers : watch[u] = "on" => (u \in connections' <=> u \in connections)
    BY <1>4, <1>14
  <2>4. \A m \in ToSet(Outgoing') : m.method = "value" => m \in ToSet(Outgoing)
    BY <1>10
  <2>5. CacheInv /\ value' = value
    BY <1>1, <1>4
  <2> QED
    BY <1>8, <2>1, <2>2, <2>3, <2>4, <2>5 DEF CacheInv
<1> QED
  BY <1>8, <1>11, <1>12, <1>13, <1>15, <1>16 DEF IpcInv

-----------------------------------------------------------------------------
(* JsonIpc: every behaviour *)

LEMMA IpcStarts == IpcInit => IpcInv
<1> SUFFICES ASSUME IpcInit PROVE IpcInv
  OBVIOUS
<1>1. /\ Len(<<>>) = 0 /\ <<>> \in Seq(Requests) /\ <<>> \in Seq(Replies) /\ <<>> \in Seq(Requests \cup Replies)
      /\ <<>> \in Seq(SUBSET Nat) /\ <<>> \in Seq(Objects \cup {0}) /\ ToSet(<<>>) = {} /\ DOMAIN <<>> = {}
  BY ElementsOfEmpty
<1>2. ws = <<>> /\ Len(ws) = 0 /\ ws \in Seq(Requests \cup Replies)
  BY <1>1 DEF IpcInit
<1>3. /\ Incoming = <<>> /\ Outgoing = <<>>
  BY <1>2 DEF IpcInit, Incoming, Outgoing
<1>4. /\ toServer \in Seq(Requests) /\ toClient \in Seq(Replies) /\ wmap_ \in Seq(Objects \cup {0})
      /\ idset_ \in Seq(SUBSET Nat) /\ Len(idset_) = 0 /\ idset_ = <<>>
      /\ ToSet(Incoming) = {} /\ ToSet(Outgoing) = {}
  BY <1>1, <1>3 DEF IpcInit
<1>5. IpcTypeOK
  <2>1. /\ live = {} /\ garbage = {} /\ inflight = FALSE /\ opened = TRUE /\ triggers_ = {} /\ connections = {} /\ value = 0
        /\ watch = [t \in Triggers |-> "none"] /\ watched = [t \in Triggers |-> 0] /\ cached = [t \in Triggers |-> -1]
    BY DEF IpcInit
  <2>a. watch \in [Triggers -> {"none", "on", "orphan", "off"}]
    BY <2>1
  <2>b. watched \in [Triggers -> Nat]
    BY <2>1
  <2>c. cached \in [Triggers -> Int]
    BY <2>1
  <2>2. /\ live \subseteq Nat /\ garbage \subseteq Nat /\ inflight \in BOOLEAN /\ opened \in BOOLEAN /\ value \in Nat
        /\ connections \subseteq triggers_ /\ triggers_ \subseteq Triggers
    BY <2>1
  <2>3. /\ toServer \in Seq(Requests) /\ toClient \in Seq(Replies) /\ wmap_ \in Seq(Objects \cup {0})
        /\ idset_ \in Seq(SUBSET Nat) /\ Len(idset_) = 0
    BY <1>4
  <2>4. Len(ws) = 0 /\ ws \in Seq(Requests \cup Replies) /\ opened
    BY <1>2, <2>1
  <2> QED
    BY <2>a, <2>b, <2>c, <2>2, <2>3, <2>4 DEF IpcTypeOK
<1>6. RequestOrder(Incoming) /\ ReplyOrder(Outgoing, SentIds) /\ ConnectsFirst(Incoming)
  BY <1>1, <1>3 DEF RequestOrder, ReplyOrder, ConnectsFirst
<1>7. GcStage
  BY <1>4 DEF GcStage, Renewing, Renewed, Reported, IpcInit
<1>8. GcIds
  BY <1>4 DEF GcIds, IpcInit
<1>9. TriggerInv
  BY <1>4 DEF TriggerInv, IpcInit
<1>10. CacheInv
  BY <1>4 DEF CacheInv, IpcInit
<1> QED
  BY <1>5, <1>6, <1>7, <1>8, <1>9, <1>10 DEF IpcInv

LEMMA SocketKeeps ==
  ASSUME IpcInv, socket_message
  PROVE  IpcInv'
<1> DEFINE msg == Head(toClient)
<1>1. CASE msg.method = "object"
  BY <1>1, ObjectReceived DEF socket_message
<1>2. CASE msg.method = "renewed"
  BY <1>2, RenewedReceived DEF socket_message
<1>3. CASE msg.method = "notify"
  BY <1>3, NotifyReceived DEF socket_message
<1>4. CASE msg.method = "value"
  BY <1>4, ValueReceived DEF socket_message
<1>5. CASE msg.method \notin {"object", "renewed", "notify", "value"}
  BY <1>5, OtherReceived DEF socket_message
<1> QED
  BY <1>1, <1>2, <1>3, <1>4, <1>5

LEMMA DispatchKeeps ==
  ASSUME IpcInv, dispatch_message
  PROVE  IpcInv'
<1>1. ws[1] \in Requests /\ Len(ws) = 1
  BY BeforeDispatch
<1>2. ws[1].method \in {"call", "renew", "report", "create", "remove", "js_trigger", "get"}
  BY <1>1, RequestArgs
<1>3. Head(ws) = ws[1]
  BY <1>1 DEF IpcInv, IpcTypeOK
<1>4. CASE ws[1].method = "call"
  BY <1>3, <1>4, CallHandled DEF dispatch_message
<1>5. CASE ws[1].method = "renew"
  BY <1>3, <1>5, RenewHandled DEF dispatch_message
<1>6. CASE ws[1].method = "report"
  BY <1>3, <1>6, ReportHandled DEF dispatch_message
<1>7. CASE ws[1].method = "create"
  BY <1>3, <1>7, CreateHandled DEF dispatch_message
<1>8. CASE ws[1].method = "js_trigger"
  BY <1>3, <1>8, ConnectHandled DEF dispatch_message
<1>9. CASE ws[1].method = "remove"
  BY <1>3, <1>9, RemoveHandled DEF dispatch_message
<1>10. CASE ws[1].method = "get"
  BY <1>3, <1>10, GetHandled DEF dispatch_message
<1> QED
  BY <1>2, <1>4, <1>5, <1>6, <1>7, <1>8, <1>9, <1>10

LEMMA IpcKeeps == IpcInv /\ [IpcNext]_ipcVars => IpcInv'
<1> SUFFICES ASSUME IpcInv, [IpcNext]_ipcVars PROVE IpcInv'
  OBVIOUS
<1>1. CASE UNCHANGED ipcVars
  <2>1. IpcTypeOK' /\ Incoming' = Incoming /\ Outgoing' = Outgoing
    BY <1>1 DEF ipcVars, clientVars, ipcServerVars, IpcInv, IpcTypeOK, Incoming, Outgoing
  <2>2. UNCHANGED <<clientVars, wmap_, idset_, triggers_, connections, value, opened>>
    BY <1>1 DEF ipcVars, ipcServerVars
  <2>3. CASE opened
    BY <2>1, <2>2, <2>3, SameMessages
  <2>4. CASE ~opened
    BY <2>1, <2>2, <2>4 DEF IpcInv
  <2> QED
    BY <2>3, <2>4
<1>2. CASE Call
  BY <1>2, CallKeeps
<1>3. ASSUME NEW id \in DOMAIN wmap_, Collect(id) PROVE IpcInv'
  BY <1>3, CollectKeeps
<1>4. ASSUME NEW id \in DOMAIN wmap_, jsonapi_finalization_gc(id) PROVE IpcInv'
  BY <1>4, FinalizeKeeps
<1>5. ASSUME NEW id \in live, NEW t \in Triggers, get_reactive_prop(id, t) PROVE IpcInv'
  BY <1>5, WatchKeeps
<1>6. CASE socket_message
  BY <1>6, SocketKeeps
<1>7. CASE message
  BY <1>7, MessageKeeps
<1>8. CASE send_text
  BY <1>8, SendTextKeeps
<1>9. CASE ws_closed
  BY <1>9, ClosedKeeps
<1>10. CASE dispatch_message
  BY <1>10, DispatchKeeps
<1>11. CASE emit_notify
  BY <1>11, NotifyKeeps
<1> QED
  BY <1>1, <1>2, <1>3, <1>4, <1>5, <1>6, <1>7, <1>8, <1>9, <1>10, <1>11 DEF IpcNext

\* When nothing is under way client and server agree.
LEMMA IpcAgrees == IpcInv => LiveObjectsKnown /\ CacheFresh /\ TriggersAgree
<1> SUFFICES ASSUME IpcInv PROVE LiveObjectsKnown /\ CacheFresh /\ TriggersAgree
  OBVIOUS
<1>1. IpcTypeOK
  BY DEF IpcInv
<1>2. LiveObjectsKnown
  <2> SUFFICES ASSUME opened
               PROVE  /\ live \ late \subseteq Ids
                      /\ \A msg \in ToSet(toClient) \cup ToSet(ws) : msg.method = "object" => msg.arg \in Ids
    BY DEF LiveObjectsKnown
  <2>1. GcIds
    BY DEF IpcInv
  <2>2. \A msg \in ToSet(ws) : msg.method = "object" => msg \in ToSet(Outgoing)
    <3>1. Len(ws) \in 0..2 /\ (Len(ws) = 2 => ws[2] \in ToSet(Outgoing)) /\ DOMAIN ws = 1..Len(ws)
      BY <1>1, UnderWay DEF IpcTypeOK
    <3>2. ASSUME NEW msg \in ToSet(ws), msg.method = "object" PROVE msg \in ToSet(Outgoing)
      <4>1. PICK i \in DOMAIN ws : msg = ws[i]
        BY DEF ToSet
      <4>2. CASE i = 1
        <5>1. ws[1] \in Requests
          BY <1>1, <3>1, <4>2 DEF IpcTypeOK
        <5> QED
          BY <3>2, <4>1, <4>2, <5>1, RequestArgs
      <4>3. CASE i = 2
        <5>1. Len(ws) = 2
          BY <3>1, <4>3
        <5> QED
          BY <3>1, <4>1, <4>3, <5>1
      <4> QED
        BY <3>1, <4>2, <4>3
    <3> QED
      BY <3>2
  <2>3. ToSet(toClient) \subseteq ToSet(Outgoing)
    BY <1>1, UnderWay
  <2> QED
    BY <2>1, <2>2, <2>3 DEF GcIds
<1>3. ASSUME IpcQuiet PROVE opened /\ ToSet(Incoming) = {} /\ ToSet(Outgoing) = {}
  <2>1. opened /\ toServer = <<>> /\ toClient = <<>> /\ ws = <<>> /\ Len(ws) = 0
    BY <1>3 DEF IpcQuiet
  <2>2. Incoming = <<>> /\ Outgoing = <<>>
    BY <2>1 DEF Incoming, Outgoing
  <2> QED
    BY <2>1, <2>2, ElementsOfEmpty
<1>4. CacheFresh
  BY <1>3 DEF CacheFresh, IpcInv, CacheInv, Fresh
<1>5. TriggersAgree
  <2> SUFFICES ASSUME IpcQuiet
               PROVE  /\ triggers_ = {t \in Triggers : watch[t] \in {"on", "orphan"}}
                      /\ connections \subseteq triggers_
    BY DEF TriggersAgree
  <2>1. TriggerInv /\ triggers_ \subseteq Triggers /\ connections \subseteq triggers_
        /\ watch \in [Triggers -> {"none", "on", "orphan", "off"}]
    BY <1>1, <1>3 DEF IpcInv, IpcTypeOK
  <2>2. \A t \in Triggers : t \in triggers_ <=> watch[t] \in {"on", "orphan"}
    BY <1>3, <2>1 DEF TriggerInv
  <2> QED
    BY <2>1, <2>2
<1> QED
  BY <1>2, <1>4, <1>5

-----------------------------------------------------------------------------
(* WebSocket *)

LEMMA RemovedOnce ==
  ASSUME NEW S, NEW s \in Seq(S), IsInjective(s), NEW e \in Range(s)
  PROVE  /\ RemoveFirst(s, e) \in Seq(S) /\ IsInjective(RemoveFirst(s, e))
         /\ Range(RemoveFirst(s, e)) = Range(s) \ {e}
<1>1. PICK k \in DOMAIN s : s[k] = e
  BY DEF Range
<1>2. DOMAIN s = 1..Len(s) /\ Len(s) \in Nat /\ k \in 1..Len(s)
  BY <1>1
<1>3. \A i, j \in DOMAIN s : s[i] = s[j] => i = j
  BY DEF IsInjective
<1> DEFINE n == Len(s)
           r == SubSeq(s, 1, k - 1) \o SubSeq(s, k + 1, n)
<1>4. RemoveFirst(s, e) = r
  <2>1. {i \in 1..Len(s) : s[i] = e} = {k}
    BY <1>1, <1>2, <1>3
  <2>2. Min({k}) = k
    BY <1>2 DEF Min
  <2>3. SelectInSeq(s, LAMBDA v : v = e) = k
    BY <2>1, <2>2 DEF SelectInSeq
  <2> QED
    BY <1>1, <1>2, <2>3 DEF RemoveFirst, RemoveAt
<1> DEFINE a == SubSeq(s, 1, k - 1)
           b == SubSeq(s, k + 1, n)
<1>5. a \in Seq(S) /\ Len(a) = k - 1 /\ \A i \in 1..k - 1 : a[i] = s[i]
  BY <1>2
<1>6. b \in Seq(S) /\ Len(b) = n - k /\ \A i \in 1..n - k : b[i] = s[k + i]
  <2>1. n \in Nat /\ k \in 1..n /\ DOMAIN s = 1..n
    BY <1>2
  <2>2. \A i \in k + 1..n : s[i] \in S
    BY <2>1
  <2> HIDE DEF n
  <2>3. k + 1 \in Int /\ n \in Int
    BY <2>1
  <2>4. /\ b \in Seq(S) /\ Len(b) = (IF k + 1 <= n THEN n - (k + 1) + 1 ELSE 0)
        /\ \A i \in 1..n - (k + 1) + 1 : b[i] = s[(k + 1) + i - 1]
    BY <2>2, <2>3, SubSeqProperties
  <2> HIDE DEF b
  <2>5. Len(b) = n - k /\ n - (k + 1) + 1 = n - k
    BY <2>1, <2>4
  <2>6. \A i \in 1..n - k : (k + 1) + i - 1 = k + i
    BY <2>1
  <2> QED
    BY <2>4, <2>5, <2>6
<1> HIDE DEF a, b
<1> DEFINE q == a \o b
<1>7. /\ q \in Seq(S) /\ Len(q) = n - 1
      /\ \A i \in 1..n - 1 : q[i] = IF i < k THEN s[i] ELSE s[i + 1]
  <2>1. q \in Seq(S) /\ Len(q) = Len(a) + Len(b)
    BY <1>5, <1>6, ConcatProperties
  <2>2. \A i \in 1..Len(a) + Len(b) : q[i] = IF i <= Len(a) THEN a[i] ELSE b[i - Len(a)]
    BY <1>5, <1>6, ConcatProperties
  <2> HIDE DEF q
  <2>3. Len(a) + Len(b) = n - 1
    BY <1>2, <1>5, <1>6
  <2>4. ASSUME NEW i \in 1..n - 1 PROVE q[i] = IF i < k THEN s[i] ELSE s[i + 1]
    <3>1. CASE i < k
      <4>1. i <= Len(a) /\ i \in 1..k - 1 /\ i \in 1..Len(a) + Len(b)
        BY <1>2, <1>5, <2>3, <3>1
      <4> QED
        BY <1>5, <2>2, <3>1, <4>1
    <3>2. CASE ~(i < k)
      <4>1. ~(i <= Len(a)) /\ i - Len(a) \in 1..n - k /\ k + (i - Len(a)) = i + 1 /\ i \in 1..Len(a) + Len(b)
        <5> DEFINE la == Len(a)
                   lb == Len(b)
        <5>1. la = k - 1 /\ lb = n - k /\ n \in Nat /\ k \in 1..n
          BY <1>2, <1>5, <1>6
        <5> HIDE DEF la, lb, n
        <5>a. i \in Int /\ k \in Int /\ n \in Int /\ 1 <= i /\ i <= n - 1 /\ k <= i
          BY <3>2, <5>1
        <5>b. i - (k - 1) = (i - k) + 1 /\ (k - 1) + (n - k) = n - 1 /\ ~(i <= k - 1)
          BY <5>a
        <5>c. (i - k) + 1 \in 1..n - k /\ k + ((i - k) + 1) = i + 1 /\ i \in 1..n - 1
          BY <5>a
        <5>2. ~(i <= la) /\ i - la \in 1..n - k /\ k + (i - la) = i + 1 /\ i \in 1..la + lb
          BY <5>1, <5>b, <5>c
        <5> QED
          BY <5>2 DEF la, lb
      <4> QED
        BY <1>6, <2>2, <3>2, <4>1
    <3> QED
      BY <3>1, <3>2
  <2> QED
    BY <2>1, <2>3, <2>4
<1> HIDE DEF q
<1>8. DOMAIN q = 1..n - 1 /\ DOMAIN s = 1..n /\ n \in Nat /\ k \in 1..n
  BY <1>2, <1>7
<1> HIDE DEF n
<1>9. IsInjective(q)
  <2>1. ASSUME NEW i \in 1..n - 1, NEW j \in 1..n - 1, q[i] = q[j] PROVE i = j
    <3>1. i \in 1..n /\ j \in 1..n /\ i + 1 \in 1..n /\ j + 1 \in 1..n
      BY <1>8
    <3>2. CASE i < k /\ j < k
      BY <1>3, <1>7, <1>8, <2>1, <3>1, <3>2
    <3>3. CASE i < k /\ ~(j < k)
      <4>1. s[i] = s[j + 1]
        BY <1>7, <2>1, <3>3
      <4>2. i = j + 1
        BY <1>3, <1>8, <3>1, <4>1
      <4> QED
        BY <1>8, <3>3, <4>2
    <3>4. CASE ~(i < k) /\ j < k
      <4>1. s[i + 1] = s[j]
        BY <1>7, <2>1, <3>4
      <4>2. i + 1 = j
        BY <1>3, <1>8, <3>1, <4>1
      <4> QED
        BY <1>8, <3>4, <4>2
    <3>5. CASE ~(i < k) /\ ~(j < k)
      <4>1. s[i + 1] = s[j + 1]
        BY <1>7, <2>1, <3>5
      <4>2. i + 1 = j + 1
        BY <1>3, <1>8, <3>1, <4>1
      <4> QED
        BY <1>8, <4>2
    <3> QED
      BY <3>2, <3>3, <3>4, <3>5
  <2> QED
    BY <1>8, <2>1 DEF IsInjective
<1>10. Range(q) = Range(s) \ {e}
  <2>1. ASSUME NEW i \in 1..n - 1 PROVE q[i] \in Range(s) /\ q[i] # e
    <3>1. CASE i < k
      <4>1. i \in 1..n /\ q[i] = s[i] /\ i # k
        BY <1>7, <1>8, <3>1
      <4> QED
        BY <1>1, <1>3, <1>8, <4>1 DEF Range
    <3>2. CASE ~(i < k)
      <4>1. i + 1 \in 1..n /\ q[i] = s[i + 1] /\ i + 1 # k
        BY <1>7, <1>8, <3>2
      <4> QED
        BY <1>1, <1>3, <1>8, <4>1 DEF Range
    <3> QED
      BY <3>1, <3>2
  <2>2. ASSUME NEW j \in 1..n, s[j] # e PROVE \E i \in 1..n - 1 : q[i] = s[j]
    <3>1. CASE j < k
      <4>1. j \in 1..n - 1 /\ q[j] = s[j]
        BY <1>7, <1>8, <3>1
      <4> QED
        BY <4>1
    <3>2. CASE j > k
      <4> DEFINE i == j - 1
      <4>1. i \in 1..n - 1 /\ ~(i < k) /\ i + 1 = j
        BY <1>8, <3>2
      <4>2. q[i] = s[i + 1]
        BY <1>7, <4>1
      <4> QED
        BY <4>1, <4>2
    <3> QED
      BY <1>1, <1>8, <2>2, <3>1, <3>2
  <2>3. ASSUME NEW x \in Range(q) PROVE x \in Range(s) \ {e}
    <3>1. PICK i \in 1..n - 1 : x = q[i]
      BY <1>8 DEF Range
    <3> QED
      BY <2>1, <3>1
  <2>4. ASSUME NEW x \in Range(s) \ {e} PROVE x \in Range(q)
    <3>1. PICK j \in 1..n : x = s[j]
      BY <1>8 DEF Range
    <3>2. PICK i \in 1..n - 1 : q[i] = s[j]
      BY <2>2, <3>1
    <3> QED
      BY <1>8, <3>1, <3>2 DEF Range
  <2> QED
    BY <2>3, <2>4
<1> QED
  BY <1>4, <1>7, <1>9, <1>10 DEF a, b, q, n

ConStates == {"none", "accepted", "open", "closing", "closed"}
WsInv ==
  /\ con \in [Conns -> ConStates] /\ accepted \in [Conns -> BOOLEAN] /\ opencons \in Seq(Conns)
  /\ \A c \in Conns : accepted[c] <=> con[c] \in {"open", "closing"}
  /\ OpenConsCurrent

LEMMA WsStarts == WsInit => WsInv
<1> SUFFICES ASSUME WsInit PROVE WsInv
  OBVIOUS
<1>1. con = [c \in Conns |-> "none"] /\ accepted = [c \in Conns |-> FALSE] /\ opencons = <<>> /\ hooks = {}
  BY DEF WsInit
<1>2. con \in [Conns -> ConStates] /\ \A c \in Conns : con[c] = "none"
  BY <1>1 DEF ConStates
<1>3. accepted \in [Conns -> BOOLEAN] /\ \A c \in Conns : accepted[c] = FALSE
  BY <1>1
<1>4. opencons \in Seq(Conns) /\ IsInjective(opencons) /\ Range(opencons) = {}
  BY <1>1 DEF IsInjective, Range
<1> QED
  BY <1>1, <1>2, <1>3, <1>4 DEF WsInv, OpenConsCurrent

\* A step that opens and closes no connection.
LEMMA WsSame ==
  ASSUME WsInv, UNCHANGED <<accepted, opencons, hooks>>, con' \in [Conns -> ConStates],
         \A c \in Conns : con'[c] \in {"open", "closing"} <=> con[c] \in {"open", "closing"}
  PROVE  WsInv'
  BY DEF WsInv, OpenConsCurrent

LEMMA WsKeeps == WsInv /\ [WsNext]_wsVars => WsInv'
<1> SUFFICES ASSUME WsInv, [WsNext]_wsVars PROVE WsInv'
  OBVIOUS
<1>1. con \in [Conns -> ConStates] /\ accepted \in [Conns -> BOOLEAN] /\ opencons \in Seq(Conns)
      /\ OpenConsCurrent /\ \A c \in Conns : accepted[c] <=> con[c] \in {"open", "closing"}
  BY DEF WsInv
<1>2. CASE UNCHANGED <<con, accepted, opencons, hooks>>
  BY <1>1, <1>2, WsSame
<1>3. ASSUME NEW c \in Conns, Connect(c) PROVE WsInv'
  BY <1>1, <1>3, WsSame DEF Connect, ConStates
<1>4. ASSUME NEW c \in Conns, ws_opened(c) PROVE WsInv'
  <2>1. /\ con' = [con EXCEPT ![c] = "open"] /\ accepted' = [accepted EXCEPT ![c] = TRUE]
        /\ opencons' = Append(opencons, c) /\ hooks' = hooks \cup {c} /\ con[c] = "accepted"
    BY <1>4 DEF ws_opened
  <2>2. c \notin Range(opencons)
    BY <1>1, <2>1 DEF OpenConsCurrent
  <2>3. /\ opencons' \in Seq(Conns) /\ Len(opencons') = Len(opencons) + 1 /\ opencons'[Len(opencons) + 1] = c
        /\ \A i \in 1..Len(opencons) : opencons'[i] = opencons[i]
    BY <1>1, <2>1, AppendProperties
  <2>4. DOMAIN opencons = 1..Len(opencons) /\ Len(opencons) \in Nat /\ DOMAIN opencons' = 1..Len(opencons) + 1
    BY <1>1, <2>3
  <2> DEFINE n == Len(opencons)
  <2>5. n \in Nat /\ \A i \in 1..n + 1 : (i \in 1..n /\ opencons'[i] = opencons[i]) \/ (i = n + 1 /\ opencons'[i] = c)
    BY <2>3, <2>4
  <2> HIDE DEF n
  <2>6. Range(opencons') = Range(opencons) \cup {c}
    <3>1. \A i \in 1..n : i \in 1..n + 1 /\ opencons'[i] = opencons[i]
      BY <2>3, <2>5 DEF n
    <3>2. n + 1 \in 1..n + 1 /\ opencons'[n + 1] = c
      BY <2>3, <2>5 DEF n
    <3>3. DOMAIN opencons = 1..n /\ DOMAIN opencons' = 1..n + 1
      BY <2>4 DEF n
    <3> QED
      BY <2>5, <3>1, <3>2, <3>3 DEF Range
  <2>7. IsInjective(opencons')
    <3>1. DOMAIN opencons = 1..n /\ DOMAIN opencons' = 1..n + 1
      BY <2>4 DEF n
    <3>2. \A i \in 1..n : opencons[i] # c
      BY <2>2, <3>1 DEF Range
    <3>3. \A i, j \in 1..n : opencons[i] = opencons[j] => i = j
      BY <1>1, <3>1 DEF OpenConsCurrent, IsInjective
    <3> QED
      BY <2>5, <3>1, <3>2, <3>3 DEF IsInjective
  <2>8. con' \in [Conns -> ConStates] /\ accepted' \in [Conns -> BOOLEAN]
        /\ \A d \in Conns : accepted'[d] <=> con'[d] \in {"open", "closing"}
    <3>1. con' \in [Conns -> ConStates] /\ accepted' \in [Conns -> BOOLEAN]
      BY <1>1, <2>1 DEF ConStates
    <3>2. \A d \in Conns : /\ d # c => con'[d] = con[d] /\ accepted'[d] = accepted[d]
                           /\ d = c => con'[d] = "open" /\ accepted'[d] = TRUE
      BY <1>1, <2>1
    <3> QED
      BY <1>1, <3>1, <3>2
  <2>9. {d \in Conns : accepted'[d]} = {d \in Conns : accepted[d]} \cup {c}
    BY <1>1, <2>1
  <2> QED
    BY <1>1, <2>1, <2>3, <2>6, <2>7, <2>8, <2>9 DEF WsInv, OpenConsCurrent
<1>5. ASSUME NEW c \in Conns, Disconnect(c) PROVE WsInv'
  BY <1>1, <1>5, WsSame DEF Disconnect, ConStates
<1>6. ASSUME NEW c \in Conns, con_closed(c) PROVE WsInv'
  <2>1. /\ con' = [con EXCEPT ![c] = "closed"] /\ accepted' = [accepted EXCEPT ![c] = FALSE]
        /\ opencons' = RemoveFirst(opencons, c) /\ hooks' = hooks \ {c} /\ con[c] = "closing"
    BY <1>6 DEF con_closed, ClosedFlag
  <2>2. c \in Range(opencons) /\ IsInjective(opencons)
    BY <1>1, <2>1 DEF OpenConsCurrent
  <2>3. opencons' \in Seq(Conns) /\ IsInjective(opencons') /\ Range(opencons') = Range(opencons) \ {c}
    BY <1>1, <2>1, <2>2, RemovedOnce
  <2>4. con' \in [Conns -> ConStates] /\ accepted' \in [Conns -> BOOLEAN]
        /\ \A d \in Conns : accepted'[d] <=> con'[d] \in {"open", "closing"}
    <3>1. con' \in [Conns -> ConStates] /\ accepted' \in [Conns -> BOOLEAN]
      BY <1>1, <2>1 DEF ConStates
    <3>2. \A d \in Conns : /\ d # c => con'[d] = con[d] /\ accepted'[d] = accepted[d]
                           /\ d = c => con'[d] = "closed" /\ accepted'[d] = FALSE
      BY <1>1, <2>1
    <3> QED
      BY <1>1, <3>1, <3>2
  <2>5. {d \in Conns : accepted'[d]} = {d \in Conns : accepted[d]} \ {c}
    BY <1>1, <2>1
  <2> QED
    BY <1>1, <2>1, <2>3, <2>4, <2>5 DEF WsInv, OpenConsCurrent
<1>7. con' = Closed /\ UNCHANGED <<accepted, opencons, hooks>> => WsInv'
  <2> SUFFICES ASSUME con' = Closed, UNCHANGED <<accepted, opencons, hooks>> PROVE WsInv'
    OBVIOUS
  <2>1. con' \in [Conns -> ConStates]
    BY <1>1 DEF Closed, ConStates
  <2>2. \A c \in Conns : con'[c] \in {"open", "closing"} <=> con[c] \in {"open", "closing"}
    BY DEF Closed
  <2> QED
    BY <2>1, <2>2, WsSame
<1>8. CASE Reset \/ ShutdownReset
  BY <1>7, <1>8 DEF Reset, ShutdownReset
<1>9. CASE \E c \in Conns : ClientSend(c) \/ Message(c) \/ message_done(c)
  BY <1>2, <1>9 DEF ClientSend, Message, message_done
<1>10. CASE MainJob \/ QuitLoop \/ Shutdown \/ Joined \/ UNCHANGED wsVars
  BY <1>2, <1>10 DEF MainJob, QuitLoop, Shutdown, Joined, wsVars
<1> QED
  BY <1>3, <1>4, <1>5, <1>6, <1>8, <1>9, <1>10 DEF WsNext

-----------------------------------------------------------------------------
(* The components together *)

RemoteInv ==
  /\ component = "ipc" => IpcInv
  /\ component = "websocket" => WsInv

(* The objects and values a client holds are those of the server: what it   *)
(* may refer to is in the instance map, when nothing is under way a watched *)
(* property is cached with its present value and both sides have the same   *)
(* triggers; the web socket server lists the connections that are open.     *)
THEOREM RemoteAlwaysSound == InterfaceSpec => []RemoteSound
<1>1. InterfaceInit => RemoteInv
  BY IpcStarts, WsStarts DEF InterfaceInit, RemoteInv
<1>2. RemoteInv /\ [InterfaceNext]_interfaceVars => RemoteInv'
  <2> SUFFICES ASSUME RemoteInv, [InterfaceNext]_interfaceVars PROVE RemoteInv'
    OBVIOUS
  <2>1. component' = component
    BY DEF InterfaceNext, interfaceVars
  <2>2. ASSUME component = "ipc" PROVE [IpcNext]_ipcVars
    BY <2>2 DEF InterfaceNext, RemoteNext, interfaceVars, remoteVars
  <2>3. ASSUME component = "websocket" PROVE [WsNext]_wsVars
    BY <2>3 DEF InterfaceNext, RemoteNext, interfaceVars, remoteVars
  <2> QED
    BY <2>1, <2>2, <2>3, IpcKeeps, WsKeeps DEF RemoteInv
<1>3. RemoteInv => RemoteSound
  BY IpcAgrees DEF RemoteInv, RemoteSound, WsInv
<1> QED
  BY <1>1, <1>2, <1>3, PTL DEF InterfaceSpec
=============================================================================
