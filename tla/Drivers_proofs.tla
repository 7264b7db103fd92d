---------------------------- MODULE Drivers_proofs ----------------------------
(***************************************************************************)
(* Theorems about the components of MCDrivers.                             *)
(***************************************************************************)
EXTENDS MCDrivers, SequenceTheorems, NatLemmas, TLAPS

-----------------------------------------------------------------------------
(* LiquidSfz *)

SfzInv ==
  /\ sfz_audio = "process" => state = "IDLE"
  /\ loader \in {"load", "loaded"} => state = "LOAD"

LEMMA SfzInvInductive == (SfzInit => SfzInv) /\ (SfzInv /\ [SfzNext]_sfzVars => SfzInv')
<1> USE DEF SfzInv
<1>1. SfzInit => SfzInv
  BY DEF SfzInit
<1>2. SUFFICES ASSUME SfzInv, [SfzNext]_sfzVars PROVE SfzInv'
  BY <1>1
<1>3. CASE sfz_render \/ request \/ sfz_process
  BY <1>2, <1>3 DEF sfz_render, request, sfz_process, SfzIdle
<1>4. CASE woken \/ load \/ loaded \/ next
  BY <1>2, <1>4 DEF woken, load, loaded, next
<1>5. ASSUME Destroy \/ \E i \in Instruments : Select(i) PROVE SfzInv'
  BY <1>2, <1>5 DEF Destroy, Select
<1>6. CASE UNCHANGED sfzVars
  BY <1>2, <1>6 DEF sfzVars
<1> QED
  BY <1>2, <1>3, <1>4, <1>5, <1>6 DEF SfzNext

-----------------------------------------------------------------------------
(* ProcessorParams *)

\* A vector has one event of a parameter at most: send_param() reassigns it.
Events == [param : ParamIndex, pvalue : Int]
OnePerParam(s) ==
  s \in Seq(Events) /\ \A i, j \in DOMAIN s : s[i].param = s[j].param => i = j

\* While the main thread is in set_value() there is nothing it could delete.
ParamInv ==
  /\ values \in [ParamIndex -> Int] /\ sent \in [ParamIndex -> Int]
  /\ setter \in [step : {"idle", "put", "stamp"}, param : Int, value : Int, events : Seq(Events)]
  /\ engine \in [busy : BOOLEAN, events : Seq(Events)]
  /\ OnePerParam(engine.events) /\ OnePerParam(Taken(t0events)) /\ OnePerParam(setter.events)
  /\ IF setter.step = "put" THEN Taken(t0events) = <<>> ELSE setter.events = <<>>
  /\ ~engine.busy => engine.events = <<>>
  /\ SetsArrive

LEMMA AfterNone == \A s, p, v : (\A i \in DOMAIN s : s[i].param # p) => After(s, p, v) = v
  BY DEF After

LEMMA AfterEmpty == \A p, v : After(<<>>, p, v) = v
  BY AfterNone

LEMMA AfterOne ==
  ASSUME NEW s, OnePerParam(s), NEW v, NEW i \in DOMAIN s PROVE After(s, s[i].param, v) = s[i].pvalue
<1> DEFINE of == {k \in DOMAIN s : s[k].param = s[i].param}
<1>1. of = {i}
  BY DEF OnePerParam
<1>2. DOMAIN s \subseteq Int
  BY DEF OnePerParam
<1>3. (CHOOSE k \in of : \A j \in of : j <= k) = i
  BY <1>1, <1>2
<1> HIDE DEF of
<1>4. of # {}
  BY <1>1
<1> QED
  BY <1>3, <1>4 DEF After, of

LEMMA OneEmpty == OnePerParam(<<>>)
  BY DEF OnePerParam

LEMMA SentSets ==
  ASSUME NEW s, OnePerParam(s), NEW p \in ParamIndex, NEW v \in Int
  PROVE  /\ OnePerParam(Sent(s, p, v))
         /\ \A q \in ParamIndex : \A x : After(Sent(s, p, v), q, x) = IF q = p THEN v ELSE After(s, q, x)
<1> DEFINE of == {i \in DOMAIN s : s[i].param = p}
           r == Sent(s, p, v)
<1>0. s \in Seq(Events) /\ ParamEvent(p, v) \in Events
  BY DEF OnePerParam, Events, ParamEvent
<1>1. CASE of = {}
  <2>1. r = Append(s, ParamEvent(p, v))
    BY <1>1 DEF Sent
  <2>2. /\ r \in Seq(Events) /\ DOMAIN s = 1..Len(s) /\ DOMAIN r = 1..Len(s)+1 /\ Len(s) \in Nat
        /\ \A i \in DOMAIN s : r[i] = s[i]
        /\ r[Len(s)+1] = ParamEvent(p, v)
    BY <1>0, <2>1
  <2>3. OnePerParam(r)
    BY <1>1, <2>2 DEF OnePerParam, ParamEvent
  <2>4. ASSUME NEW x PROVE After(r, p, x) = v
    <3>1. Len(s)+1 \in DOMAIN r /\ r[Len(s)+1].param = p /\ r[Len(s)+1].pvalue = v
      BY <2>2 DEF ParamEvent
    <3> HIDE DEF r
    <3> QED
      BY <2>3, <3>1, AfterOne
  <2>5. ASSUME NEW q \in ParamIndex, q # p, NEW x PROVE After(r, q, x) = After(s, q, x)
    <3>1. {i \in DOMAIN r : r[i].param = q} = {i \in DOMAIN s : s[i].param = q}
      BY <2>2, <2>5 DEF ParamEvent
    <3>2. CASE {i \in DOMAIN s : s[i].param = q} = {}
      BY <3>1, <3>2 DEF After
    <3>3. CASE {i \in DOMAIN s : s[i].param = q} # {}
      <4> PICK i \in DOMAIN s : s[i].param = q
        BY <3>3
      <4>1. i \in DOMAIN r /\ r[i] = s[i]
        BY <2>2
      <4> HIDE DEF r
      <4> QED
        BY <2>3, <4>1, AfterOne
    <3> QED
      BY <3>2, <3>3
  <2> QED
    BY <2>3, <2>4, <2>5
<1>2. CASE of # {}
  <2>1. PICK i \in DOMAIN s : s[i].param = p
    BY <1>2
  <2>2. of = {i} /\ i \in Nat
    BY <1>0, <2>1 DEF OnePerParam
  <2>3. (CHOOSE k \in of : \A j \in of : k <= j) = i
    BY <2>2
  <2>4. r = [s EXCEPT ![i].pvalue = v]
    BY <1>2, <2>3 DEF Sent
  <2>5. s[i] \in Events
    BY <1>0, <2>1
  <2>6. /\ r \in Seq(Events) /\ DOMAIN r = DOMAIN s
        /\ \A j \in DOMAIN s : r[j].param = s[j].param /\ (j # i => r[j] = s[j])
        /\ r[i].pvalue = v
    <3>1. [s[i] EXCEPT !.pvalue = v] \in Events
      BY <2>5 DEF Events
    <3>2. r = [s EXCEPT ![i] = [s[i] EXCEPT !.pvalue = v]]
      BY <2>4
    <3>3. r \in Seq(Events) /\ DOMAIN r = DOMAIN s
      BY <1>0, <2>1, <3>1, <3>2
    <3> QED
      BY <1>0, <2>1, <2>5, <3>2, <3>3 DEF Events
  <2>7. OnePerParam(r)
    BY <2>6 DEF OnePerParam
  <2>8. ASSUME NEW q \in ParamIndex, NEW x PROVE After(r, q, x) = IF q = p THEN v ELSE After(s, q, x)
    <3> HIDE DEF r
    <3>1. CASE \A j \in DOMAIN s : s[j].param # q
      <4>1. q # p /\ \A j \in DOMAIN r : r[j].param # q
        BY <2>1, <2>6, <3>1
      <4> QED
        BY <3>1, <4>1, AfterNone
    <3>2. ASSUME NEW j \in DOMAIN s, s[j].param = q PROVE After(r, q, x) = IF q = p THEN v ELSE After(s, q, x)
      <4>a. After(s, s[j].param, x) = s[j].pvalue
        BY AfterOne
      <4>b. j \in DOMAIN r /\ r[j].param = q
        BY <2>6, <3>2
      <4>c. After(r, r[j].param, x) = r[j].pvalue
        BY <2>7, <4>b, AfterOne
      <4>1. After(r, q, x) = r[j].pvalue /\ After(s, q, x) = s[j].pvalue
        BY <3>2, <4>a, <4>b, <4>c
      <4>2. q = p <=> j = i
        BY <2>1, <3>2 DEF OnePerParam
      <4> QED
        BY <2>6, <4>1, <4>2
    <3> QED
      BY <3>1, <3>2
  <2> QED
    BY <2>7, <2>8
<1> QED
  BY <1>1, <1>2

LEMMA TailApplies ==
  ASSUME NEW s, OnePerParam(s), s # <<>>
  PROVE  /\ OnePerParam(Tail(s)) /\ Head(s) \in Events
         /\ \A q, x : After(s, q, x) = After(Tail(s), q, IF Head(s).param = q THEN Head(s).pvalue ELSE x)
<1> DEFINE w == Tail(s)
<1>1. /\ s \in Seq(Events) /\ w \in Seq(Events) /\ Head(s) = s[1] /\ 1 \in DOMAIN s /\ Head(s) \in Events
      /\ DOMAIN s \subseteq Nat
      /\ \A i \in DOMAIN w : i \in Nat /\ i >= 1 /\ i + 1 \in DOMAIN s /\ w[i] = s[i+1]
      /\ \A i \in DOMAIN s : i = 1 \/ i - 1 \in DOMAIN w
  BY DEF OnePerParam
<1> HIDE DEF w
<1>2. OnePerParam(w)
  <2> SUFFICES ASSUME NEW i \in DOMAIN w, NEW j \in DOMAIN w, w[i].param = w[j].param
               PROVE  i = j
    BY <1>1 DEF OnePerParam
  <2>1. i + 1 = j + 1
    BY <1>1 DEF OnePerParam
  <2> QED
    BY <1>1, <2>1
<1>3. ASSUME NEW q, NEW x
      PROVE  After(s, q, x) = After(w, q, IF Head(s).param = q THEN Head(s).pvalue ELSE x)
  <2>1. CASE s[1].param = q
    <3>1. \A i \in DOMAIN w : w[i].param # q
      <4> SUFFICES ASSUME NEW i \in DOMAIN w, w[i].param = q PROVE FALSE
        OBVIOUS
      <4>1. i + 1 = 1
        BY <1>1, <2>1 DEF OnePerParam
      <4> QED
        BY <1>1, <4>1
    <3>2. After(s, q, x) = s[1].pvalue
      BY <1>1, <2>1, AfterOne
    <3>3. After(w, q, s[1].pvalue) = s[1].pvalue
      BY <3>1, AfterNone
    <3>4. Head(s).param = q /\ Head(s).pvalue = s[1].pvalue
      BY <1>1, <2>1
    <3> QED
      BY <3>2, <3>3, <3>4
  <2>2. CASE s[1].param # q /\ \A i \in DOMAIN s : s[i].param # q
    <3>1. \A i \in DOMAIN w : w[i].param # q
      BY <1>1, <2>2
    <3>2. After(s, q, x) = x
      BY <2>2, AfterNone
    <3>3. After(w, q, x) = x
      BY <3>1, AfterNone
    <3>4. Head(s).param # q
      BY <1>1, <2>2
    <3> QED
      BY <3>2, <3>3, <3>4
  <2>3. ASSUME NEW i \in DOMAIN s, s[i].param = q, s[1].param # q
        PROVE  After(s, q, x) = After(w, q, IF Head(s).param = q THEN Head(s).pvalue ELSE x)
    <3>1. i # 1 /\ i - 1 \in DOMAIN w /\ w[i-1] = s[i]
      BY <1>1, <2>3
    <3>2. After(s, q, x) = s[i].pvalue
      BY <2>3, AfterOne
    <3>3. After(w, q, x) = s[i].pvalue
      BY <1>2, <2>3, <3>1, AfterOne
    <3> QED
      BY <1>1, <2>3, <3>2, <3>3
  <2> QED
    BY <2>1, <2>2, <2>3
<1> QED
  BY <1>1, <1>2, <1>3 DEF w

LEMMA ParamInitInv == ParamInit => ParamInv
<1> SUFFICES ASSUME ParamInit PROVE ParamInv
  OBVIOUS
<1> DEFINE s == [p \in ParamIndex |-> ParamEvent(p, 0)]
<1>1. t0events = <<s>> /\ Taken(t0events) = s
  BY DEF ParamInit, Taken
<1>2. OnePerParam(s)
  BY ProcParamsAssumption DEF OnePerParam, ParamEvent, Events, ParamIndex
<1>3. \A p \in ParamIndex : s[p].param = p /\ s[p].pvalue = 0 /\ p \in DOMAIN s
  BY DEF ParamEvent
<1> HIDE DEF s
<1>4. \A p \in ParamIndex : After(s, p, 0) = 0
  BY <1>2, <1>3, AfterOne
<1>5. /\ setter.events = <<>> /\ engine.events = <<>> /\ setter.step = "idle" /\ engine.busy = FALSE
      /\ setter = [step |-> "idle", param |-> 0, value |-> 0, events |-> <<>>]
      /\ engine = [busy |-> FALSE, events |-> <<>>]
  BY DEF ParamInit, NoSetter, NotRendering
<1>6. values \in [ParamIndex -> Int] /\ sent \in [ParamIndex -> Int]
      /\ \A p \in ParamIndex : values[p] = 0 /\ sent[p] = 0 /\ Constrained(sent[p]) = 0
  BY ProcParamsAssumption DEF ParamInit, Constrained
<1>7. SetsArrive
  BY <1>1, <1>4, <1>5, <1>6, AfterEmpty DEF SetsArrive
<1> QED
  BY <1>1, <1>2, <1>5, <1>6, <1>7, OneEmpty DEF ParamInv

LEMMA ParamNextInv == ParamInv /\ [ParamNext]_paramVars => ParamInv'
<1> SUFFICES ASSUME ParamInv, [ParamNext]_paramVars PROVE ParamInv'
  OBVIOUS
<1>a. Taken(<<>>) = <<>> /\ \A s : Taken(<<s>>) = s
  BY DEF Taken
<1>b. <<>> \in Seq(Events)
  OBVIOUS
<1>1. ASSUME NEW p \in ParamIndex, NEW v \in SentValues, SetTake(p, v) PROVE ParamInv'
  <2> DEFINE s == Taken(t0events)
             c == Constrained(v)
  <2>1. v \in Int /\ c \in Int
    BY ProcParamsAssumption DEF Constrained
  <2>2. /\ t0events' = <<>> /\ engine' = engine /\ values' = values
        /\ sent' = [sent EXCEPT ![p] = v]
        /\ setter' = [step |-> "put", param |-> p, value |-> v, events |-> Sent(s, p, c)]
        /\ setter.step # "put" /\ setter.events = <<>>
    BY <1>1 DEF SetTake, MainIdle, ParamInv
  <2>3. OnePerParam(s)
    BY DEF ParamInv
  <2> HIDE DEF s, c
  <2>4. OnePerParam(Sent(s, p, c))
    BY <2>1, <2>3, SentSets
  <2>5. p \in Int
    BY DEF ParamIndex
  <2>6. SetsArrive'
    <3> SUFFICES ASSUME NEW q \in ParamIndex
                 PROVE  After(Sent(s, p, c), q, After(<<>>, q, After(engine.events, q, values[q])))
                          = Constrained(sent'[q])
      BY <2>2, <1>a DEF SetsArrive, Constrained
    <3> DEFINE x == After(engine.events, q, values[q])
    <3>1. After(<<>>, q, x) = x
      BY AfterEmpty
    <3>2. After(<<>>, q, After(s, q, x)) = Constrained(sent[q])
      BY <2>2 DEF ParamInv, SetsArrive, s
    <3>3. After(s, q, x) = Constrained(sent[q])
      BY <3>2, AfterEmpty
    <3>4. sent'[q] = IF q = p THEN v ELSE sent[q]
      BY <2>2 DEF ParamInv
    <3> HIDE DEF x
    <3>5. After(Sent(s, p, c), q, x) = IF q = p THEN c ELSE After(s, q, x)
      BY <2>1, <2>3, SentSets
    <3> QED
      BY <3>1, <3>3, <3>4, <3>5 DEF c, x
  <2>7. setter' \in [step : {"idle", "put", "stamp"}, param : Int, value : Int, events : Seq(Events)]
    BY <2>1, <2>2, <2>4, <2>5 DEF OnePerParam
  <2> QED
    BY <1>a, <2>1, <2>2, <2>4, <2>6, <2>7, OneEmpty DEF ParamInv
<1>2. CASE SetPut
  <2>1. /\ t0events' = <<setter.events>> /\ engine' = engine /\ values' = values /\ sent' = sent
        /\ setter' = [setter EXCEPT !.step = "stamp", !.events = <<>>] /\ setter.step = "put"
        /\ Taken(t0events) = <<>>
    BY <1>2 DEF SetPut, ParamInv
  <2>2. Taken(t0events') = setter.events /\ setter'.events = <<>> /\ setter'.step = "stamp"
        /\ setter' \in [step : {"idle", "put", "stamp"}, param : Int, value : Int, events : Seq(Events)]
    BY <1>a, <1>b, <2>1 DEF ParamInv
  <2>3. SetsArrive'
    BY <2>1, <2>2, AfterEmpty DEF ParamInv, SetsArrive, Constrained, Taken
  <2> QED
    BY <2>1, <2>2, <2>3, OneEmpty DEF ParamInv, Taken
<1>3. CASE SetStamp
  <2>1. setter.step = "stamp" /\ setter.events = <<>> /\ setter'.events = <<>> /\ setter'.step = "idle"
        /\ setter' \in [step : {"idle", "put", "stamp"}, param : Int, value : Int, events : Seq(Events)]
        /\ UNCHANGED <<t0events, engine, values, sent>>
    BY <1>3, <1>b DEF SetStamp, ParamInv, NoSetter
  <2> QED
    BY <2>1 DEF ParamInv, SetsArrive, Taken, Constrained
<1>4. CASE RenderFetch
  <2>1. /\ t0events' = <<>> /\ engine' = [busy |-> TRUE, events |-> Taken(t0events)] /\ engine.events = <<>>
        /\ UNCHANGED <<setter, values, sent>>
    BY <1>4 DEF RenderFetch, ParamInv
  <2>2. SetsArrive'
    BY <1>a, <2>1, AfterEmpty DEF ParamInv, SetsArrive, Constrained
  <2> QED
    BY <1>a, <1>b, <2>1, <2>2, OneEmpty DEF ParamInv, OnePerParam
<1>5. CASE apply_event
  <2> DEFINE s == engine.events
             x(q) == IF Head(s).param = q THEN Head(s).pvalue ELSE values[q]
  <2>1. /\ values' = [values EXCEPT ![Head(s).param] = Head(s).pvalue]
        /\ engine' = [engine EXCEPT !.events = Tail(@)] /\ engine.busy /\ s # <<>>
        /\ UNCHANGED <<t0events, setter, sent>>
    BY <1>5 DEF apply_event
  <2>2. OnePerParam(s) /\ engine \in [busy : BOOLEAN, events : Seq(Events)]
        /\ values \in [ParamIndex -> Int]
    BY DEF ParamInv
  <2>3. /\ OnePerParam(Tail(s)) /\ Head(s) \in Events
        /\ \A q \in ParamIndex : After(s, q, values[q]) = After(Tail(s), q, x(q))
    BY <2>1, <2>2, TailApplies
  <2>4. values' \in [ParamIndex -> Int] /\ \A q \in ParamIndex : values'[q] = x(q)
    BY <2>1, <2>2, <2>3 DEF Events
  <2>5. engine'.events = Tail(s) /\ engine'.busy = TRUE /\ engine' \in [busy : BOOLEAN, events : Seq(Events)]
    BY <2>1, <2>2, <2>3 DEF OnePerParam
  <2>6. SetsArrive'
    BY <2>1, <2>3, <2>4, <2>5 DEF ParamInv, SetsArrive, Constrained, Taken
  <2> QED
    BY <2>1, <2>3, <2>4, <2>5, <2>6 DEF ParamInv, Taken
<1>6. CASE RenderDone
  <2>1. engine.events = <<>> /\ engine' = [busy |-> FALSE, events |-> <<>>] /\ UNCHANGED <<t0events, setter, values, sent>>
    BY <1>6 DEF RenderDone, NotRendering
  <2> QED
    BY <1>b, <2>1 DEF ParamInv, SetsArrive, Taken, Constrained
<1>7. ASSUME UNCHANGED <<t0events, setter, engine, values, sent>> PROVE ParamInv'
  BY <1>7 DEF ParamInv, SetsArrive, Taken, Constrained
<1>8. ASSUME NEW p \in ParamIndex, access_properties(p) \/ ReleaseProperty(p) \/ FetchValue(p) PROVE ParamInv'
  BY <1>7, <1>8 DEF access_properties, ReleaseProperty, FetchValue
<1>9. CASE ParamDispatch \/ UNCHANGED paramVars
  BY <1>7, <1>9 DEF ParamDispatch, paramVars
<1> QED
  BY <1>1, <1>2, <1>3, <1>4, <1>5, <1>6, <1>8, <1>9 DEF ParamNext

-----------------------------------------------------------------------------
(* FrameRingBuffer *)

RingOK(r) ==
  /\ r = [size |-> r.size, buf |-> r.buf, rpos |-> r.rpos, wpos |-> r.wpos, rn |-> r.rn, wn |-> r.wn]
  /\ r.size \in Nat \ {0} /\ r.buf = [p \in 0..r.size-1 |-> r.buf[p]]
  /\ r.rpos \in 0..r.size-1 /\ r.wpos \in 0..r.size-1
  /\ r.rn \in {r.rpos, r.rpos + r.size}
  /\ r.wn = (r.rn + get_readable_frames(r)) % (2 * r.size)
  /\ InOrder(r)

\* The producer has copied n frames that it has yet to publish.
Copied(r, n) ==
  \A i \in 0..n-1 : r.buf[(r.wpos + i) % r.size] = (r.wn + i) % (2 * r.size)

Wrapped(x, s) == IF x < s THEN x ELSE x - s

\* A ring's positions, numbers and sizes.
Positions(r, s, rp, wp, rn, wn, m, h) ==
  /\ s = r.size /\ rp = r.rpos /\ wp = r.wpos /\ rn = r.rn /\ wn = r.wn
  /\ m = get_readable_frames(r) /\ h = get_writable_frames(r)
  /\ rp < s /\ wp < s /\ rn \in {rp, rp + s} /\ wn \in {wp, wp + s}
  /\ m < s /\ h = s - 1 - m
  /\ wp = Wrapped(rp + m, s) /\ wn = Wrapped(rn + m, 2 * s)

LEMMA RingPositions ==
  ASSUME NEW r, RingOK(r)
  PROVE  \E s \in Nat \ {0} : \E rp, wp, rn, wn, m, h \in Nat : Positions(r, s, rp, wp, rn, wn, m, h)
<1>1. PICK s \in Nat \ {0} : s = r.size
  BY DEF RingOK
<1>2. PICK rp \in Nat, wp \in Nat, rn \in Nat :
        rp = r.rpos /\ wp = r.wpos /\ rn = r.rn /\ rp < s /\ wp < s /\ rn \in {rp, rp + s}
  BY <1>1 DEF RingOK
<1>3. PICK m \in Nat, h \in Nat :
        m = get_readable_frames(r) /\ h = get_writable_frames(r) /\ m < s /\ h = s - 1 - m
        /\ wp = Wrapped(rp + m, s)
  <2>1. (IF wp < rp THEN wp + s ELSE wp) - rp \in Nat /\ (IF rp <= wp THEN rp + s ELSE rp) - wp - 1 \in Nat
    BY <1>2
  <2>2. get_readable_frames(r) = (IF wp < rp THEN wp + s ELSE wp) - rp
        /\ get_writable_frames(r) = (IF rp <= wp THEN rp + s ELSE rp) - wp - 1
    BY <1>1, <1>2 DEF get_readable_frames, get_writable_frames
  <2>3. PICK m \in Nat, h \in Nat : m = (IF wp < rp THEN wp + s ELSE wp) - rp
                                    /\ h = (IF rp <= wp THEN rp + s ELSE rp) - wp - 1
    BY <2>1
  <2>4. m < s /\ h = s - 1 - m /\ wp = Wrapped(rp + m, s)
    BY <1>2, <2>3 DEF Wrapped
  <2> QED
    BY <2>2, <2>3, <2>4
<1>4. r.wn = (rn + m) % (2 * s)
  BY <1>1, <1>2, <1>3 DEF RingOK
<1>5. (rn + m) % (2 * s) = Wrapped(rn + m, 2 * s)
  <2>1. rn + m \in 0..2*(2*s)-1 /\ 2 * s \in Nat \ {0}
    BY <1>2, <1>3
  <2> QED
    BY <2>1, ModWrap DEF Wrapped
<1>6. Wrapped(rn + m, 2 * s) \in Nat /\ Wrapped(rn + m, 2 * s) \in {wp, wp + s}
  BY <1>2, <1>3 DEF Wrapped
<1>7. Positions(r, s, rp, wp, rn, r.wn, m, h)
  BY <1>1, <1>2, <1>3, <1>4, <1>5, <1>6 DEF Positions
<1> QED
  BY <1>4, <1>5, <1>6, <1>7

LEMMA Wraps ==
  ASSUME NEW s \in Nat \ {0}, NEW x \in Nat, x < 2 * s
  PROVE  x % s = Wrapped(x, s) /\ Wrapped(x, s) \in Nat /\ Wrapped(x, s) < s
<1>1. x \in 0..2*s-1
  OBVIOUS
<1>2. Wrapped(x, s) \in Nat /\ Wrapped(x, s) < s
  BY DEF Wrapped
<1> QED
  BY <1>1, <1>2, ModWrap DEF Wrapped

\* Producer and consumer never access the same slot.
LEMMA SlotsDisjoint ==
  ASSUME NEW r, RingOK(r), NEW n \in Nat, n <= get_writable_frames(r),
         NEW k \in Nat, k <= get_readable_frames(r)
  PROVE  SlotsFrom(r, r.wpos, n) \cap SlotsFrom(r, r.rpos, k) = {}
<1>1. PICK s \in Nat \ {0}, rp \in Nat, wp \in Nat, rn \in Nat, wn \in Nat, m \in Nat, h \in Nat :
        Positions(r, s, rp, wp, rn, wn, m, h)
  BY RingPositions
<1>2. /\ s = r.size /\ rp = r.rpos /\ wp = r.wpos /\ n <= h /\ k <= m
      /\ rp < s /\ wp < s /\ m < s /\ h = s - 1 - m /\ wp = Wrapped(rp + m, s)
  BY <1>1 DEF Positions
<1> SUFFICES ASSUME NEW i \in 0..n-1, NEW j \in 0..k-1 PROVE (wp + i) % s # (rp + j) % s
  BY <1>2 DEF SlotsFrom
<1>3. i \in Nat /\ j \in Nat /\ i < n /\ j < k /\ i < s /\ j < s
  BY <1>2
<1>a. wp + i \in Nat /\ wp + i < 2 * s /\ rp + j \in Nat /\ rp + j < 2 * s
  BY <1>2, <1>3
<1>4. (wp + i) % s = Wrapped(wp + i, s) /\ (rp + j) % s = Wrapped(rp + j, s)
  BY <1>a, Wraps
<1>5. Wrapped(wp + i, s) # Wrapped(rp + j, s)
  BY <1>2, <1>3 DEF Wrapped
<1> QED
  BY <1>4, <1>5

LEMMA CopyInKeeps ==
  ASSUME NEW r, RingOK(r), NEW n \in Nat, n <= get_writable_frames(r)
  PROVE  /\ RingOK(CopyIn(r, n)) /\ Copied(CopyIn(r, n), n) /\ CopyIn(r, n).size = r.size
         /\ get_readable_frames(CopyIn(r, n)) = get_readable_frames(r)
         /\ get_writable_frames(CopyIn(r, n)) = get_writable_frames(r)
<1> DEFINE c == CopyIn(r, n)
           B(p) == IF p \in SlotsFrom(r, r.wpos, n)
                   THEN (r.wn + ((p + r.size - r.wpos) % r.size)) % (2 * r.size)
                   ELSE r.buf[p]
<1>1. PICK s \in Nat \ {0}, rp \in Nat, wp \in Nat, rn \in Nat, wn \in Nat, m \in Nat, h \in Nat :
        Positions(r, s, rp, wp, rn, wn, m, h)
  BY RingPositions
<1>2. /\ s = r.size /\ rp = r.rpos /\ wp = r.wpos /\ rn = r.rn /\ wn = r.wn /\ n <= h
      /\ m = get_readable_frames(r) /\ h = get_writable_frames(r)
      /\ rp < s /\ wp < s /\ m < s /\ h = s - 1 - m /\ wp = Wrapped(rp + m, s)
  BY <1>1 DEF Positions
<1>a. PICK b : b = r.buf
  OBVIOUS
<1>b. [r EXCEPT !.buf = [p \in 0..s-1 |-> B(p)]]
        = [size |-> s, buf |-> [p \in 0..s-1 |-> B(p)], rpos |-> rp, wpos |-> wp, rn |-> rn, wn |-> wn]
  <2>1. r \in [size : {s}, buf : {b}, rpos : {rp}, wpos : {wp}, rn : {rn}, wn : {wn}]
    BY <1>2, <1>a DEF RingOK
  <2> HIDE DEF B
  <2> QED
    BY <2>1
<1>3. DOMAIN r.buf = 0..s-1
  BY <1>2 DEF RingOK
<1>4. c = [size |-> s, buf |-> [p \in 0..s-1 |-> B(p)], rpos |-> rp, wpos |-> wp, rn |-> rn, wn |-> wn]
  BY <1>b, <1>3 DEF CopyIn
<1>5. /\ c.size = s /\ c.rpos = rp /\ c.wpos = wp /\ c.rn = rn /\ c.wn = wn
      /\ c.buf = [p \in 0..s-1 |-> B(p)]
      /\ c = [size |-> c.size, buf |-> c.buf, rpos |-> c.rpos, wpos |-> c.wpos, rn |-> c.rn, wn |-> c.wn]
  BY <1>4
<1> HIDE DEF c
<1>6. get_readable_frames(c) = get_readable_frames(r) /\ get_writable_frames(c) = get_writable_frames(r)
  BY <1>2, <1>5 DEF get_readable_frames, get_writable_frames
<1>7. ASSUME NEW i \in 0..n-1 PROVE c.buf[(wp + i) % s] = (wn + i) % (2 * s)
  <2>1. i \in Nat /\ i < s
    BY <1>2
  <2>a. wp + i \in Nat /\ wp + i < 2 * s
    BY <1>2, <2>1
  <2>2. PICK p \in Nat : p = (wp + i) % s /\ p < s /\ p = Wrapped(wp + i, s)
    BY <2>a, Wraps
  <2>3. p \in SlotsFrom(r, r.wpos, n)
    BY <1>2, <2>2 DEF SlotsFrom
  <2>4. (p + s - wp) % s = i
    <3>1. p + s - wp \in 0..2*s-1
      BY <1>2, <2>2
    <3>2. (p + s - wp) % s = Wrapped(p + s - wp, s)
      BY <3>1, ModWrap DEF Wrapped
    <3>3. Wrapped(p + s - wp, s) = i
      BY <1>2, <2>1, <2>2 DEF Wrapped
    <3> QED
      BY <3>2, <3>3
  <2>5. B(p) = (wn + ((p + s - wp) % s)) % (2 * s)
    BY <1>2, <2>3
  <2>6. c.buf[p] = B(p)
    <3> HIDE DEF B
    <3> QED
      BY <1>5, <2>2
  <2> QED
    BY <2>2, <2>4, <2>5, <2>6
<1>8. Copied(c, n)
  BY <1>5, <1>7 DEF Copied
<1>9. ASSUME NEW i \in 0..m-1 PROVE c.buf[(rp + i) % s] = r.buf[(rp + i) % s]
  <2>1. i \in Nat /\ i < s
    BY <1>2
  <2>2. (rp + i) % s \in 0..s-1
    <3>1. rp + i \in Nat /\ rp + i < 2 * s
      BY <1>2, <2>1
    <3> QED
      BY <3>1, Wraps
  <2>3. (rp + i) % s \in SlotsFrom(r, r.rpos, m)
    BY <1>2 DEF SlotsFrom
  <2>4. SlotsFrom(r, r.wpos, n) \cap SlotsFrom(r, r.rpos, m) = {}
    <3>1. n <= get_writable_frames(r) /\ m <= get_readable_frames(r)
      BY <1>2
    <3> QED
      BY <3>1, SlotsDisjoint
  <2> QED
    BY <1>5, <2>2, <2>3, <2>4
<1>10. InOrder(c)
  <2> SUFFICES ASSUME NEW i \in 0..m-1 PROVE c.buf[(rp + i) % s] = (rn + i) % (2 * s)
    BY <1>2, <1>5, <1>6 DEF InOrder
  <2>1. r.buf[(rp + i) % s] = (rn + i) % (2 * s)
    BY <1>2 DEF RingOK, InOrder
  <2> QED
    BY <1>9, <2>1
<1>11. c.buf = [p \in 0..c.size-1 |-> c.buf[p]]
  BY <1>5
<1>12. /\ c.wn = (c.rn + get_readable_frames(c)) % (2 * c.size)
       /\ c.size \in Nat \ {0} /\ c.rpos \in 0..c.size-1 /\ c.wpos \in 0..c.size-1
       /\ c.rn \in {c.rpos, c.rpos + c.size}
  BY <1>2, <1>5, <1>6 DEF RingOK
<1>13. RingOK(c)
  BY <1>5, <1>10, <1>11, <1>12 DEF RingOK
<1> QED
  BY <1>2, <1>5, <1>6, <1>8, <1>13 DEF c

LEMMA WrittenExtends ==
  ASSUME NEW r, RingOK(r), NEW n \in Nat, n <= get_writable_frames(r), Copied(r, n)
  PROVE  /\ RingOK(Written(r, n)) /\ Written(r, n).size = r.size
         /\ get_readable_frames(Written(r, n)) = get_readable_frames(r) + n
         /\ get_writable_frames(Written(r, n)) = get_writable_frames(r) - n
<1> DEFINE c == Written(r, n)
<1>1. PICK s \in Nat \ {0}, rp \in Nat, wp \in Nat, rn \in Nat, wn \in Nat, m \in Nat, h \in Nat :
        Positions(r, s, rp, wp, rn, wn, m, h)
  BY RingPositions
<1>2. /\ s = r.size /\ rp = r.rpos /\ wp = r.wpos /\ rn = r.rn /\ wn = r.wn /\ n <= h
      /\ m = get_readable_frames(r) /\ h = get_writable_frames(r)
      /\ rp < s /\ wp < s /\ rn \in {rp, rp + s} /\ wn \in {wp, wp + s}
      /\ m < s /\ h = s - 1 - m /\ wp = Wrapped(rp + m, s) /\ wn = Wrapped(rn + m, 2 * s)
  BY <1>1 DEF Positions
<1>3. n < s /\ m + n < s /\ rn < 2 * s /\ wn < 2 * s
  BY <1>2
<1>4. PICK wp1 \in Nat, wn1 \in Nat : wp1 = (wp + n) % s /\ wp1 = Wrapped(wp + n, s) /\ wp1 < s
                                     /\ wn1 = (wn + n) % (2 * s) /\ wn1 = Wrapped(wn + n, 2 * s)
  <2>a. wp + n \in Nat /\ wp + n < 2 * s /\ wn + n \in Nat /\ wn + n < 2 * (2 * s) /\ 2 * s \in Nat \ {0}
    BY <1>2, <1>3
  <2>1. (wp + n) % s = Wrapped(wp + n, s) /\ (wn + n) % (2 * s) = Wrapped(wn + n, 2 * s)
    BY <2>a, Wraps
  <2>2. Wrapped(wp + n, s) \in Nat /\ Wrapped(wp + n, s) < s /\ Wrapped(wn + n, 2 * s) \in Nat
    BY <1>2, <1>3 DEF Wrapped
  <2> QED
    BY <2>1, <2>2
<1>5. /\ r = [size |-> s, buf |-> r.buf, rpos |-> rp, wpos |-> wp, rn |-> rn, wn |-> wn]
      /\ r.buf = [p \in 0..s-1 |-> r.buf[p]]
  BY <1>2 DEF RingOK
<1>a. PICK b : b = r.buf
  OBVIOUS
<1>b. r \in [size : {s}, buf : {b}, rpos : {rp}, wpos : {wp}, rn : {rn}, wn : {wn}]
  BY <1>5, <1>a
<1>6. c = [size |-> s, buf |-> r.buf, rpos |-> rp, wpos |-> wp1, rn |-> rn, wn |-> wn1]
  <2>1. c = [r EXCEPT !.wpos = wp1, !.wn = wn1]
    BY <1>2, <1>4 DEF Written
  <2> HIDE DEF c
  <2> QED
    BY <1>a, <1>b, <2>1
<1>7. /\ c.size = s /\ c.rpos = rp /\ c.wpos = wp1 /\ c.rn = rn /\ c.wn = wn1 /\ c.buf = r.buf
      /\ c = [size |-> c.size, buf |-> c.buf, rpos |-> c.rpos, wpos |-> c.wpos, rn |-> c.rn, wn |-> c.wn]
  BY <1>6
<1> HIDE DEF c
<1>8. get_readable_frames(c) = m + n /\ get_writable_frames(c) = h - n
  <2>a. rp < s /\ m < s /\ m + n < s /\ wp = Wrapped(rp + m, s) /\ wp1 = Wrapped(wp + n, s)
    BY <1>2, <1>3, <1>4
  <2>1. (IF wp1 < rp THEN wp1 + s ELSE wp1) - rp = m + n
    BY <2>a DEF Wrapped
  <2>2. (IF rp <= wp1 THEN rp + s ELSE rp) - wp1 - 1 = s - 1 - (m + n)
    BY <2>a DEF Wrapped
  <2>3. s - 1 - (m + n) = h - n
    BY <1>2
  <2> QED
    BY <1>7, <2>1, <2>2, <2>3 DEF get_readable_frames, get_writable_frames
<1>9. InOrder(c)
  <2> SUFFICES ASSUME NEW i \in 0..m+n-1 PROVE r.buf[(rp + i) % s] = (rn + i) % (2 * s)
    BY <1>7, <1>8 DEF InOrder
  <2>0. i \in Nat /\ i < s /\ i < m + n
    BY <1>3
  <2>1. CASE i < m
    <3>1. i \in 0..m-1
      BY <2>0, <2>1
    <3> QED
      BY <1>2, <3>1 DEF RingOK, InOrder
  <2>2. CASE i >= m
    <3>0. PICK k \in Nat : k = i - m
      BY <2>0, <2>2
    <3>1. k \in 0..n-1 /\ k < s
      BY <2>0, <2>2, <3>0
    <3>2. r.buf[(wp + k) % s] = (wn + k) % (2 * s)
      BY <1>2, <3>1 DEF Copied
    <3>3. (wp + k) % s = Wrapped(wp + k, s) /\ (rp + i) % s = Wrapped(rp + i, s)
          /\ (wn + k) % (2 * s) = Wrapped(wn + k, 2 * s) /\ (rn + i) % (2 * s) = Wrapped(rn + i, 2 * s)
      <4>1. /\ wp + k \in Nat /\ wp + k < 2 * s /\ rp + i \in Nat /\ rp + i < 2 * s
            /\ wn + k \in Nat /\ wn + k < 2 * (2 * s) /\ rn + i \in Nat /\ rn + i < 2 * (2 * s)
            /\ 2 * s \in Nat \ {0}
        BY <1>2, <1>3, <2>0, <3>1
      <4> QED
        BY <4>1, Wraps
    <3>4. Wrapped(wp + k, s) = Wrapped(rp + i, s)
      BY <1>2, <1>3, <2>0, <3>0, <3>1 DEF Wrapped
    <3>5. Wrapped(wn + k, 2 * s) = Wrapped(rn + i, 2 * s)
      BY <1>2, <1>3, <2>0, <3>0, <3>1 DEF Wrapped
    <3> QED
      BY <3>2, <3>3, <3>4, <3>5
  <2> QED
    BY <2>0, <2>1, <2>2
<1>10. c.wn = (c.rn + get_readable_frames(c)) % (2 * c.size)
  <2>1. (rn + (m + n)) % (2 * s) = Wrapped(rn + (m + n), 2 * s)
    <3>1. rn + (m + n) \in Nat /\ rn + (m + n) < 2 * (2 * s) /\ 2 * s \in Nat \ {0}
      BY <1>3
    <3> QED
      BY <3>1, Wraps
  <2>2. wn1 = Wrapped(rn + (m + n), 2 * s)
    BY <1>2, <1>3, <1>4 DEF Wrapped
  <2> QED
    BY <1>7, <1>8, <2>1, <2>2
<1>11. c.buf = [p \in 0..c.size-1 |-> c.buf[p]]
  BY <1>5, <1>7
<1>12. c.size \in Nat \ {0} /\ c.rpos \in 0..c.size-1 /\ c.wpos \in 0..c.size-1
       /\ c.rn \in {c.rpos, c.rpos + c.size}
  BY <1>2, <1>4, <1>7
<1>13. RingOK(c)
  BY <1>7, <1>9, <1>10, <1>11, <1>12 DEF RingOK
<1> QED
  BY <1>2, <1>7, <1>8, <1>13 DEF c

LEMMA ReadAdvances ==
  ASSUME NEW r, RingOK(r), NEW n \in Nat, n <= get_readable_frames(r)
  PROVE  /\ RingOK(Read(r, n)) /\ Read(r, n).size = r.size
         /\ get_readable_frames(Read(r, n)) = get_readable_frames(r) - n
         /\ get_writable_frames(Read(r, n)) = get_writable_frames(r) + n
         /\ \A k : Copied(r, k) => Copied(Read(r, n), k)
<1> DEFINE c == Read(r, n)
<1>1. PICK s \in Nat \ {0}, rp \in Nat, wp \in Nat, rn \in Nat, wn \in Nat, m \in Nat, h \in Nat :
        Positions(r, s, rp, wp, rn, wn, m, h)
  BY RingPositions
<1>2. /\ s = r.size /\ rp = r.rpos /\ wp = r.wpos /\ rn = r.rn /\ wn = r.wn /\ n <= m
      /\ m = get_readable_frames(r) /\ h = get_writable_frames(r)
      /\ rp < s /\ wp < s /\ rn \in {rp, rp + s} /\ wn \in {wp, wp + s}
      /\ m < s /\ h = s - 1 - m /\ wp = Wrapped(rp + m, s) /\ wn = Wrapped(rn + m, 2 * s)
  BY <1>1 DEF Positions
<1>3. n < s /\ rn < 2 * s /\ wn < 2 * s
  BY <1>2
<1>4. PICK rp1 \in Nat, rn1 \in Nat : rp1 = (rp + n) % s /\ rp1 = Wrapped(rp + n, s) /\ rp1 < s
                                     /\ rn1 = (rn + n) % (2 * s) /\ rn1 = Wrapped(rn + n, 2 * s)
                                     /\ rn1 \in {rp1, rp1 + s} /\ rn1 < 2 * s
  <2>a. rp + n \in Nat /\ rp + n < 2 * s /\ rn + n \in Nat /\ rn + n < 2 * (2 * s) /\ 2 * s \in Nat \ {0}
    BY <1>2, <1>3
  <2>1. (rp + n) % s = Wrapped(rp + n, s) /\ (rn + n) % (2 * s) = Wrapped(rn + n, 2 * s)
    BY <2>a, Wraps
  <2>2. Wrapped(rp + n, s) \in Nat /\ Wrapped(rp + n, s) < s /\ Wrapped(rn + n, 2 * s) \in Nat
        /\ Wrapped(rn + n, 2 * s) \in {Wrapped(rp + n, s), Wrapped(rp + n, s) + s}
        /\ Wrapped(rn + n, 2 * s) < 2 * s
    BY <1>2, <1>3 DEF Wrapped
  <2> QED
    BY <2>1, <2>2
<1>5. /\ r = [size |-> s, buf |-> r.buf, rpos |-> rp, wpos |-> wp, rn |-> rn, wn |-> wn]
      /\ r.buf = [p \in 0..s-1 |-> r.buf[p]]
  BY <1>2 DEF RingOK
<1>a. PICK b : b = r.buf
  OBVIOUS
<1>b. r \in [size : {s}, buf : {b}, rpos : {rp}, wpos : {wp}, rn : {rn}, wn : {wn}]
  BY <1>5, <1>a
<1>6. c = [size |-> s, buf |-> r.buf, rpos |-> rp1, wpos |-> wp, rn |-> rn1, wn |-> wn]
  <2>1. c = [r EXCEPT !.rpos = rp1, !.rn = rn1]
    BY <1>2, <1>4 DEF Read
  <2> HIDE DEF c
  <2> QED
    BY <1>a, <1>b, <2>1
<1>7. /\ c.size = s /\ c.rpos = rp1 /\ c.wpos = wp /\ c.rn = rn1 /\ c.wn = wn /\ c.buf = r.buf
      /\ c = [size |-> c.size, buf |-> c.buf, rpos |-> c.rpos, wpos |-> c.wpos, rn |-> c.rn, wn |-> c.wn]
  BY <1>6
<1> HIDE DEF c
<1>8. get_readable_frames(c) = m - n /\ get_writable_frames(c) = h + n
  <2>a. rp < s /\ m < s /\ n <= m /\ wp = Wrapped(rp + m, s) /\ rp1 = Wrapped(rp + n, s)
    BY <1>2, <1>3, <1>4
  <2>1. (IF wp < rp1 THEN wp + s ELSE wp) - rp1 = m - n
    BY <2>a DEF Wrapped
  <2>2. (IF rp1 <= wp THEN rp1 + s ELSE rp1) - wp - 1 = s - 1 - (m - n)
    BY <2>a DEF Wrapped
  <2>3. s - 1 - (m - n) = h + n
    BY <1>2
  <2> QED
    BY <1>7, <2>1, <2>2, <2>3 DEF get_readable_frames, get_writable_frames
<1>9. InOrder(c)
  <2> SUFFICES ASSUME NEW i \in 0..m-n-1 PROVE r.buf[(rp1 + i) % s] = (rn1 + i) % (2 * s)
    BY <1>7, <1>8 DEF InOrder
  <2>0. PICK k \in Nat : k = n + i
    OBVIOUS
  <2>1. k \in 0..m-1 /\ k < s /\ i \in Nat /\ i < s
    BY <1>2, <2>0
  <2>2. r.buf[(rp + k) % s] = (rn + k) % (2 * s)
    BY <1>2, <2>1 DEF RingOK, InOrder
  <2>3. (rp + k) % s = Wrapped(rp + k, s) /\ (rp1 + i) % s = Wrapped(rp1 + i, s)
        /\ (rn + k) % (2 * s) = Wrapped(rn + k, 2 * s) /\ (rn1 + i) % (2 * s) = Wrapped(rn1 + i, 2 * s)
    <3>1. /\ rp + k \in Nat /\ rp + k < 2 * s /\ rp1 + i \in Nat /\ rp1 + i < 2 * s
          /\ rn + k \in Nat /\ rn + k < 2 * (2 * s) /\ rn1 + i \in Nat /\ rn1 + i < 2 * (2 * s)
          /\ 2 * s \in Nat \ {0}
      BY <1>2, <1>3, <1>4, <2>1
    <3> QED
      BY <3>1, Wraps
  <2>4. Wrapped(rp + k, s) = Wrapped(rp1 + i, s)
    BY <1>2, <1>3, <1>4, <2>0, <2>1 DEF Wrapped
  <2>5. Wrapped(rn + k, 2 * s) = Wrapped(rn1 + i, 2 * s)
    BY <1>2, <1>3, <1>4, <2>0, <2>1 DEF Wrapped
  <2> QED
    BY <2>2, <2>3, <2>4, <2>5
<1>10. c.wn = (c.rn + get_readable_frames(c)) % (2 * c.size)
  <2>1. m - n \in Nat /\ m - n < s
    BY <1>2
  <2>2. (rn1 + (m - n)) % (2 * s) = Wrapped(rn1 + (m - n), 2 * s)
    <3>1. rn1 + (m - n) \in Nat /\ rn1 + (m - n) < 2 * (2 * s) /\ 2 * s \in Nat \ {0}
      BY <1>4, <2>1
    <3> QED
      BY <3>1, Wraps
  <2>3. wn = Wrapped(rn1 + (m - n), 2 * s)
    BY <1>2, <1>3, <1>4 DEF Wrapped
  <2> QED
    BY <1>7, <1>8, <2>2, <2>3
<1>11. c.buf = [p \in 0..c.size-1 |-> c.buf[p]]
  BY <1>5, <1>7
<1>12. c.size \in Nat \ {0} /\ c.rpos \in 0..c.size-1 /\ c.wpos \in 0..c.size-1
       /\ c.rn \in {c.rpos, c.rpos + c.size}
  BY <1>2, <1>4, <1>7
<1>13. RingOK(c)
  BY <1>7, <1>9, <1>10, <1>11, <1>12 DEF RingOK
<1>14. \A k : Copied(r, k) => Copied(c, k)
  BY <1>2, <1>7 DEF Copied
<1> QED
  BY <1>2, <1>7, <1>8, <1>13, <1>14 DEF c

LEMMA ResizedEmpty ==
  ASSUME NEW n \in Nat
  PROVE  /\ RingOK(Resized(n)) /\ Resized(n).size = n + 1
         /\ get_readable_frames(Resized(n)) = 0 /\ get_writable_frames(Resized(n)) = n
<1> DEFINE r == Resized(n)
<1>1. /\ r.size = n + 1 /\ r.buf = [p \in 0..n |-> -1] /\ r.rpos = 0 /\ r.wpos = 0 /\ r.rn = 0 /\ r.wn = 0
      /\ r = [size |-> r.size, buf |-> r.buf, rpos |-> r.rpos, wpos |-> r.wpos, rn |-> r.rn, wn |-> r.wn]
  BY DEF Resized
<1> HIDE DEF r
<1>2. get_readable_frames(r) = 0 /\ get_writable_frames(r) = n
  BY <1>1 DEF get_readable_frames, get_writable_frames
<1>3. InOrder(r)
  BY <1>2 DEF InOrder
<1>4. (r.rn + 0) % (2 * r.size) = 0
  <2>1. 0 \in 0..2*(2*(n+1))-1 /\ 2 * (n + 1) \in Nat \ {0} /\ 0 < 2 * (n + 1)
    OBVIOUS
  <2>2. 0 % (2 * (n + 1)) = 0
    BY <2>1, ModWrap
  <2> QED
    BY <1>1, <2>2
<1>5. r.buf = [p \in 0..r.size-1 |-> r.buf[p]] /\ r.size \in Nat \ {0}
      /\ r.rpos \in 0..r.size-1 /\ r.wpos \in 0..r.size-1
  BY <1>1
<1>6. RingOK(r)
  BY <1>1, <1>2, <1>3, <1>4, <1>5 DEF RingOK
<1> QED
  BY <1>1, <1>2, <1>6 DEF r

-----------------------------------------------------------------------------
(* JackDriver *)

LEMMA MinTwo ==
  ASSUME NEW a \in Nat, NEW b \in Nat
  PROVE  Min({a, b}) = IF a <= b THEN a ELSE b
<1> DEFINE m == IF a <= b THEN a ELSE b
<1>1. m \in {a, b} /\ \A y \in {a, b} : m <= y
  OBVIOUS
<1>2. ASSUME NEW x \in {a, b}, \A y \in {a, b} : x <= y PROVE x = m
  BY <1>2
<1> HIDE DEF m
<1>3. (CHOOSE x \in {a, b} : \A y \in {a, b} : x <= y) = m
  BY <1>1, <1>2
<1> QED
  BY <1>3 DEF Min, m

LEMMA MaxTwo ==
  ASSUME NEW a \in Nat, NEW b \in Nat
  PROVE  Max({a, b}) = IF a >= b THEN a ELSE b
<1> DEFINE m == IF a >= b THEN a ELSE b
<1>1. m \in {a, b} /\ \A y \in {a, b} : m >= y
  OBVIOUS
<1>2. ASSUME NEW x \in {a, b}, \A y \in {a, b} : x >= y PROVE x = m
  BY <1>2
<1> HIDE DEF m
<1>3. (CHOOSE x \in {a, b} : \A y \in {a, b} : x >= y) = m
  BY <1>1, <1>2
<1> QED
  BY <1>3 DEF Max, m

LEMMA BufferFrames ==
  ASSUME NEW period \in Periods
  PROVE  buffer_frames(period) \in Nat /\ buffer_frames(period) >= 2 * period + BlockLength
<1>1. 2 * period + BlockLength \in Nat /\ UserFrames \in Nat
  BY PeriodsAssumption, BlockLengthAssumption, UserFramesAssumption
<1> QED
  BY <1>1, MaxTwo DEF buffer_frames

JackTypeOK ==
  /\ jserver \in [up : BOOLEAN, period : Periods]
  /\ jclient \in [open : BOOLEAN, period : Nat, active : BOOLEAN, xruns : BOOLEAN]
  /\ jcb \in [pc : {"idle", "write", "written", "read", "reading"}, n : Nat, did : Nat]
  /\ jeng \in [pc : {"idle", "read", "reading", "write", "written"}, did : Nat]
  /\ RingOK(jin) /\ RingOK(jout)

JackSizes ==
  /\ jclient.open => /\ jclient.period \in Periods
                     /\ jin.size = buffer_frames(jclient.period) + 1
                     /\ jout.size = buffer_frames(jclient.period) + 1
  /\ ~jclient.open => jcb.pc = "idle" /\ jeng.pc = "idle"

\* What each thread has checked and not used yet is still there.
CallbackInv ==
  /\ jcb.pc = "write" => CallbackFits(jcb.n)
  /\ jcb.pc = "written" => jcb.did = jcb.n /\ CallbackFits(jcb.n) /\ Copied(jin, jcb.n)
  /\ jcb.pc \in {"read", "reading"} => get_readable_frames(jout) >= jcb.n
  /\ jcb.pc = "reading" => jcb.did = jcb.n
JackEngineInv ==
  /\ jeng.pc # "idle" => get_writable_frames(jout) >= BlockLength
  /\ jeng.pc \in {"read", "reading"} => get_readable_frames(jin) >= BlockLength
  /\ jeng.pc \in {"reading", "written"} => jeng.did = BlockLength
  /\ jeng.pc = "written" => Copied(jout, BlockLength)

JackInv == JackTypeOK /\ JackSizes /\ CallbackInv /\ JackEngineInv /\ LatencyConstant

LEMMA RingNumbers ==
  ASSUME NEW r, RingOK(r)
  PROVE  /\ get_readable_frames(r) \in Nat /\ get_writable_frames(r) \in Nat
         /\ get_writable_frames(r) = r.size - 1 - get_readable_frames(r) /\ r.size \in Nat
<1>1. PICK s \in Nat \ {0}, rp \in Nat, wp \in Nat, rn \in Nat, wn \in Nat, m \in Nat, h \in Nat :
        Positions(r, s, rp, wp, rn, wn, m, h)
  BY RingPositions
<1> QED
  BY <1>1 DEF Positions

\* The JACK thread.
LEMMA CallbackStep == JackInv /\ process_callback => JackInv'
<1> SUFFICES ASSUME JackInv, process_callback PROVE JackInv'
  OBVIOUS
<1> USE DEF JackInv
<1> DEFINE ri == get_readable_frames(jin)  wi == get_writable_frames(jin)
           ro == get_readable_frames(jout)  wo == get_writable_frames(jout)
<1>1. ri \in Nat /\ wi \in Nat /\ ro \in Nat /\ wo \in Nat /\ jcb.n \in Nat /\ BlockLength \in Nat
  BY RingNumbers, BlockLengthAssumption DEF JackTypeOK
<1>2. CASE CallbackStarts
  <2>1. UNCHANGED <<jserver, jin, jout, jeng>> /\ jclient.open /\ jcb.pc = "idle"
        /\ jclient'.open = jclient.open /\ jclient'.period = jclient.period
        /\ jclient' \in [open : BOOLEAN, period : Nat, active : BOOLEAN, xruns : BOOLEAN]
    BY <1>2 DEF CallbackStarts, JackTypeOK
  <2>2. \/ jcb' = jcb
        \/ jcb' = [pc |-> "write", n |-> jserver.period, did |-> 0] /\ CallbackFits(jserver.period)
    BY <1>2 DEF CallbackStarts
  <2>3. jserver.period \in Nat
    BY PeriodsAssumption DEF JackTypeOK
  <2>4. JackTypeOK'
    BY <2>1, <2>2, <2>3 DEF JackTypeOK
  <2>5. JackSizes'
    BY <2>1 DEF JackSizes
  <2>6. CallbackInv'
    BY <2>1, <2>2 DEF CallbackInv, CallbackFits
  <2>7. JackEngineInv'
    BY <2>1 DEF JackEngineInv
  <2>8. LatencyConstant'
    BY <2>1, <2>2 DEF LatencyConstant, InEngine, InCallback
  <2> QED
    BY <2>4, <2>5, <2>6, <2>7, <2>8
<1>3. CASE CallbackWrites
  <2>1. jcb.pc = "write" /\ UNCHANGED <<jserver, jclient, jout, jeng>> /\ wi >= jcb.n /\ ro >= jcb.n
    BY <1>3 DEF CallbackWrites, CallbackInv, CallbackFits
  <2>2. Min({wi, jcb.n}) = jcb.n
    BY <1>1, <2>1, MinTwo
  <2>3. jin' = CopyIn(jin, jcb.n) /\ jcb' = [jcb EXCEPT !.pc = "written", !.did = jcb.n]
    BY <1>3, <2>2 DEF CallbackWrites
  <2>4. jcb' \in [pc : {"written"}, n : Nat, did : Nat] /\ jcb'.n = jcb.n /\ jcb'.did = jcb.n
    BY <2>3 DEF JackTypeOK
  <2>5. /\ RingOK(jin') /\ Copied(jin', jcb.n) /\ jin'.size = jin.size
        /\ get_readable_frames(jin') = ri /\ get_writable_frames(jin') = wi
    BY <1>1, <2>1, <2>3, CopyInKeeps DEF JackTypeOK
  <2>6. JackTypeOK'
    BY <2>1, <2>4, <2>5 DEF JackTypeOK
  <2>7. JackSizes'
    BY <2>1, <2>5 DEF JackSizes
  <2>8. CallbackInv'
    BY <2>1, <2>4, <2>5 DEF CallbackInv, CallbackFits
  <2>9. JackEngineInv'
    BY <2>1, <2>5 DEF JackEngineInv
  <2>10. LatencyConstant'
    BY <2>1, <2>4, <2>5 DEF LatencyConstant, InEngine, InCallback
  <2> QED
    BY <2>6, <2>7, <2>8, <2>9, <2>10
<1>4. CASE CallbackWritten
  <2>1. /\ jcb.pc = "written" /\ UNCHANGED <<jserver, jclient, jout, jeng>>
        /\ jcb.did = jcb.n /\ wi >= jcb.n /\ ro >= jcb.n /\ Copied(jin, jcb.n)
    BY <1>4 DEF CallbackWritten, CallbackInv, CallbackFits
  <2>2. jin' = Written(jin, jcb.n) /\ jcb' = [jcb EXCEPT !.pc = "read", !.did = 0]
    BY <1>4, <2>1 DEF CallbackWritten
  <2>3. jcb' \in [pc : {"read"}, n : Nat, did : Nat] /\ jcb'.n = jcb.n
    BY <2>2 DEF JackTypeOK
  <2>4. /\ RingOK(jin') /\ jin'.size = jin.size
        /\ get_readable_frames(jin') = ri + jcb.n /\ get_writable_frames(jin') = wi - jcb.n
    BY <1>1, <2>1, <2>2, WrittenExtends DEF JackTypeOK
  <2>5. JackTypeOK'
    BY <2>1, <2>3, <2>4 DEF JackTypeOK
  <2>6. JackSizes'
    BY <2>1, <2>4 DEF JackSizes
  <2>7. CallbackInv'
    BY <2>1, <2>3 DEF CallbackInv
  <2>8. JackEngineInv'
    BY <1>1, <2>1, <2>4 DEF JackEngineInv
  <2>9. LatencyConstant'
    BY <1>1, <2>1, <2>3, <2>4 DEF LatencyConstant, InEngine, InCallback
  <2> QED
    BY <2>5, <2>6, <2>7, <2>8, <2>9
<1>5. CASE CallbackReads
  <2>1. jcb.pc = "read" /\ UNCHANGED <<jserver, jclient, jin, jout, jeng>> /\ ro >= jcb.n
    BY <1>5 DEF CallbackReads, CallbackInv
  <2>2. Min({ro, jcb.n}) = jcb.n
    BY <1>1, <2>1, MinTwo
  <2>3. jcb' = [jcb EXCEPT !.pc = "reading", !.did = jcb.n]
    BY <1>5, <2>2 DEF CallbackReads
  <2>4. jcb' \in [pc : {"reading"}, n : Nat, did : Nat] /\ jcb'.n = jcb.n /\ jcb'.did = jcb.n
    BY <2>3 DEF JackTypeOK
  <2>5. JackTypeOK' /\ JackSizes' /\ CallbackInv'
    BY <2>1, <2>4 DEF JackTypeOK, JackSizes, CallbackInv
  <2>6. JackEngineInv' /\ LatencyConstant'
    BY <2>1, <2>4 DEF JackEngineInv, LatencyConstant, InEngine, InCallback
  <2> QED
    BY <2>5, <2>6
<1>6. CASE CallbackRead
  <2>1. /\ jcb.pc = "reading" /\ UNCHANGED <<jserver, jclient, jin, jeng>> /\ jcb.did = jcb.n /\ ro >= jcb.n
        /\ jcb' = [pc |-> "idle", n |-> 0, did |-> 0] /\ jout' = Read(jout, jcb.n)
    BY <1>6 DEF CallbackRead, CallbackInv, Idle
  <2>2. /\ RingOK(jout') /\ jout'.size = jout.size
        /\ get_readable_frames(jout') = ro - jcb.n /\ get_writable_frames(jout') = wo + jcb.n
        /\ Copied(jout, BlockLength) => Copied(jout', BlockLength)
    BY <1>1, <2>1, ReadAdvances DEF JackTypeOK
  <2>3. JackTypeOK' /\ JackSizes' /\ CallbackInv'
    BY <2>1, <2>2 DEF JackTypeOK, JackSizes, CallbackInv
  <2>4. JackEngineInv'
    BY <1>1, <2>1, <2>2 DEF JackEngineInv
  <2>5. LatencyConstant'
    BY <1>1, <2>1, <2>2 DEF LatencyConstant, InEngine, InCallback
  <2> QED
    BY <2>3, <2>4, <2>5
<1> QED
  BY <1>2, <1>3, <1>4, <1>5, <1>6 DEF process_callback

\* The engine thread.
LEMMA EngineStep == JackInv /\ (JackCheckIO \/ JackPcmWrite) => JackInv'
<1> SUFFICES ASSUME JackInv, JackCheckIO \/ JackPcmWrite PROVE JackInv'
  OBVIOUS
<1> USE DEF JackInv
<1> DEFINE ri == get_readable_frames(jin)  wi == get_writable_frames(jin)
           ro == get_readable_frames(jout)  wo == get_writable_frames(jout)
<1>1. ri \in Nat /\ wi \in Nat /\ ro \in Nat /\ wo \in Nat /\ jcb.n \in Nat /\ BlockLength \in Nat
  BY RingNumbers, BlockLengthAssumption DEF JackTypeOK
<1>2. CASE JackCheckIO
  <2>1. UNCHANGED <<jserver, jin, jout, jcb>> /\ jclient.open /\ jeng.pc = "idle"
        /\ jclient'.open = jclient.open /\ jclient'.period = jclient.period
        /\ jclient' \in [open : BOOLEAN, period : Nat, active : BOOLEAN, xruns : BOOLEAN]
    BY <1>2 DEF JackCheckIO, JackTypeOK
  <2>2. \/ jeng' = jeng
        \/ jeng' = [pc |-> "read", did |-> 0] /\ wo >= BlockLength /\ ri >= BlockLength
    <3>1. n_frames_avail = IF wo <= ri THEN wo ELSE ri
      BY <1>1, MinTwo DEF n_frames_avail
    <3> QED
      BY <1>1, <1>2, <3>1 DEF JackCheckIO
  <2>3. JackTypeOK' /\ JackSizes' /\ CallbackInv'
    BY <2>1, <2>2 DEF JackTypeOK, JackSizes, CallbackInv, CallbackFits
  <2>4. JackEngineInv' /\ LatencyConstant'
    BY <2>1, <2>2 DEF JackEngineInv, LatencyConstant, InEngine, InCallback
  <2> QED
    BY <2>3, <2>4
<1>3. CASE EngineReads
  <2>1. jeng.pc = "read" /\ UNCHANGED <<jserver, jclient, jin, jout, jcb>> /\ ri >= BlockLength
    BY <1>3 DEF EngineReads, JackEngineInv
  <2>2. Min({ri, BlockLength}) = BlockLength
    BY <1>1, <2>1, MinTwo
  <2>3. jeng' = [pc |-> "reading", did |-> BlockLength]
    BY <1>3, <2>2 DEF EngineReads
  <2>4. JackTypeOK' /\ JackSizes' /\ CallbackInv'
    BY <1>1, <2>1, <2>3 DEF JackTypeOK, JackSizes, CallbackInv, CallbackFits
  <2>5. JackEngineInv' /\ LatencyConstant'
    BY <2>1, <2>3 DEF JackEngineInv, LatencyConstant, InEngine, InCallback
  <2> QED
    BY <2>4, <2>5
<1>4. CASE EngineRead
  <2>1. /\ jeng.pc = "reading" /\ UNCHANGED <<jserver, jclient, jout, jcb>> /\ ri >= BlockLength
        /\ jin' = Read(jin, BlockLength) /\ jeng' = [pc |-> "write", did |-> 0]
    BY <1>4 DEF EngineRead, JackEngineInv
  <2>2. /\ RingOK(jin') /\ jin'.size = jin.size
        /\ get_readable_frames(jin') = ri - BlockLength /\ get_writable_frames(jin') = wi + BlockLength
        /\ Copied(jin, jcb.n) => Copied(jin', jcb.n)
    BY <1>1, <2>1, ReadAdvances DEF JackTypeOK
  <2>3. JackTypeOK' /\ JackSizes' /\ JackEngineInv'
    BY <2>1, <2>2 DEF JackTypeOK, JackSizes, JackEngineInv
  <2>4. CallbackInv'
    BY <1>1, <2>1, <2>2 DEF CallbackInv, CallbackFits
  <2>5. LatencyConstant'
    BY <1>1, <2>1, <2>2 DEF LatencyConstant, InEngine, InCallback
  <2> QED
    BY <2>3, <2>4, <2>5
<1>5. CASE EngineWrites
  <2>1. jeng.pc = "write" /\ UNCHANGED <<jserver, jclient, jin, jcb>> /\ wo >= BlockLength
    BY <1>5 DEF EngineWrites, JackEngineInv
  <2>2. Min({wo, BlockLength}) = BlockLength
    BY <1>1, <2>1, MinTwo
  <2>3. jout' = CopyIn(jout, BlockLength) /\ jeng' = [pc |-> "written", did |-> BlockLength]
    BY <1>5, <2>2 DEF EngineWrites
  <2>4. /\ RingOK(jout') /\ Copied(jout', BlockLength) /\ jout'.size = jout.size
        /\ get_readable_frames(jout') = ro /\ get_writable_frames(jout') = wo
    BY <1>1, <2>1, <2>3, CopyInKeeps DEF JackTypeOK
  <2>5. JackTypeOK' /\ JackSizes'
    BY <1>1, <2>1, <2>3, <2>4 DEF JackTypeOK, JackSizes
  <2>6. CallbackInv' /\ JackEngineInv'
    BY <2>1, <2>3, <2>4 DEF CallbackInv, CallbackFits, JackEngineInv
  <2>7. LatencyConstant'
    BY <2>1, <2>3, <2>4 DEF LatencyConstant, InEngine, InCallback
  <2> QED
    BY <2>5, <2>6, <2>7
<1>6. CASE EngineWritten
  <2>1. /\ jeng.pc = "written" /\ UNCHANGED <<jserver, jclient, jin, jcb>> /\ wo >= BlockLength
        /\ Copied(jout, BlockLength)
        /\ jout' = Written(jout, BlockLength) /\ jeng' = [pc |-> "idle", did |-> 0]
    BY <1>6 DEF EngineWritten, JackEngineInv, EngineIdle
  <2>2. /\ RingOK(jout') /\ jout'.size = jout.size
        /\ get_readable_frames(jout') = ro + BlockLength /\ get_writable_frames(jout') = wo - BlockLength
    BY <1>1, <2>1, WrittenExtends DEF JackTypeOK
  <2>3. JackTypeOK' /\ JackSizes' /\ JackEngineInv'
    BY <2>1, <2>2 DEF JackTypeOK, JackSizes, JackEngineInv
  <2>4. CallbackInv'
    BY <1>1, <2>1, <2>2 DEF CallbackInv, CallbackFits
  <2>5. LatencyConstant'
    BY <1>1, <2>1, <2>2 DEF LatencyConstant, InEngine, InCallback
  <2> QED
    BY <2>3, <2>4, <2>5
<1> QED
  BY <1>2, <1>3, <1>4, <1>5, <1>6 DEF JackPcmWrite

LEMMA ServerStep == JackInv /\ (JackShutdown \/ JackPeriod \/ UNCHANGED jvars) => JackInv'
<1> SUFFICES ASSUME JackInv, JackShutdown \/ JackPeriod \/ UNCHANGED jvars PROVE JackInv'
  OBVIOUS
<1>1. UNCHANGED <<jclient, jin, jout, jcb, jeng>> /\ jserver' \in [up : BOOLEAN, period : Periods]
  BY DEF JackShutdown, JackPeriod, jvars, JackInv, JackTypeOK
<1> QED
  BY <1>1 DEF JackInv, JackTypeOK, JackSizes, CallbackInv, CallbackFits, JackEngineInv, LatencyConstant,
    InEngine, InCallback

\* open(), and close() or the destructor.
LEMMA OpenStep ==
  ASSUME NEW period \in Periods, JackInv, jeng.pc = "idle", UNCHANGED <<jserver, jeng>>, JackOpened(period)
  PROVE  JackInv'
<1> DEFINE F == buffer_frames(period)
           ring == Resized(F)
           c == CopyIn(ring, F)
<1>1. F \in Nat /\ period \in Nat
  BY BufferFrames, PeriodsAssumption
<1>2. RingOK(ring) /\ ring.size = F + 1 /\ get_readable_frames(ring) = 0 /\ get_writable_frames(ring) = F
  BY <1>1, ResizedEmpty
<1>3. /\ jclient' = [open |-> TRUE, period |-> period, active |-> FALSE, xruns |-> FALSE]
      /\ jin' = ring /\ jout' = Written(c, F) /\ jcb' = [pc |-> "idle", n |-> 0, did |-> 0]
  BY DEF JackOpened, Closed, Idle
<1> HIDE DEF F, ring
<1>4. RingOK(c) /\ Copied(c, F) /\ c.size = F + 1 /\ get_readable_frames(c) = 0 /\ get_writable_frames(c) = F
  <2>1. F <= get_writable_frames(ring)
    BY <1>1, <1>2
  <2> QED
    BY <1>1, <1>2, <2>1, CopyInKeeps
<1> HIDE DEF c
<1>5. RingOK(jout') /\ jout'.size = F + 1 /\ get_readable_frames(jout') = F
  <2>1. F <= get_writable_frames(c)
    BY <1>1, <1>4
  <2>2. 0 + F = F
    BY <1>1
  <2> QED
    BY <1>1, <1>3, <1>4, <2>1, <2>2, WrittenExtends
<1>6. JackTypeOK'
  BY <1>1, <1>2, <1>3, <1>5 DEF JackInv, JackTypeOK
<1>7. JackSizes'
  BY <1>2, <1>3, <1>5 DEF JackSizes, F
<1>8. CallbackInv' /\ JackEngineInv'
  BY <1>3 DEF CallbackInv, JackEngineInv
<1>9. LatencyConstant'
  <2>1. InEngine' = 0 /\ InCallback' = 0
    BY <1>3 DEF InEngine, InCallback
  <2>2. get_readable_frames(jin') = 0 /\ get_readable_frames(jout') = F
    BY <1>2, <1>3, <1>5
  <2>3. 0 + F + 0 - 0 = F /\ jclient'.period = period
    BY <1>1, <1>3
  <2> QED
    BY <2>1, <2>2, <2>3 DEF LatencyConstant, F
<1> QED
  BY <1>6, <1>7, <1>8, <1>9 DEF JackInv

LEMMA CloseStep ==
  ASSUME JackInv, jeng.pc = "idle", UNCHANGED <<jserver, jeng>>, JackClosed PROVE JackInv'
<1>1. /\ jclient' = [open |-> FALSE, period |-> 0, active |-> FALSE, xruns |-> FALSE]
      /\ jin' = Resized(0) /\ jout' = Resized(0) /\ jcb' = [pc |-> "idle", n |-> 0, did |-> 0]
  BY DEF JackClosed, Closed, Idle
<1>2. RingOK(Resized(0))
  BY ResizedEmpty
<1> QED
  BY <1>1, <1>2 DEF JackInv, JackTypeOK, JackSizes, CallbackInv, JackEngineInv, LatencyConstant

LEMMA JackInitInv == JackInit => JackInv
<1> SUFFICES ASSUME JackInit PROVE JackInv
  OBVIOUS
<1>1. RingOK(Resized(0))
  BY ResizedEmpty
<1> QED
  BY <1>1 DEF JackInit, Closed, Idle, EngineIdle, JackInv, JackTypeOK, JackSizes, CallbackInv, JackEngineInv,
    LatencyConstant

\* The two JACK buffers and the block that open() asks for.
LEMMA JackInvSound == JackInv => FramesInOrder /\ ChecksStayValid /\ LatencyConstant /\ NeverStuck
<1> SUFFICES ASSUME JackInv PROVE FramesInOrder /\ ChecksStayValid /\ LatencyConstant /\ NeverStuck
  OBVIOUS
<1> USE DEF JackInv
<1> DEFINE ri == get_readable_frames(jin)  wi == get_writable_frames(jin)
           ro == get_readable_frames(jout)  wo == get_writable_frames(jout)
<1>1. /\ ri \in Nat /\ wi \in Nat /\ ro \in Nat /\ wo \in Nat /\ jcb.n \in Nat /\ BlockLength \in Nat
      /\ wi = jin.size - 1 - ri /\ wo = jout.size - 1 - ro /\ jin.size \in Nat /\ jout.size \in Nat
  BY RingNumbers, BlockLengthAssumption DEF JackTypeOK
<1>2. n_frames_avail = IF wo <= ri THEN wo ELSE ri
  BY <1>1, MinTwo DEF n_frames_avail
<1>3. FramesInOrder
  <2>1. InOrder(jin) /\ InOrder(jout)
    BY DEF JackTypeOK, RingOK
  <2>2. CopiedBy(jin, "in_producer") \cap CopiedBy(jin, "in_consumer") = {}
    <3>1. CASE jcb.pc = "written" /\ jeng.pc = "reading"
      <4>1. jcb.did = jcb.n /\ jcb.n <= wi /\ jeng.did = BlockLength /\ BlockLength <= ri
        BY <1>1, <3>1 DEF CallbackInv, CallbackFits, JackEngineInv
      <4>2. SlotsFrom(jin, jin.wpos, jcb.n) \cap SlotsFrom(jin, jin.rpos, BlockLength) = {}
        BY <1>1, <4>1, SlotsDisjoint DEF JackTypeOK
      <4> QED
        BY <3>1, <4>1, <4>2 DEF CopiedBy
    <3>2. CASE ~ (jcb.pc = "written" /\ jeng.pc = "reading")
      BY <3>2 DEF CopiedBy
    <3> QED
      BY <3>1, <3>2
  <2>3. CopiedBy(jout, "out_producer") \cap CopiedBy(jout, "out_consumer") = {}
    <3>1. CASE jeng.pc = "written" /\ jcb.pc = "reading"
      <4>1. jcb.did = jcb.n /\ jcb.n <= ro /\ jeng.did = BlockLength /\ BlockLength <= wo
        BY <1>1, <3>1 DEF CallbackInv, JackEngineInv
      <4>2. SlotsFrom(jout, jout.wpos, BlockLength) \cap SlotsFrom(jout, jout.rpos, jcb.n) = {}
        BY <1>1, <4>1, SlotsDisjoint DEF JackTypeOK
      <4> QED
        BY <3>1, <4>1, <4>2 DEF CopiedBy
    <3>2. CASE ~ (jeng.pc = "written" /\ jcb.pc = "reading")
      BY <3>2 DEF CopiedBy
    <3> QED
      BY <3>1, <3>2
  <2> QED
    BY <2>1, <2>2, <2>3 DEF FramesInOrder
<1>4. ChecksStayValid
  BY <1>1, <1>2 DEF ChecksStayValid, CallbackInv, JackEngineInv
<1>5. NeverStuck
  <2> SUFFICES ASSUME jclient.open, jcb.pc = "idle", jeng.pc = "idle", jserver.period <= 2 * jclient.period
               PROVE  n_frames_avail >= BlockLength \/ CallbackFits(jserver.period)
    BY DEF NeverStuck
  <2>1. jserver.period \in Nat /\ jclient.period \in Nat /\ jclient.period \in Periods
    BY PeriodsAssumption DEF JackTypeOK, JackSizes
  <2>2. PICK F \in Nat : F = buffer_frames(jclient.period) /\ F >= 2 * jclient.period + BlockLength
    BY <2>1, BufferFrames
  <2>3. wi = F - ri /\ wo = F - ro
    BY <1>1, <2>2 DEF JackSizes
  <2>4. ri + ro = F
    <3>1. InEngine = 0 /\ InCallback = 0
      BY DEF InEngine, InCallback
    <3> QED
      BY <1>1, <2>2, <3>1 DEF LatencyConstant
  <2>5. (ri >= BlockLength /\ wo >= BlockLength) \/ (wi >= jserver.period /\ ro >= jserver.period)
    <3> HIDE DEF ri, wi, ro, wo
    <3>1. wo = ri /\ ro = wi
      BY <1>1, <2>2, <2>3, <2>4
    <3>2. ASSUME ri < BlockLength PROVE wi >= jserver.period
      <4>1. wi > F - BlockLength /\ F - BlockLength >= 2 * jclient.period
        BY <1>1, <2>1, <2>2, <2>3, <3>2
      <4> QED
        BY <1>1, <2>1, <2>2, <4>1
    <3>3. ri < BlockLength \/ ri >= BlockLength
      BY <1>1
    <3> QED
      BY <3>1, <3>2, <3>3
  <2> QED
    BY <1>1, <1>2, <2>5 DEF CallbackFits
<1> QED
  BY <1>3, <1>4, <1>5

-----------------------------------------------------------------------------
(* AlsaPcmDriver *)

Blocks(n) == \E k \in Nat : n = k * AlsaPeriod
InWrite == IF aeng.pc = "write" THEN aeng.n_left ELSE 0

AlsaTypeOK ==
  /\ adev \in [state : {"closed", "prepared", "running", "xrun", "gone"},
               fill : Nat, size : Nat, n_periods : Nat]
  /\ aeng \in [pc : {"idle", "hwsync", "write"}, n_left : Nat]

\* A device that waits for more frames holds whole blocks, between two writes,
\* and less of them than it takes to start.
AlsaInv ==
  /\ AlsaTypeOK
  /\ adev.state # "closed" => adev.size >= AlsaPeriod
  /\ adev.state = "prepared" => Blocks(adev.fill + InWrite) /\ adev.fill < start_threshold(adev)

LEMMA Thresholds ==
  ASSUME NEW d, d.size \in Nat, d.size >= AlsaPeriod
  PROVE  /\ start_threshold(d) \in Nat /\ start_threshold(d) <= d.size /\ start_threshold(d) > 0
         /\ Blocks(start_threshold(d))
         /\ \A f \in Nat : Blocks(f) /\ f < start_threshold(d) => f + AlsaPeriod <= start_threshold(d)
<1>1. AlsaPeriod \in Nat \ {0}
  BY AlsaPeriodAssumption
<1>2. PICK k \in Nat : k = d.size \div AlsaPeriod /\ k * AlsaPeriod <= d.size /\ k * AlsaPeriod >= AlsaPeriod
  BY <1>1, DivRoom
<1>3. start_threshold(d) = k * AlsaPeriod
  BY <1>2 DEF start_threshold
<1>4. k * AlsaPeriod \in Nat
  BY <1>1
<1>5. ASSUME NEW f \in Nat, Blocks(f), f < start_threshold(d) PROVE f + AlsaPeriod <= start_threshold(d)
  <2>1. PICK j \in Nat : f = j * AlsaPeriod
    BY <1>5 DEF Blocks
  <2>2. j * AlsaPeriod < k * AlsaPeriod
    BY <1>3, <1>5, <2>1
  <2> QED
    BY <1>1, <1>3, <2>1, <2>2, MultipleRoom
<1> QED
  BY <1>1, <1>2, <1>3, <1>4, <1>5 DEF Blocks

LEMMA BlocksAdd ==
  ASSUME NEW f \in Nat, Blocks(f) PROVE Blocks(0) /\ Blocks(f + AlsaPeriod)
<1>1. AlsaPeriod \in Nat
  BY AlsaPeriodAssumption
<1>2. PICK k \in Nat : f = k * AlsaPeriod
  BY DEF Blocks
<1>3. f + AlsaPeriod = (k + 1) * AlsaPeriod /\ 0 = 0 * AlsaPeriod /\ k + 1 \in Nat /\ 0 \in Nat
  BY <1>1, <1>2
<1> QED
  BY <1>3 DEF Blocks

LEMMA Prepared ==
  ASSUME NEW d, d \in [state : {"prepared", "running", "xrun", "gone"}, fill : Nat, size : Nat, n_periods : Nat]
  PROVE  \/ d.state = "gone" /\ snd_pcm_prepare(d) = d
         \/ /\ snd_pcm_prepare(d) \in [state : {"prepared"}, fill : {0}, size : Nat, n_periods : Nat]
            /\ snd_pcm_prepare(d).size = d.size /\ snd_pcm_prepare(d).n_periods = d.n_periods
  BY DEF snd_pcm_prepare

LEMMA QueuedFrames ==
  ASSUME NEW d, d \in [state : {"closed", "prepared", "running", "xrun", "gone"}, fill : Nat, size : Nat, n_periods : Nat],
         NEW n \in Nat
  PROVE  /\ Queued(d, n) \in [state : {"closed", "prepared", "running", "xrun", "gone"},
                              fill : Nat, size : Nat, n_periods : Nat]
         /\ Queued(d, n).fill = d.fill + n /\ Queued(d, n).size = d.size
         /\ Queued(d, n).state = d.state \/ (d.state = "prepared" /\ Queued(d, n).state = "running")
         /\ Queued(d, n).state = "prepared" => ~ (d.fill + n >= start_threshold(d))
<1>1. /\ Queued(d, n) = [d EXCEPT !.fill = d.fill + n,
                                  !.state = IF d.state = "prepared" /\ d.fill + n >= start_threshold(d)
                                            THEN "running" ELSE d.state]
      /\ d.fill + n \in Nat
  BY DEF Queued
<1> HIDE DEF Queued
<1> QED
  BY <1>1

LEMMA SameThreshold == \A d, e : d.size = e.size => start_threshold(d) = start_threshold(e)
  BY DEF start_threshold

LEMMA Retriggered ==
  ASSUME NEW d, d \in [state : {"prepared", "running", "xrun", "gone"}, fill : Nat, size : Nat, n_periods : Nat],
         d.size >= AlsaPeriod
  PROVE  /\ pcm_retrigger(d) \in [state : {"prepared", "running", "xrun", "gone"},
                                  fill : Nat, size : Nat, n_periods : Nat]
         /\ pcm_retrigger(d).size = d.size
         /\ pcm_retrigger(d).state = "prepared" =>
              Blocks(pcm_retrigger(d).fill) /\ pcm_retrigger(d).fill < start_threshold(d)
<1>1. CASE d.state = "gone"
  <2>1. pcm_retrigger(d) = d
    BY <1>1 DEF pcm_retrigger
  <2> QED
    BY <1>1, <2>1
<1>2. CASE d.state # "gone"
  <2> DEFINE e == snd_pcm_prepare(d)
             n == Min({d.n_periods * AlsaPeriod, d.size})
  <2>1. AlsaPeriod \in Nat \ {0} /\ d.n_periods * AlsaPeriod \in Nat /\ d.size \in Nat /\ d.n_periods \in Nat
    BY AlsaPeriodAssumption
  <2>2. n = IF d.n_periods * AlsaPeriod <= d.size THEN d.n_periods * AlsaPeriod ELSE d.size
    BY <2>1, MinTwo
  <2>3. /\ e \in [state : {"prepared"}, fill : {0}, size : Nat, n_periods : Nat]
        /\ e.size = d.size /\ pcm_retrigger(d) = Queued(e, n)
    BY <1>2, Prepared DEF pcm_retrigger
  <2> HIDE DEF e, n
  <2>4. n \in Nat
    BY <2>1, <2>2
  <2>5. /\ Queued(e, n) \in [state : {"closed", "prepared", "running", "xrun", "gone"},
                             fill : Nat, size : Nat, n_periods : Nat]
        /\ Queued(e, n).fill = n /\ Queued(e, n).size = d.size
        /\ Queued(e, n).state \in {"prepared", "running"}
        /\ Queued(e, n).state = "prepared" => ~ (n >= start_threshold(e))
    <3>1. /\ e \in [state : {"closed", "prepared", "running", "xrun", "gone"},
                    fill : Nat, size : Nat, n_periods : Nat]
          /\ e.state = "prepared" /\ e.fill = 0 /\ 0 + n = n
      BY <2>3, <2>4
    <3>2. /\ Queued(e, n) \in [state : {"closed", "prepared", "running", "xrun", "gone"},
                               fill : Nat, size : Nat, n_periods : Nat]
          /\ Queued(e, n).fill = e.fill + n /\ Queued(e, n).size = e.size
          /\ Queued(e, n).state = e.state \/ (e.state = "prepared" /\ Queued(e, n).state = "running")
          /\ Queued(e, n).state = "prepared" => ~ (e.fill + n >= start_threshold(e))
      BY <2>4, <3>1, QueuedFrames
    <3>3. e.fill + n = n /\ e.size = d.size
      BY <2>3, <3>1
    <3>4. Queued(e, n).state \in {"prepared", "running"}
      BY <3>1, <3>2
    <3> QED
      BY <3>2, <3>3, <3>4
  <2>6. start_threshold(e) = start_threshold(d)
    BY <2>3, SameThreshold
  <2>7. start_threshold(d) \in Nat /\ start_threshold(d) <= d.size
    BY <2>1, Thresholds
  <2>8. ASSUME n < start_threshold(d) PROVE Blocks(n)
    <3>1. n = d.n_periods * AlsaPeriod
      BY <2>1, <2>2, <2>7, <2>8
    <3> QED
      BY <2>1, <3>1 DEF Blocks
  <2>9. pcm_retrigger(d).state = "prepared" => Blocks(n) /\ n < start_threshold(d)
    BY <2>3, <2>4, <2>5, <2>6, <2>7, <2>8
  <2> QED
    BY <2>3, <2>5, <2>9
<1> QED
  BY <1>1, <1>2

AlsaStep ==
  \/ AlsaPlays \/ AlsaStops \/ AlsaUnplugged
  \/ AlsaCheckIO \/ AlsaHwsync \/ AlsaPcmWrite
  \/ UNCHANGED avars

LEMMA AlsaNextInv == AlsaInv /\ AlsaStep => AlsaInv'
<1> SUFFICES ASSUME AlsaInv, AlsaStep PROVE AlsaInv'
  OBVIOUS
<1>0. AlsaPeriod \in Nat \ {0} /\ AlsaTypeOK /\ adev.fill \in Nat /\ adev.size \in Nat /\ aeng.n_left \in Nat
  BY AlsaPeriodAssumption DEF AlsaInv, AlsaTypeOK
<1>1. CASE AlsaPlays
  <2>1. adev' = [adev EXCEPT !.fill = adev.fill - 1] /\ adev.state = "running" /\ adev.fill > 0 /\ aeng' = aeng
    BY <1>1 DEF AlsaPlays
  <2>2. adev' \in [state : {"running"}, fill : Nat, size : Nat, n_periods : Nat] /\ adev'.size = adev.size
    BY <1>0, <2>1 DEF AlsaTypeOK
  <2> QED
    BY <2>1, <2>2 DEF AlsaInv, AlsaTypeOK
<1>2. CASE AlsaStops \/ AlsaUnplugged
  <2>1. /\ adev' \in [state : {"xrun", "gone"}, fill : Nat, size : Nat, n_periods : Nat]
        /\ adev'.size = adev.size /\ aeng' = aeng /\ adev.state # "closed"
    BY <1>0, <1>2 DEF AlsaStops, AlsaUnplugged, AlsaTypeOK
  <2> QED
    BY <2>1 DEF AlsaInv, AlsaTypeOK
<1>3. CASE AlsaCheckIO
  <2> DEFINE retrigger == Failing(adev) \/ (avail(adev) = 0 /\ adev.state # "running")
             enough == ~Failing(adev) /\ avail(adev) >= AlsaPeriod
  <2>1. /\ adev.state # "closed" /\ aeng.pc = "idle" /\ InWrite = 0
        /\ adev \in [state : {"prepared", "running", "xrun", "gone"}, fill : Nat, size : Nat, n_periods : Nat]
        /\ adev.size >= AlsaPeriod
    BY <1>0, <1>3 DEF AlsaCheckIO, AlsaInv, AlsaTypeOK, InWrite
  <2>2. /\ adev' = (IF retrigger THEN pcm_retrigger(adev) ELSE adev)
        /\ aeng' = IF enough THEN [pc |-> "write", n_left |-> AlsaPeriod] ELSE [aeng EXCEPT !.pc = "hwsync"]
    BY <1>3 DEF AlsaCheckIO
  <2>3. enough => ~retrigger
    BY <1>0 DEF avail
  <2> HIDE DEF enough, retrigger
  <2>4. /\ adev' \in [state : {"prepared", "running", "xrun", "gone"}, fill : Nat, size : Nat, n_periods : Nat]
        /\ adev'.size = adev.size
        /\ adev'.state = "prepared" => Blocks(adev'.fill) /\ adev'.fill < start_threshold(adev)
    <3>1. CASE retrigger
      BY <2>1, <2>2, <3>1, Retriggered
    <3>2. CASE ~retrigger
      <4>1. adev.fill + 0 = adev.fill
        BY <1>0
      <4> QED
        BY <2>1, <2>2, <3>2, <4>1 DEF AlsaInv
    <3> QED
      BY <3>1, <3>2
  <2>5. start_threshold(adev') = start_threshold(adev)
    BY <2>4, SameThreshold
  <2>6. aeng' \in [pc : {"hwsync", "write"}, n_left : Nat] /\ (aeng'.pc = "write" => aeng'.n_left = AlsaPeriod)
    BY <1>0, <2>2 DEF AlsaTypeOK
  <2>7. adev'.fill \in Nat /\ InWrite' \in {0, AlsaPeriod}
    BY <2>4, <2>6 DEF InWrite
  <2>8. Blocks(adev'.fill) => Blocks(adev'.fill + InWrite')
    <3>1. adev'.fill + 0 = adev'.fill
      BY <2>7
    <3> QED
      BY <2>7, <3>1, BlocksAdd
  <2> QED
    BY <2>1, <2>4, <2>5, <2>6, <2>8 DEF AlsaInv, AlsaTypeOK
<1>4. CASE AlsaHwsync
  <2>1. /\ aeng.pc = "hwsync" /\ InWrite = 0 /\ adev' = adev
        /\ aeng' \in [pc : {"idle", "write"}, n_left : Nat] /\ (aeng'.pc = "write" => aeng'.n_left = AlsaPeriod)
    BY <1>0, <1>4 DEF AlsaHwsync, InWrite, AlsaIdle
  <2>2. InWrite' \in {0, AlsaPeriod} /\ adev.fill + 0 = adev.fill
    BY <1>0, <2>1 DEF InWrite
  <2>3. Blocks(adev.fill) => Blocks(adev.fill + InWrite')
    BY <1>0, <2>2, BlocksAdd
  <2> QED
    BY <2>1, <2>2, <2>3 DEF AlsaInv, AlsaTypeOK
<1>5. CASE AlsaWrites
  <2>1. PICK n \in 1..aeng.n_left :
          /\ n <= avail(adev) /\ adev' = Queued(adev, n)
          /\ aeng' = IF n = aeng.n_left THEN AlsaIdle ELSE [aeng EXCEPT !.n_left = @ - n]
    BY <1>5 DEF AlsaWrites
  <2>2. aeng.pc = "write" /\ InWrite = aeng.n_left /\ n \in Nat /\ n <= aeng.n_left
    BY <1>0, <1>5 DEF AlsaWrites, InWrite
  <2>3. aeng' \in [pc : {"idle", "write"}, n_left : Nat] /\ InWrite' = aeng.n_left - n
    <3>1. CASE n = aeng.n_left
      BY <1>0, <2>1, <3>1 DEF AlsaIdle, InWrite
    <3>2. CASE n # aeng.n_left
      <4>1. aeng' = [aeng EXCEPT !.n_left = aeng.n_left - n] /\ aeng.n_left - n \in Nat
        BY <1>0, <2>1, <2>2, <3>2
      <4> QED
        BY <1>0, <2>2, <4>1 DEF AlsaTypeOK, InWrite
    <3> QED
      BY <3>1, <3>2
  <2>4. /\ adev' \in [state : {"closed", "prepared", "running", "xrun", "gone"},
                      fill : Nat, size : Nat, n_periods : Nat]
        /\ adev'.fill = adev.fill + n /\ adev'.size = adev.size
        /\ adev'.state = adev.state \/ (adev.state = "prepared" /\ adev'.state = "running")
        /\ adev'.state = "prepared" => ~ (adev.fill + n >= start_threshold(adev))
    BY <1>0, <2>1, <2>2, QueuedFrames DEF AlsaTypeOK
  <2>5. start_threshold(adev') = start_threshold(adev)
    BY <2>4, SameThreshold
  <2>6. adev'.fill + InWrite' = adev.fill + InWrite
    BY <1>0, <2>2, <2>3, <2>4
  <2>7. adev.state # "closed" /\ adev.size >= AlsaPeriod => start_threshold(adev) \in Nat
    BY <1>0, Thresholds
  <2>8. adev'.state = "prepared" => Blocks(adev'.fill + InWrite') /\ adev'.fill < start_threshold(adev')
    BY <1>0, <2>2, <2>4, <2>5, <2>6, <2>7 DEF AlsaInv
  <2>9. adev'.state # "closed" => adev'.size >= AlsaPeriod
    BY <2>4 DEF AlsaInv
  <2> QED
    BY <2>3, <2>4, <2>8, <2>9 DEF AlsaInv, AlsaTypeOK
<1>6. CASE AlsaWriteFails
  <2>1. /\ adev \in [state : {"xrun", "gone"}, fill : Nat, size : Nat, n_periods : Nat] /\ adev.size >= AlsaPeriod
        /\ adev' = snd_pcm_prepare(adev) /\ aeng' = [pc |-> "idle", n_left |-> 0]
    BY <1>0, <1>6 DEF AlsaWriteFails, Failing, AlsaIdle, AlsaInv, AlsaTypeOK
  <2>2. \/ adev.state = "gone" /\ adev' = adev
        \/ adev' \in [state : {"prepared"}, fill : {0}, size : Nat, n_periods : Nat] /\ adev'.size = adev.size
    BY <2>1, Prepared
  <2>3. InWrite' = 0 /\ 0 + 0 = 0 /\ Blocks(0)
    <3>1. 0 = 0 * AlsaPeriod
      BY <1>0
    <3> QED
      BY <2>1, <3>1 DEF InWrite, Blocks
  <2>4. start_threshold(adev) > 0
    BY <1>0, <2>1, Thresholds
  <2>5. start_threshold(adev') = start_threshold(adev)
    BY <2>2, SameThreshold
  <2> QED
    BY <2>1, <2>2, <2>3, <2>4, <2>5 DEF AlsaInv, AlsaTypeOK
<1>7. CASE UNCHANGED avars
  BY <1>7 DEF avars, AlsaInv, AlsaTypeOK, InWrite
<1> QED
  BY <1>1, <1>2, <1>3, <1>4, <1>5, <1>6, <1>7 DEF AlsaStep, AlsaPcmWrite

LEMMA AlsaOpenStep ==
  ASSUME AlsaInv, aeng.pc = "idle", aeng' = aeng,
         NEW b, b.size \in Nat, b.size >= AlsaPeriod, b.n_periods \in Nat, AlsaOpened(b)
  PROVE  AlsaInv'
<1>1. /\ adev' \in [state : {"prepared"}, fill : {0}, size : Nat, n_periods : Nat] /\ adev'.size = b.size
  BY DEF AlsaOpened
<1>2. Blocks(0) /\ 0 + 0 = 0
  <2>1. 0 = 0 * AlsaPeriod
    BY AlsaPeriodAssumption
  <2> QED
    BY <2>1 DEF Blocks
<1>3. start_threshold(adev') > 0
  BY <1>1, Thresholds
<1>4. InWrite' = 0
  BY DEF InWrite
<1> QED
  BY <1>1, <1>2, <1>3, <1>4 DEF AlsaInv, AlsaTypeOK

LEMMA AlsaCloseStep == ASSUME AlsaInv, aeng' = aeng, adev' = NoDevice PROVE AlsaInv'
  BY DEF NoDevice, AlsaInv, AlsaTypeOK

LEMMA AlsaInitInv == AlsaInit => AlsaInv
  BY DEF AlsaInit, NoDevice, AlsaIdle, AlsaInv, AlsaTypeOK

LEMMA AlsaInvSound == AlsaInv => AlsaNeverStuck
<1> SUFFICES ASSUME AlsaInv, adev.state = "prepared", aeng.pc # "write" PROVE avail(adev) >= AlsaPeriod
  BY DEF AlsaNeverStuck
<1>1. /\ adev.fill \in Nat /\ adev.size \in Nat /\ adev.size >= AlsaPeriod /\ adev.fill < start_threshold(adev)
      /\ InWrite = 0 /\ Blocks(adev.fill + InWrite) /\ AlsaPeriod \in Nat
  BY AlsaPeriodAssumption DEF AlsaInv, AlsaTypeOK, InWrite
<1>2. Blocks(adev.fill)
  <2>1. adev.fill + 0 = adev.fill
    BY <1>1
  <2> QED
    BY <1>1, <2>1
<1>3. start_threshold(adev) \in Nat /\ start_threshold(adev) <= adev.size
      /\ adev.fill + AlsaPeriod <= start_threshold(adev)
  BY <1>1, <1>2, Thresholds
<1> QED
  BY <1>1, <1>3 DEF avail

-----------------------------------------------------------------------------
(* The driver set *)

KnownDriver(d) ==
  \/ d = NullDriver
  \/ d \in [kind : {"jack"}, period : Periods]
  \/ \E b \in AlsaBuffers : d = [kind |-> "alsa", size |-> b.size, n_periods |-> b.n_periods]

UsesPcm(d) == d.kind \in {dset.pcm_name, "null"} \/ dset.pcm_name = "auto"
NoDouble(names) == \A i, j \in DOMAIN names : names[i] = names[j] => i = j \/ names[i] = "null"
MidiOK ==
  /\ DOMAIN dset.midi_drivers = DOMAIN dset.midi_names
  /\ \A i \in DOMAIN dset.midi_names : dset.midi_drivers[i] \in {dset.midi_names[i], "null"}
  /\ NoDouble(dset.midi_names)
  /\ \A m \in MidiPrefs : DOMAIN m = DOMAIN dset.midi_names

\* What the main thread has selected is what the engine uses, or will use when
\* it has executed the job.
SetInv ==
  /\ job.state \in {"none", "queued"}
  /\ KnownDriver(pcm) /\ NoDouble(midi) /\ MidiOK
  /\ job.state = "none" => midi = dset.midi_drivers /\ UsesPcm(pcm)
  /\ job.state = "queued" =>
       /\ job.midi = dset.midi_drivers /\ KnownDriver(job.pcm)
       /\ UsesPcm(IF job.swap THEN job.pcm ELSE pcm)

PcmInv == JackInv /\ AlsaInv /\ SetInv

LEMMA DeduplicatedOnce ==
  ASSUME NEW m \in Seq(STRING)
  PROVE  DOMAIN Deduplicated(m) = DOMAIN m /\ NoDouble(Deduplicated(m))
<1> DEFINE d == Deduplicated(m)
<1>1. DOMAIN m \subseteq Nat \ {0} /\ DOMAIN d = DOMAIN m
  BY DEF Deduplicated
<1>2. ASSUME NEW i \in DOMAIN m, d[i] # "null"
      PROVE  d[i] = m[i] /\ \A k \in 1..i-1 : m[k] # m[i]
  <2> DEFINE Again == m[i] = "" \/ \E k \in 1..i-1 : m[k] = m[i]
  <2>1. d[i] = IF Again THEN "null" ELSE m[i]
    BY DEF Deduplicated
  <2>2. d[i] = m[i] /\ ~Again
    <3> HIDE DEF Again
    <3> QED
      BY <1>2, <2>1
  <2> QED
    BY <2>2, Zenon
<1> HIDE DEF d
<1>3. ASSUME NEW i \in DOMAIN m, NEW j \in DOMAIN m, d[i] = d[j], d[i] # "null", i < j PROVE FALSE
  <2>1. d[i] = m[i] /\ d[j] = m[j] /\ \A k \in 1..j-1 : m[k] # m[j]
    BY <1>2, <1>3
  <2>2. i \in 1..j-1
    BY <1>1, <1>3
  <2> QED
    BY <1>3, <2>1, <2>2
<1>4. ASSUME NEW i \in DOMAIN m, NEW j \in DOMAIN m, d[i] = d[j], d[i] # "null" PROVE i = j
  <2>1. i < j \/ j < i \/ i = j
    BY <1>1
  <2> QED
    BY <1>3, <1>4, <2>1
<1> QED
  BY <1>1, <1>4 DEF NoDouble, d

LEMMA PcmInitInv == PcmInit => PcmInv
<1> SUFFICES ASSUME PcmInit PROVE PcmInv
  OBVIOUS
<1>1. JackInv /\ AlsaInv
  BY JackInitInv, AlsaInitInv DEF PcmInit
<1> DEFINE none == [i \in 1..Len(CHOOSE m \in MidiPrefs : TRUE) |-> "null"]
<1>2. /\ dset = [pcm_name |-> "null", midi_names |-> none, midi_drivers |-> none] /\ midi = none
      /\ job.state = "none" /\ pcm = NullDriver /\ pcm.kind = "null"
  BY DEF PcmInit, NoJob, NullDriver
<1>3. ASSUME NEW m \in MidiPrefs PROVE DOMAIN m = DOMAIN none
  <2>1. (CHOOSE o \in MidiPrefs : TRUE) \in MidiPrefs
    OBVIOUS
  <2>2. m \in Seq(STRING) /\ Len(m) = Len(CHOOSE o \in MidiPrefs : TRUE)
    BY <2>1, MidiPrefsAssumption
  <2> QED
    BY <2>2
<1>4. NoDouble(none)
  BY DEF NoDouble
<1>5. \A i \in DOMAIN none : none[i] = "null"
  OBVIOUS
<1> HIDE DEF none
<1>6. dset.midi_names = none /\ dset.midi_drivers = none /\ dset.pcm_name = "null"
  BY <1>2
<1> QED
  BY <1>1, <1>2, <1>3, <1>4, <1>5, <1>6 DEF PcmInv, SetInv, MidiOK, KnownDriver, UsesPcm

LEMMA UpdateDrivers ==
  ASSUME PcmInv, NEW pcm_name \in PcmNames, NEW midis \in MidiPrefs, update_drivers(pcm_name, midis)
  PROVE  PcmInv'
<1> DEFINE names == Deduplicated(midis)
<1>1. /\ job.state = "none" /\ UNCHANGED <<jvars, avars, pcm, midi, trash_drivers>>
  BY DEF update_drivers
<1>2. PICK drivers \in MidiOpened(names),
           opened \in IF pcm_name = dset.pcm_name THEN {pcm} ELSE Opened(pcm_name) \cup {NullDriver} :
        /\ dset' = [pcm_name |-> pcm_name, midi_names |-> names, midi_drivers |-> drivers]
        /\ job' = [pcm |-> opened, midi |-> drivers, state |-> "queued",
                   swap |-> pcm_name # dset.pcm_name /\ ~(opened = NullDriver /\ pcm = NullDriver)]
  BY DEF update_drivers
<1>3. midis \in Seq(STRING) /\ DOMAIN midis = DOMAIN dset.midi_names /\ SetInv /\ MidiOK /\ KnownDriver(pcm)
  BY MidiPrefsAssumption DEF PcmInv, SetInv, MidiOK
<1>4. DOMAIN names = DOMAIN dset.midi_names /\ NoDouble(names)
  BY <1>3, DeduplicatedOnce
<1> HIDE DEF names
<1>5. /\ DOMAIN drivers = DOMAIN names
      /\ \A i \in DOMAIN names : drivers[i] \in {names[i], "null"}
  <2>1. /\ drivers \in [DOMAIN names -> {"null"} \cup {names[i] : i \in DOMAIN names}]
        /\ \A i \in DOMAIN names : IF names[i] = dset.midi_names[i] THEN drivers[i] = dset.midi_drivers[i]
                                   ELSE drivers[i] \in {names[i], "null"}
    BY <1>2 DEF MidiOpened
  <2> QED
    BY <1>3, <1>4, <2>1 DEF MidiOK
<1>6. /\ dset'.pcm_name = pcm_name /\ dset'.midi_names = names /\ dset'.midi_drivers = drivers
      /\ job'.state = "queued" /\ job'.midi = drivers /\ job'.pcm = opened
      /\ job'.swap = (pcm_name # dset.pcm_name /\ ~(opened = NullDriver /\ pcm = NullDriver))
  BY <1>2
<1>7. MidiOK'
  BY <1>3, <1>4, <1>5, <1>6 DEF MidiOK
<1>8. KnownDriver(opened) /\ (opened.kind \in {pcm_name, "null"} \/ pcm_name = "auto" \/ opened = pcm)
  <2>1. CASE pcm_name = dset.pcm_name
    BY <1>2, <1>3, <2>1
  <2>2. CASE opened = NullDriver
    BY <2>2 DEF KnownDriver, NullDriver
  <2>3. CASE opened \in Opened(pcm_name)
    <3>1. jserver.period \in Periods
      BY DEF PcmInv, JackInv, JackTypeOK
    <3> QED
      BY <2>3, <3>1 DEF Opened, KnownDriver
  <2> QED
    BY <1>2, <2>1, <2>2, <2>3
<1>9. UsesPcm(IF job.swap THEN job.pcm ELSE pcm)'
  <2>1. CASE pcm_name = dset.pcm_name
    <3>1. ~job'.swap /\ pcm' = pcm /\ UsesPcm(pcm)
      BY <1>1, <1>3, <1>6, <2>1 DEF SetInv
    <3> QED
      BY <1>6, <2>1, <3>1 DEF UsesPcm
  <2>2. CASE pcm_name # dset.pcm_name /\ opened = NullDriver /\ pcm = NullDriver
    <3>1. ~job'.swap /\ pcm' = NullDriver /\ NullDriver.kind = "null"
      BY <1>1, <1>6, <2>2 DEF NullDriver
    <3> QED
      BY <3>1 DEF UsesPcm
  <2>3. CASE pcm_name # dset.pcm_name /\ ~(opened = NullDriver /\ pcm = NullDriver)
    <3>1. job'.swap /\ job'.pcm = opened
      BY <1>6, <2>3
    <3>2. opened.kind \in {pcm_name, "null"} \/ pcm_name = "auto"
      <4>1. CASE opened = NullDriver
        BY <4>1 DEF NullDriver
      <4>2. CASE opened \in Opened(pcm_name)
        BY <4>2 DEF Opened
      <4> QED
        BY <1>2, <2>3, <4>1, <4>2
    <3> QED
      BY <1>6, <3>1, <3>2 DEF UsesPcm
  <2> QED
    BY <2>1, <2>2, <2>3
<1>10. SetInv'
  BY <1>1, <1>3, <1>6, <1>7, <1>8, <1>9 DEF SetInv
<1>11. JackInv' /\ AlsaInv'
  BY <1>1, ServerStep, AlsaNextInv DEF PcmInv, AlsaStep
<1> QED
  BY <1>10, <1>11 DEF PcmInv

LEMMA UpdateDriverSet == PcmInv /\ update_driver_set => PcmInv'
<1> SUFFICES ASSUME PcmInv, update_driver_set PROVE PcmInv'
  OBVIOUS
<1>1. /\ job.state = "queued" /\ jeng.pc = "idle" /\ aeng.pc = "idle" /\ UNCHANGED <<dset, jserver, jeng, aeng>>
      /\ midi' = job.midi /\ job'.state = "none"
  BY DEF update_driver_set, EngineFree, NoJob
<1>2. JackInv /\ AlsaInv /\ SetInv /\ KnownDriver(job.pcm) /\ MidiOK /\ job.midi = dset.midi_drivers
      /\ UsesPcm(IF job.swap THEN job.pcm ELSE pcm)
  BY <1>1 DEF PcmInv, SetInv
<1>3. pcm' = (IF job.swap THEN job.pcm ELSE pcm)
  BY DEF update_driver_set
<1>4. SetInv'
  <2>1. NoDouble(midi')
    BY <1>1, <1>2 DEF MidiOK, NoDouble
  <2>2. UsesPcm(pcm)'
    BY <1>1, <1>2, <1>3 DEF UsesPcm
  <2>3. KnownDriver(pcm')
    BY <1>2, <1>3 DEF SetInv
  <2>4. MidiOK'
    BY <1>1, <1>2 DEF MidiOK
  <2> QED
    BY <1>1, <1>2, <2>1, <2>2, <2>3, <2>4 DEF SetInv
<1>5. JackInv'
  <2>1. CASE job.swap /\ job.pcm.kind = "jack"
    <3>1. JackOpened(job.pcm.period)
      BY <2>1 DEF update_driver_set
    <3>2. job.pcm # NullDriver
      BY <2>1 DEF NullDriver
    <3>3. ASSUME NEW b \in AlsaBuffers, job.pcm = [kind |-> "alsa", size |-> b.size, n_periods |-> b.n_periods]
          PROVE  FALSE
      BY <2>1, <3>3
    <3>4. job.pcm \in [kind : {"jack"}, period : Periods]
      BY <1>2, <3>2, <3>3 DEF KnownDriver
    <3>5. job.pcm.period \in Periods
      BY <3>4
    <3> QED
      BY <1>1, <1>2, <3>1, <3>5, OpenStep
  <2>2. CASE job.swap /\ job.pcm.kind # "jack" /\ pcm.kind = "jack"
    <3>1. JackClosed
      BY <2>2 DEF update_driver_set
    <3> QED
      BY <1>1, <1>2, <3>1, CloseStep
  <2>3. CASE ~job.swap \/ (job.pcm.kind # "jack" /\ pcm.kind # "jack")
    <3>1. UNCHANGED jvars
      BY <1>1, <2>3 DEF update_driver_set, jvars
    <3> QED
      BY <1>2, <3>1, ServerStep
  <2> QED
    BY <2>1, <2>2, <2>3
<1>6. AlsaInv'
  <2>1. CASE job.swap /\ job.pcm.kind = "alsa"
    <3>1. AlsaOpened(job.pcm)
      BY <2>1 DEF update_driver_set
    <3>2. job.pcm.size \in Nat /\ job.pcm.size >= AlsaPeriod /\ job.pcm.n_periods \in Nat
      <4>1. PICK b \in AlsaBuffers : job.pcm = [kind |-> "alsa", size |-> b.size, n_periods |-> b.n_periods]
        BY <1>2, <2>1 DEF KnownDriver, NullDriver
      <4> QED
        BY <4>1, AlsaBuffersAssumption
    <3> QED
      BY <1>1, <1>2, <3>1, <3>2, AlsaOpenStep
  <2>2. CASE adev' = NoDevice
    BY <1>1, <1>2, <2>2, AlsaCloseStep
  <2>3. CASE adev' = adev
    <3>1. AlsaStep
      BY <1>1, <2>3 DEF AlsaStep, avars
    <3> QED
      BY <1>2, <3>1, AlsaNextInv
  <2>4. (job.swap /\ job.pcm.kind = "alsa") \/ adev' = NoDevice \/ adev' = adev
    BY DEF update_driver_set
  <2> QED
    BY <2>1, <2>2, <2>3, <2>4
<1> QED
  BY <1>4, <1>5, <1>6 DEF PcmInv

LEMMA PcmNextInv == PcmInv /\ [PcmNext]_pcmVars => PcmInv'
<1> SUFFICES ASSUME PcmInv, [PcmNext]_pcmVars PROVE PcmInv'
  OBVIOUS
<1>1. ASSUME NEW pcm_name \in PcmNames, NEW midis \in MidiPrefs, update_drivers(pcm_name, midis) PROVE PcmInv'
  BY <1>1, UpdateDrivers
<1>2. CASE update_driver_set
  BY <1>2, UpdateDriverSet
<1>3. ASSUME UNCHANGED <<dset, job, pcm, midi>> PROVE SetInv'
  BY <1>3 DEF PcmInv, SetInv, MidiOK, UsesPcm
<1>4. ASSUME UNCHANGED <<dset, job, pcm, midi>>,
             process_callback \/ JackCheckIO \/ JackPcmWrite \/ JackShutdown \/ JackPeriod \/ UNCHANGED jvars,
             AlsaStep
      PROVE  PcmInv'
  BY <1>3, <1>4, CallbackStep, EngineStep, ServerStep, AlsaNextInv DEF PcmInv
<1>5. CASE DestroyJobs \/ UNCHANGED pcmVars
  BY <1>4, <1>5 DEF DestroyJobs, pcmVars, dvars, AlsaStep
<1>6. CASE pcm_check_write \/ JackThread
  BY <1>4, <1>6 DEF pcm_check_write, JackThread, dvars, AlsaStep
<1>7. CASE Playback \/ DeviceFaults
  BY <1>4, <1>7 DEF Playback, DeviceFaults, dvars, AlsaStep
<1> QED
  BY <1>1, <1>2, <1>5, <1>6, <1>7 DEF PcmNext

LEMMA SetInvSound == SetInv => EngineUsesSelected
  BY DEF SetInv, EngineUsesSelected, UsesPcm, NoDouble

-----------------------------------------------------------------------------
(* ENotify *)

\* t has claimed p and has yet to publish it; the dispatcher has taken p and
\* has yet to unlink it; p is in the queue or in the list under dispatch.
Inserting(t, p) == nproc[t] = p /\ npc[t] \in {"guard", "load", "store", "push"}
Leaving(p) == notifying = p /\ dpc \in {"unguard", "unlink"}
Linked(p) == nqueue_next[p] # NoProc /\ ~Leaving(p) /\ \A t \in Notifiers : ~Inserting(t, p)

CallerInv ==
  \A t \in Notifiers :
    /\ nproc[t] \notin freed /\ (npc[t] # "idle" => nproc[t] \in Procs)
    /\ npc[t] = "idle" => nproc[t] = NoProc
    /\ npc[t] = "setbit" => "PARAMCHANGE" \in pushmask[t] /\ nparam[t] \in ParamIndices
    /\ npc[t] \in {"guard", "load", "store", "push"} =>
         nqueue_next[nproc[t]] # NoProc /\ ~Leaving(nproc[t])
    /\ npc[t] = "guard" => ~nqueue_guard[nproc[t]]
    /\ npc[t] \in {"load", "store", "push"} => nqueue_guard[nproc[t]]
    /\ npc[t] \in {"guard", "load"} => nqueue_next[nproc[t]] = QueueTail
    /\ npc[t] \in {"store", "push"} => expected[t] \in Procs \cup {QueueTail}
    /\ npc[t] = "push" => nqueue_next[nproc[t]] = expected[t]

OneInserter ==
  \A t, u \in Notifiers : \A p \in Procs : Inserting(t, p) /\ Inserting(u, p) => t = u

DispatchInv ==
  /\ dhead # NoProc /\ (dpc = "idle" => dhead = QueueTail)
  /\ dpc \in {"idle", "take"} <=> notifying = NoProc
  /\ notifying \notin freed
  /\ dpc \in {"unguard", "unlink"} => nqueue_next[notifying] = dhead
  /\ dpc = "unguard" => nqueue_guard[notifying]
  /\ dpc = "unlink" => ~nqueue_guard[notifying]

\* The queue and the list under dispatch are disjoint and no processor has
\* two predecessors.
ListInv ==
  /\ \A p \in Procs : nqueue_next[p] = NoProc => ~nqueue_guard[p]
  /\ \A p \in Procs : Linked(p) => nqueue_guard[p] /\ (nqueue_next[p] \in Procs => Linked(nqueue_next[p]))
  /\ queue_head \in Procs => Linked(queue_head) /\ queue_head # dhead
  /\ dhead \in Procs => Linked(dhead)
  /\ \A p \in Procs : Linked(p) /\ nqueue_next[p] \in Procs =>
       /\ nqueue_next[p] # queue_head /\ nqueue_next[p] # dhead
       /\ \A q \in Procs : Linked(q) /\ nqueue_next[q] = nqueue_next[p] => q = p

FreedInv == \A p \in freed : ~has_device[p] /\ nqueue_next[p] = NoProc

FlagsInv ==
  \A p \in Procs : flags[p] # {} =>
    \/ nqueue_next[p] # NoProc
    \/ \E t \in Notifiers : nproc[t] = p /\ npc[t] = "cas"
    \/ notifying = p /\ dpc = "flags"

BlockInv ==
  /\ \E k \in Nat : block = k * BlockBits
  /\ dpc = "report" => bitmask \subseteq BlockOf(block)

\* As StaleParamsReported, but flags_ alone tells that PARAMCHANGE is to come.
Covered(p, i) ==
  \/ \E t \in Notifiers : nproc[t] = p /\ nparam[t] = i /\ npc[t] = "setbit"
  \/ notifying = p /\ dpc = "report" /\ i \in bitmask
  \/ /\ i \in dirty_bits[p]
     /\ \/ "PARAMCHANGE" \in flags[p]
        \/ \E t \in Notifiers : nproc[t] = p /\ npc[t] = "or" /\ "PARAMCHANGE" \in pushmask[t]
        \/ notifying = p /\ dpc = "bits" /\ block <= i
        \/ notifying = p /\ dpc = "report" /\ block + BlockBits <= i
StaleInv == \A p \in Procs : \A i \in stale[p] \ LastOfBlock : has_device[p] => Covered(p, i)

QueueInv == CallerInv /\ OneInserter /\ DispatchInv /\ ListInv /\ FreedInv
NotifyInv == NotifyTypeOK /\ QueueInv /\ FlagsInv /\ BlockInv /\ StaleInv

-----------------------------------------------------------------------------
(* Type correctness *)

LEMMA NotifyInitType == NotifyInit => NotifyTypeOK
  BY ENotifyAssumption DEF NotifyInit, NotifyTypeOK, NotifyPtr, ParamIndices

LEMMA NotifyNextType == NotifyTypeOK /\ DispatchInv /\ CallerInv /\ [NotifyNext]_notifyVars => NotifyTypeOK'
<1> SUFFICES ASSUME NotifyTypeOK, DispatchInv, CallerInv, [NotifyNext]_notifyVars PROVE NotifyTypeOK'
  OBVIOUS
<1> USE ENotifyAssumption DEF NotifyTypeOK, NotifyPtr, NOTIFYMASK, queue, callers, dispatch
<1>1. ASSUME NEW t \in Notifiers, NEW p \in Procs, NEW f \in BusFlags, Enqueue(t, p, f) PROVE NotifyTypeOK'
  BY <1>1 DEF Enqueue, Goto, CallNotify
<1>2. ASSUME NEW p \in Procs, NEW i \in ParamIndices, SetParam(p, i) PROVE NotifyTypeOK'
  BY <1>2 DEF SetParam, Goto, CallNotify
<1>3. ASSUME NEW t \in Notifiers, SetDirty(t) PROVE NotifyTypeOK'
  <2>1. nproc[t] \in Procs
    BY <1>3 DEF CallerInv, SetDirty
  <2> QED
    BY <1>3, <2>1 DEF SetDirty, Goto, ParamIndices, CallerInv
<1>4. ASSUME NEW t \in Notifiers, FetchOr(t) PROVE NotifyTypeOK'
  BY <1>4 DEF FetchOr, Goto, ReturnNotify
<1>5. ASSUME NEW t \in Notifiers, Claim(t) PROVE NotifyTypeOK'
  BY <1>5 DEF Claim, Goto, ReturnNotify
<1>6. ASSUME NEW t \in Notifiers, Guard(t) \/ LoadHead(t) \/ StoreQueueNext(t) PROVE NotifyTypeOK'
  <2>1. CASE Guard(t)
    BY <2>1 DEF Guard, Goto
  <2>2. CASE LoadHead(t)
    BY <2>2 DEF LoadHead, Goto
  <2>3. CASE StoreQueueNext(t)
    BY <2>3 DEF StoreQueueNext, Goto, CallerInv
  <2> QED
    BY <1>6, <2>1, <2>2, <2>3
<1>7. ASSUME NEW t \in Notifiers, PushHead(t) PROVE NotifyTypeOK'
  BY <1>7 DEF PushHead, Goto, ReturnNotify, CallerInv
<1>8. CASE DTakeAll \/ DTake \/ DUnguard \/ DUnlink
  <2>1. CASE DTakeAll \/ DUnguard
    BY <2>1 DEF DTakeAll, DUnguard, DFrame, DispatchInv
  <2>2. CASE DTake
    BY <2>2 DEF DTake, DFrame, DispatchInv
  <2>3. CASE DUnlink
    BY <2>3 DEF DUnlink, DFrame, DispatchInv
  <2> QED
    BY <1>8, <2>1, <2>2, <2>3
<1>9. CASE DFlags
  <2>1. notifying \in Procs
    BY <1>9 DEF DFlags, DispatchInv
  <2> QED
    BY <1>9, <2>1 DEF DFlags, Finish, DFrame
<1>10. CASE DBits
  BY <1>10 DEF DBits, DFrame, BlockOf, ParamIndices
<1>11. CASE DReport
  <2>1. block' \in Nat /\ dpc' \in {"take", "bits"} /\ notifying' \in Procs \cup {NoProc}
        /\ nflags' \in SUBSET NOTIFYMASK /\ bitmask' = {}
    BY <1>11 DEF DReport, Finish
  <2>2. stale' \in [Procs -> SUBSET ParamIndices]
    BY <1>11 DEF DReport
  <2> QED
    BY <1>11, <2>1, <2>2 DEF DReport, DFrame
<1>12. ASSUME NEW p \in Procs, DropDevice(p) \/ Release(p) PROVE NotifyTypeOK'
  BY <1>12 DEF DropDevice, Release
<1>13. CASE UNCHANGED notifyVars
  BY <1>13 DEF notifyVars
<1> HIDE DEF NotifyTypeOK
<1> QED
  BY <1>1, <1>2, <1>3, <1>4, <1>5, <1>6, <1>7, <1>8, <1>9, <1>10, <1>11, <1>12, <1>13
  DEF NotifyNext, CallerStep, DispatchStep

-----------------------------------------------------------------------------
(* The queue *)

LEMMA InitQueueInv == NotifyInit => QueueInv
  BY ENotifyAssumption
  DEF NotifyInit, QueueInv, CallerInv, OneInserter, DispatchInv, ListInv, FreedInv, Inserting, Leaving, Linked

LEMMA NextQueueInv == NotifyTypeOK /\ QueueInv /\ [NotifyNext]_notifyVars => QueueInv'
<1> SUFFICES ASSUME NotifyTypeOK, QueueInv, [NotifyNext]_notifyVars PROVE QueueInv'
  OBVIOUS
<1> USE ENotifyAssumption DEF NotifyTypeOK, QueueInv, NotifyPtr, queue, callers, dispatch, Inserting, Leaving
<1>1. ASSUME NEW t \in Notifiers, NEW p \in Procs, NEW f \in BusFlags, Enqueue(t, p, f) PROVE QueueInv'
  <2>1. CallerInv' /\ OneInserter'
    BY <1>1 DEF Enqueue, Goto, CallNotify, CallerInv, OneInserter
  <2>2. \A q \in Procs : Linked(q)' <=> Linked(q)
    BY <1>1 DEF Enqueue, Goto, CallNotify, Linked
  <2> QED
    BY <1>1, <2>1, <2>2 DEF Enqueue, DispatchInv, ListInv, FreedInv
<1>2. ASSUME NEW p \in Procs, NEW i \in ParamIndices, SetParam(p, i) PROVE QueueInv'
  <2>1. CallerInv' /\ OneInserter'
    BY <1>2 DEF SetParam, Goto, CallNotify, CallerInv, OneInserter
  <2>2. \A q \in Procs : Linked(q)' <=> Linked(q)
    BY <1>2 DEF SetParam, Goto, CallNotify, Linked
  <2> QED
    BY <1>2, <2>1, <2>2 DEF SetParam, DispatchInv, ListInv, FreedInv
<1>3. ASSUME NEW t \in Notifiers, SetDirty(t) \/ FetchOr(t) PROVE QueueInv'
  <2>1. CallerInv' /\ OneInserter'
    BY <1>3 DEF SetDirty, FetchOr, Goto, ReturnNotify, CallerInv, OneInserter
  <2>2. \A q \in Procs : Linked(q)' <=> Linked(q)
    BY <1>3 DEF SetDirty, FetchOr, Goto, ReturnNotify, Linked
  <2> QED
    BY <1>3, <2>1, <2>2 DEF SetDirty, FetchOr, DispatchInv, ListInv, FreedInv
<1>4. ASSUME NEW t \in Notifiers, Claim(t) PROVE QueueInv'
  <2>1. CallerInv' /\ OneInserter'
    BY <1>4 DEF Claim, Goto, ReturnNotify, CallerInv, OneInserter, DispatchInv, ListInv
  <2>2. \A q \in Procs : Linked(q)' <=> Linked(q)
    BY <1>4 DEF Claim, Goto, ReturnNotify, Linked, CallerInv
  <2>3. ListInv'
    BY <1>4, <2>2 DEF Claim, ListInv, Linked
  <2> QED
    BY <1>4, <2>1, <2>3 DEF Claim, DispatchInv, FreedInv, CallerInv
<1>5. ASSUME NEW t \in Notifiers, Guard(t) PROVE QueueInv'
  <2>1. CallerInv' /\ OneInserter'
    BY <1>5 DEF Guard, Goto, CallerInv, OneInserter
  <2>2. \A q \in Procs : Linked(q)' <=> Linked(q)
    BY <1>5 DEF Guard, Goto, Linked
  <2>3. ListInv'
    BY <1>5, <2>2 DEF Guard, ListInv, CallerInv
  <2> QED
    BY <1>5, <2>1, <2>3 DEF Guard, DispatchInv, FreedInv, CallerInv
<1>6. ASSUME NEW t \in Notifiers, LoadHead(t) PROVE QueueInv'
  <2>1. CallerInv' /\ OneInserter'
    BY <1>6 DEF LoadHead, Goto, CallerInv, OneInserter
  <2>2. \A q \in Procs : Linked(q)' <=> Linked(q)
    BY <1>6 DEF LoadHead, Goto, Linked
  <2> QED
    BY <1>6, <2>1, <2>2 DEF LoadHead, DispatchInv, ListInv, FreedInv
<1>7. ASSUME NEW t \in Notifiers, StoreQueueNext(t) PROVE QueueInv'
  <2>1. CallerInv' /\ OneInserter'
    BY <1>7 DEF StoreQueueNext, Goto, CallerInv, OneInserter
  <2>2. \A q \in Procs : Linked(q)' <=> Linked(q)
    BY <1>7 DEF StoreQueueNext, Goto, Linked, CallerInv
  <2>3. ListInv'
    BY <1>7, <2>2 DEF StoreQueueNext, ListInv, CallerInv, Linked
  <2> QED
    BY <1>7, <2>1, <2>3 DEF StoreQueueNext, DispatchInv, FreedInv, CallerInv
<1>8. ASSUME NEW t \in Notifiers, PushHead(t) PROVE QueueInv'
  <2>1. CallerInv' /\ OneInserter'
    BY <1>8 DEF PushHead, Goto, ReturnNotify, CallerInv, OneInserter
  <2>2. CASE queue_head # expected[t]
    <3>1. \A q \in Procs : Linked(q)' <=> Linked(q)
      BY <1>8, <2>2 DEF PushHead, Goto, Linked
    <3> QED
      BY <1>8, <2>1, <2>2, <3>1 DEF PushHead, DispatchInv, ListInv, FreedInv
  <2>3. CASE queue_head = expected[t]
    <3>1. nproc[t] \in Procs /\ ~Linked(nproc[t]) /\ nqueue_next[nproc[t]] = queue_head
          /\ nqueue_guard[nproc[t]]
      BY <1>8, <2>3 DEF PushHead, Linked, CallerInv
    <3>2. \A q \in Procs : Linked(q)' <=> Linked(q) \/ q = nproc[t]
      BY <1>8, <2>3 DEF PushHead, Goto, ReturnNotify, Linked, CallerInv, OneInserter
    <3>3. queue_head' = nproc[t]
      BY <1>8, <2>3 DEF PushHead
    <3>4. UNCHANGED <<nqueue_next, nqueue_guard, dhead, freed, has_device, notifying, dpc>>
      BY <1>8 DEF PushHead
    <3>5. ListInv'
      BY <3>1, <3>2, <3>3, <3>4 DEF ListInv
    <3> QED
      BY <2>1, <3>4, <3>5 DEF DispatchInv, FreedInv
  <2> QED
    BY <2>2, <2>3
<1>9. CASE DTakeAll
  <2>1. CallerInv' /\ OneInserter' /\ \A q \in Procs : Linked(q)' <=> Linked(q)
    BY <1>9 DEF DTakeAll, DFrame, CallerInv, OneInserter, Linked
  <2>2. ListInv'
    BY <1>9, <2>1 DEF DTakeAll, ListInv, DispatchInv
  <2> QED
    BY <1>9, <2>1, <2>2 DEF DTakeAll, DFrame, DispatchInv, FreedInv
<1>10. CASE DTake
  <2>1. CASE dhead = QueueTail
    <3>1. CallerInv' /\ OneInserter' /\ \A q \in Procs : Linked(q)' <=> Linked(q)
      BY <1>10, <2>1 DEF DTake, DFrame, CallerInv, OneInserter, Linked
    <3> QED
      BY <1>10, <2>1, <3>1 DEF DTake, DFrame, DispatchInv, ListInv, FreedInv
  <2>2. CASE dhead # QueueTail
    <3>1. dhead \in Procs /\ Linked(dhead) /\ dhead \notin freed
      BY <2>2 DEF DispatchInv, ListInv, FreedInv, Linked
    <3>2. notifying' = dhead /\ dhead' = nqueue_next[dhead] /\ dpc' = "unguard" /\ dpc = "take"
          /\ UNCHANGED <<nqueue_next, nqueue_guard, queue_head, freed, has_device, npc, nproc, expected,
                         pushmask, nparam>>
      BY <1>10, <2>2 DEF DTake, DFrame
    <3>3. \A q \in Procs : Linked(q)' <=> Linked(q) /\ q # dhead
      BY <3>2 DEF Linked
    <3>4. CallerInv' /\ OneInserter'
      BY <3>1, <3>2 DEF CallerInv, OneInserter, Linked
    <3>5. ListInv'
      BY <3>1, <3>2, <3>3 DEF ListInv
    <3>6. DispatchInv' /\ FreedInv'
      BY <3>1, <3>2 DEF DispatchInv, FreedInv, ListInv, Linked
    <3> QED
      BY <3>4, <3>5, <3>6
  <2> QED
    BY <2>1, <2>2
<1>11. CASE DUnguard
  <2>1. CallerInv' /\ OneInserter' /\ \A q \in Procs : Linked(q)' <=> Linked(q)
    BY <1>11 DEF DUnguard, DFrame, CallerInv, OneInserter, Linked
  <2>2. ListInv'
    BY <1>11, <2>1 DEF DUnguard, DFrame, ListInv, DispatchInv, Linked
  <2> QED
    BY <1>11, <2>1, <2>2 DEF DUnguard, DFrame, DispatchInv, FreedInv
<1>12. CASE DUnlink
  <2>1. CallerInv' /\ OneInserter' /\ \A q \in Procs : Linked(q)' <=> Linked(q)
    BY <1>12 DEF DUnlink, DFrame, CallerInv, OneInserter, Linked, DispatchInv
  <2>2. ListInv'
    BY <1>12, <2>1 DEF DUnlink, DFrame, ListInv, DispatchInv, Linked
  <2> QED
    BY <1>12, <2>1, <2>2 DEF DUnlink, DFrame, DispatchInv, FreedInv
<1>13. CASE DFlags \/ DBits \/ DReport
  <2>1. UNCHANGED <<nqueue_next, nqueue_guard, queue_head, freed, has_device, npc, nproc, expected,
                    pushmask, nparam, dhead>>
        /\ dpc \in {"flags", "bits", "report"}
        /\ \/ dpc' = "take" /\ notifying' = NoProc
           \/ dpc' \in {"bits", "report"} /\ notifying' = notifying
    BY <1>13 DEF DFlags, DBits, DReport, Finish, DFrame
  <2>2. CallerInv' /\ OneInserter' /\ \A q \in Procs : Linked(q)' <=> Linked(q)
    BY <2>1 DEF CallerInv, OneInserter, Linked
  <2> QED
    BY <2>1, <2>2 DEF DispatchInv, ListInv, FreedInv
<1>14. ASSUME NEW p \in Procs, DropDevice(p) PROVE QueueInv'
  <2>1. CallerInv' /\ OneInserter' /\ \A q \in Procs : Linked(q)' <=> Linked(q)
    BY <1>14 DEF DropDevice, CallerInv, OneInserter, Linked
  <2> QED
    BY <1>14, <2>1 DEF DropDevice, DispatchInv, ListInv, FreedInv
<1>15. ASSUME NEW p \in Procs, Release(p) PROVE QueueInv'
  <2>1. CallerInv' /\ OneInserter' /\ \A q \in Procs : Linked(q)' <=> Linked(q)
    BY <1>15 DEF Release, CallerInv, OneInserter, Linked
  <2>2. FreedInv'
    BY <1>15 DEF Release, FreedInv, DispatchInv, ListInv, Linked
  <2> QED
    BY <1>15, <2>1, <2>2 DEF Release, DispatchInv, ListInv
<1>16. CASE UNCHANGED notifyVars
  BY <1>16 DEF notifyVars, CallerInv, OneInserter, DispatchInv, ListInv, FreedInv, Linked
<1> HIDE DEF NotifyTypeOK, QueueInv
<1> QED
  BY <1>1, <1>2, <1>3, <1>4, <1>5, <1>6, <1>7, <1>8, <1>9, <1>10, <1>11, <1>12, <1>13, <1>14, <1>15, <1>16
  DEF NotifyNext, CallerStep, DispatchStep

-----------------------------------------------------------------------------
(* Notification flags *)

LEMMA NextFlagsInv == NotifyTypeOK /\ QueueInv /\ FlagsInv /\ [NotifyNext]_notifyVars => FlagsInv'
<1> SUFFICES ASSUME NotifyTypeOK, QueueInv, FlagsInv, [NotifyNext]_notifyVars PROVE FlagsInv'
  OBVIOUS
<1> USE ENotifyAssumption DEF NotifyTypeOK, QueueInv, CallerInv, DispatchInv, FlagsInv, queue, callers, dispatch
<1>1. ASSUME NEW t \in Notifiers, NEW p \in Procs, NEW f \in BusFlags, Enqueue(t, p, f) PROVE FlagsInv'
  BY <1>1 DEF Enqueue, Goto, CallNotify
<1>2. ASSUME NEW p \in Procs, NEW i \in ParamIndices, SetParam(p, i) PROVE FlagsInv'
  BY <1>2 DEF SetParam, Goto, CallNotify
<1>3. ASSUME NEW t \in Notifiers, SetDirty(t) PROVE FlagsInv'
  BY <1>3 DEF SetDirty, Goto
<1>4. ASSUME NEW t \in Notifiers, FetchOr(t) PROVE FlagsInv'
  BY <1>4 DEF FetchOr, Goto, ReturnNotify
<1>5. ASSUME NEW t \in Notifiers, Claim(t) PROVE FlagsInv'
  BY <1>5 DEF Claim, Goto, ReturnNotify
<1>6. ASSUME NEW t \in Notifiers, Guard(t) \/ LoadHead(t) \/ StoreQueueNext(t) PROVE FlagsInv'
  BY <1>6 DEF Guard, LoadHead, StoreQueueNext, Goto
<1>7. ASSUME NEW t \in Notifiers, PushHead(t) PROVE FlagsInv'
  BY <1>7 DEF PushHead, Goto, ReturnNotify
<1>8. CASE DTakeAll \/ DTake \/ DUnguard \/ DUnlink
  BY <1>8 DEF DTakeAll, DTake, DUnguard, DUnlink, DFrame
<1>9. CASE DFlags
  BY <1>9 DEF DFlags, Finish, DFrame
<1>10. CASE DBits \/ DReport
  BY <1>10 DEF DBits, DReport, Finish, DFrame
<1>11. ASSUME NEW p \in Procs, DropDevice(p) \/ Release(p) PROVE FlagsInv'
  BY <1>11 DEF DropDevice, Release
<1>12. CASE UNCHANGED notifyVars
  BY <1>12 DEF notifyVars
<1> HIDE DEF NotifyTypeOK, QueueInv, FlagsInv
<1> QED
  BY <1>1, <1>2, <1>3, <1>4, <1>5, <1>6, <1>7, <1>8, <1>9, <1>10, <1>11, <1>12
  DEF NotifyNext, CallerStep, DispatchStep

-----------------------------------------------------------------------------
(* Dirty parameters *)

LEMMA NextBlock == ASSUME NEW b \in Nat, \E k \in Nat : b = k * BlockBits
                   PROVE  \E k \in Nat : b + BlockBits = k * BlockBits
<1>1. PICK k \in Nat : b = k * BlockBits
  OBVIOUS
<1>2. k + 1 \in Nat /\ b + BlockBits = (k + 1) * BlockBits
  BY <1>1, ENotifyAssumption
<1> QED
  BY <1>2

LEMMA NextBlockInv == NotifyTypeOK /\ BlockInv /\ [NotifyNext]_notifyVars => BlockInv'
<1> SUFFICES ASSUME NotifyTypeOK, BlockInv, [NotifyNext]_notifyVars PROVE BlockInv'
  OBVIOUS
<1>1. block \in Nat /\ BlockBits \in Nat \ {0} /\ 0 = 0 * BlockBits
  BY ENotifyAssumption DEF NotifyTypeOK
<1>2. CASE UNCHANGED <<block, dpc, bitmask>>
  BY <1>2 DEF BlockInv, BlockOf
<1>3. ASSUME DFlags \/ DReport PROVE BlockInv'
  <2>1. dpc' # "report" /\ block' \in {0, block, block + BlockBits}
    BY <1>3 DEF DFlags, DReport, Finish
  <2>2. \E k \in Nat : block' = k * BlockBits
    BY <2>1, <1>1, NextBlock DEF BlockInv
  <2> QED
    BY <2>1, <2>2 DEF BlockInv
<1>4. CASE DBits
  BY <1>4 DEF DBits, BlockInv, BlockOf, dispatch
<1>5. CASE DTakeAll \/ DTake \/ DUnguard \/ DUnlink
  <2>1. dpc' # "report" /\ block' = block
    BY <1>5 DEF DTakeAll, DTake, DUnguard, DUnlink
  <2> QED
    BY <2>1 DEF BlockInv
<1>6. ASSUME ~DispatchStep PROVE UNCHANGED <<block, dpc, bitmask>>
  BY <1>6 DEF NotifyNext, CallerStep, Enqueue, SetParam, SetDirty, FetchOr, Claim, Guard, LoadHead,
              StoreQueueNext, PushHead, DropDevice, Release, notifyVars, dispatch
<1> QED
  BY <1>2, <1>3, <1>4, <1>5, <1>6 DEF DispatchStep

LEMMA NextStaleInv ==
  NotifyTypeOK /\ QueueInv /\ BlockInv /\ StaleInv /\ [NotifyNext]_notifyVars => StaleInv'
<1> SUFFICES ASSUME NotifyTypeOK, QueueInv, BlockInv, StaleInv, [NotifyNext]_notifyVars PROVE StaleInv'
  OBVIOUS
<1> USE ENotifyAssumption DEF NotifyTypeOK, QueueInv, CallerInv, DispatchInv, queue, callers, dispatch
<1> SUFFICES ASSUME NEW p \in Procs, NEW i \in stale'[p] \ LastOfBlock, has_device'[p] PROVE Covered(p, i)'
  BY DEF StaleInv, LastOfBlock, ParamIndices
<1>0. StaleInv => (i \in stale[p] /\ has_device[p] => Covered(p, i))
  BY DEF StaleInv
<1>1. ASSUME NEW t \in Notifiers, NEW q \in Procs, NEW f \in BusFlags, Enqueue(t, q, f) PROVE Covered(p, i)'
  BY <1>0, <1>1 DEF Enqueue, Goto, CallNotify, Covered
<1>2. ASSUME NEW q \in Procs, NEW k \in ParamIndices, SetParam(q, k) PROVE Covered(p, i)'
  <2>1. CASE p = q /\ i = k
    BY <1>2, <2>1 DEF SetParam, Goto, CallNotify, Covered
  <2>2. CASE ~(p = q /\ i = k)
    BY <1>0, <1>2, <2>2 DEF SetParam, Goto, CallNotify, Covered
  <2> QED
    BY <2>1, <2>2
<1>3. ASSUME NEW t \in Notifiers, SetDirty(t) PROVE Covered(p, i)'
  <2>1. CASE nproc[t] = p /\ nparam[t] = i
    BY <1>3, <2>1 DEF SetDirty, Goto, Covered
  <2>2. CASE ~(nproc[t] = p /\ nparam[t] = i)
    BY <1>0, <1>3, <2>2 DEF SetDirty, Goto, Covered
  <2> QED
    BY <2>1, <2>2
<1>4. ASSUME NEW t \in Notifiers, FetchOr(t) PROVE Covered(p, i)'
  BY <1>0, <1>4 DEF FetchOr, Goto, ReturnNotify, Covered
<1>5. ASSUME NEW t \in Notifiers, Claim(t) \/ Guard(t) \/ LoadHead(t) \/ StoreQueueNext(t) \/ PushHead(t)
      PROVE  Covered(p, i)'
  BY <1>0, <1>5 DEF Claim, Guard, LoadHead, StoreQueueNext, PushHead, Goto, ReturnNotify, Covered
<1>6. CASE DTakeAll \/ DTake \/ DUnguard \/ DUnlink
  BY <1>0, <1>6 DEF DTakeAll, DTake, DUnguard, DUnlink, DFrame, Covered
<1>7. CASE DFlags
  <2>1. i \in Nat /\ ParamCount > 0 /\ i \in stale[p]
    BY <1>7 DEF DFlags, ParamIndices
  <2> QED
    BY <1>0, <1>7, <2>1 DEF DFlags, Finish, DFrame, Covered
<1>8. CASE DBits
  <2>1. i \in ParamIndices /\ i \in Nat /\ block \in Nat /\ BlockBits \in Nat
    BY <1>8 DEF DBits, ParamIndices
  <2>2. CASE p = notifying /\ i \in BlockOf(block)
    BY <1>0, <1>8, <2>1, <2>2 DEF DBits, DFrame, Covered, BlockOf
  <2>3. CASE ~(p = notifying /\ i \in BlockOf(block))
    BY <1>0, <1>8, <2>1, <2>3 DEF DBits, DFrame, Covered, BlockOf
  <2> QED
    BY <2>2, <2>3
<1>9. CASE DReport
  <2>1. i \in stale[p] /\ has_device[p] /\ (p = notifying => ~(i \in bitmask /\ i < Bound))
    BY <1>9 DEF DReport, DFrame
  <2>2. i \in 0..ParamCount-1 /\ i \in Nat /\ ParamCount \in Nat /\ block \in Nat /\ BlockBits \in Nat \ {0}
    BY <2>1 DEF ParamIndices
  <2>3. ~(notifying = p /\ i \in bitmask)
    <3> SUFFICES ASSUME notifying = p, i \in bitmask PROVE FALSE
      OBVIOUS
    <3>1. i >= block /\ i < block + BlockBits /\ ~(i < Bound)
      BY <1>9, <2>1 DEF DReport, BlockInv, BlockOf
    <3>2. i + 1 = block + BlockBits
      BY <2>2, <3>1 DEF Bound
    <3>3. PICK k \in Nat : i + 1 = k * BlockBits
      BY <2>2, <3>2, NextBlock DEF BlockInv
    <3>4. k \in 1..ParamCount
      BY <2>2, <3>3
    <3> QED
      BY <2>2, <3>3, <3>4 DEF LastOfBlock, ParamIndices
  <2>4. CASE MoreBlocks
    BY <1>0, <1>9, <2>1, <2>2, <2>3, <2>4 DEF DReport, DFrame, Covered
  <2>5. CASE ~MoreBlocks
    BY <1>0, <1>9, <2>1, <2>2, <2>3, <2>5 DEF DReport, Finish, DFrame, Covered, MoreBlocks
  <2> QED
    BY <2>4, <2>5
<1>10. ASSUME NEW q \in Procs, DropDevice(q) \/ Release(q) PROVE Covered(p, i)'
  BY <1>0, <1>10 DEF DropDevice, Release, Covered
<1>11. CASE UNCHANGED notifyVars
  BY <1>0, <1>11 DEF notifyVars, Covered
<1> HIDE DEF NotifyTypeOK, QueueInv
<1> QED
  BY <1>1, <1>2, <1>3, <1>4, <1>5, <1>6, <1>7, <1>8, <1>9, <1>10, <1>11
  DEF NotifyNext, CallerStep, DispatchStep

-----------------------------------------------------------------------------
LEMMA NotifyInvSound == NotifyInv => NotifySound
<1> SUFFICES ASSUME NotifyInv PROVE NotifySound
  OBVIOUS
<1> USE ENotifyAssumption DEF NotifyInv, NotifyTypeOK, QueueInv, CallerInv, DispatchInv, NotifyPtr
<1>1. FlagsReachQueue
  BY DEF FlagsReachQueue, QueuedOrTaken, FlagsInv
<1>2. StaleParamsReported
  <2> SUFFICES ASSUME NEW p \in Procs, NEW i \in stale[p] \ LastOfBlock, has_device[p], Covered(p, i)
               PROVE  \/ \E t \in Notifiers : nproc[t] = p /\ nparam[t] = i /\ npc[t] = "setbit"
                      \/ notifying = p /\ dpc = "report" /\ i \in bitmask
                      \/ /\ i \in dirty_bits[p]
                         /\ \/ "PARAMCHANGE" \in flags[p] /\ QueuedOrTaken(p)
                            \/ \E t \in Notifiers : nproc[t] = p /\ npc[t] = "or" /\ "PARAMCHANGE" \in pushmask[t]
                            \/ notifying = p /\ (dpc = "bits" \/ dpc = "report") /\ block <= i
                               /\ (dpc = "report" => block + BlockBits <= i)
    BY DEF StaleParamsReported, StaleInv
  <2>1. "PARAMCHANGE" \in flags[p] => QueuedOrTaken(p)
    BY <1>1 DEF FlagsReachQueue
  <2>2. i \in Nat /\ block \in Nat /\ BlockBits \in Nat
    BY DEF ParamIndices
  <2> QED
    BY <2>1, <2>2 DEF Covered
<1>3. NoUseAfterFree
  BY DEF NoUseAfterFree, ListInv, FreedInv, Linked, Inserting, Leaving
<1>4. GuardIsNull
  BY DEF GuardIsNull
<1> QED
  BY <1>1, <1>2, <1>3, <1>4 DEF NotifySound

LEMMA NotifyInitInv == NotifyInit => NotifyInv
  BY NotifyInitType, InitQueueInv, ENotifyAssumption
  DEF NotifyInv, NotifyInit, FlagsInv, BlockInv, StaleInv

LEMMA NotifyNextInv == NotifyInv /\ [NotifyNext]_notifyVars => NotifyInv'
  BY NotifyNextType, NextQueueInv, NextFlagsInv, NextBlockInv, NextStaleInv DEF NotifyInv, QueueInv

(* Notifications get lost neither by skipped insertions nor by a device     *)
(* that goes away, and what the dispatcher takes from the queue is alive:   *)
(* for any number of threads that call enotify_enqueue_mt, of processors    *)
(* and of parameters, and any size of the blocks of dirty bits.             *)
THEOREM NotificationsSound == NotifySpec => []NotifySound
<1>1. NotifyInit => NotifyInv
  BY NotifyInitInv
<1>2. NotifyInv => NotifySound
  BY NotifyInvSound
<1> QED
  BY <1>1, <1>2, NotifyNextInv, PTL DEF NotifySpec

-----------------------------------------------------------------------------
(* The components together *)

DriversInv ==
  /\ component = "pcm" => PcmInv
  /\ component = "notify" => NotifyInv
  /\ component = "params" => ParamInv
  /\ component = "sfz" => SfzInv

LEMMA DriversInitInv == DriversInit => DriversInv
  BY PcmInitInv, NotifyInitInv, ParamInitInv, SfzInvInductive DEF DriversInit, DriversInv

LEMMA DriversNextInv == DriversInv /\ [DriversNext]_driverVars => DriversInv'
<1> SUFFICES ASSUME DriversInv, [DriversNext]_driverVars PROVE DriversInv'
  OBVIOUS
<1>1. CASE component = "pcm"
  <2>1. component' = "pcm" /\ [PcmNext]_pcmVars
    BY <1>1 DEF DriversNext, driverVars
  <2> QED
    BY <1>1, <2>1, PcmNextInv DEF DriversInv
<1>2. CASE component = "notify"
  <2>1. component' = "notify" /\ [NotifyNext]_notifyVars
    BY <1>2 DEF DriversNext, driverVars
  <2>2. NotifyInv'
    BY <1>2, <2>1, NotifyNextInv DEF DriversInv
  <2> QED
    BY <2>1, <2>2 DEF DriversInv
<1>3. CASE component = "params"
  <2>1. component' = "params" /\ [ParamNext]_paramVars
    BY <1>3 DEF DriversNext, driverVars
  <2> QED
    BY <1>3, <2>1, ParamNextInv DEF DriversInv
<1>4. CASE component = "sfz"
  <2>1. component' = "sfz" /\ [SfzNext]_sfzVars
    BY <1>4 DEF DriversNext, driverVars
  <2> QED
    BY <1>4, <2>1, SfzInvInductive DEF DriversInv
<1>5. CASE component \notin {"pcm", "notify", "params", "sfz"}
  <2>1. component' = component
    BY <1>5 DEF DriversNext, driverVars
  <2> QED
    BY <1>5, <2>1 DEF DriversInv
<1> QED
  BY <1>1, <1>2, <1>3, <1>4, <1>5

(* Between the engine and a JACK or ALSA device no frame is lost, doubled   *)
(* or reordered, the assertions of process_callback() and pcm_write() hold, *)
(* the latency stays what pcm_latency() reports, neither side ever waits    *)
(* for the other, and the engine uses the drivers that update_drivers() has *)
(* selected: for every block length, set of JACK periods, ALSA buffer and   *)
(* number of MIDI drivers.                                                  *)
THEOREM PcmAlwaysSound == DriversSpec => []PcmSound
<1>1. DriversInv => PcmSound
  BY JackInvSound, AlsaInvSound, SetInvSound DEF DriversInv, PcmInv, PcmSound
<1> QED
  BY <1>1, DriversInitInv, DriversNextInv, PTL DEF DriversSpec

(* No parameter change is left unreported, every value a client sets is the *)
(* one the engine ends up with, and LiquidSFZ's synthesizer is used by one  *)
(* thread at a time, without a lock: for any number of parameters, values,  *)
(* threads and instruments.                                                 *)
THEOREM ParamsAlwaysSound == DriversSpec => []ParamsSound
<1>1. DriversInv => ParamsSound
  BY NotifyInvSound DEF DriversInv, ParamsSound, NotifySound, ParamInv, SfzInv, SynthExclusive
<1> QED
  BY <1>1, DriversInitInv, DriversNextInv, PTL DEF DriversSpec
=============================================================================
