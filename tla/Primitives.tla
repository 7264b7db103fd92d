----------------------------- MODULE Primitives -----------------------------
(***************************************************************************)
(* Algorithms that other parts build on: sorting networks, hashes and      *)
(* random numbers.                                                         *)
(***************************************************************************)
EXTENDS Integers, Sequences, FiniteSets, SequencesExt

-----------------------------------------------------------------------------
(* The sorting networks of src/ase/sortnet.hh, which order up to 16 MIDI      *)
(* events without allocations, and the order of MidiEventOutput               *)
(* (src/ase/midievent.cc), which calls them.  A network is a sequence of      *)
(* pairs of positions, counted from 0, that are compared and exchanged.       *)

sort_3 == <<
  <<0,1>>, <<0,2>>, <<1,2>> >>
sort_4 == <<
  <<0,1>>, <<2,3>>, <<0,2>>, <<1,3>>, <<1,2>> >>
sort_5 == <<
  <<0,1>>, <<3,4>>, <<2,4>>, <<2,3>>, <<1,4>>, <<1,2>>, <<0,3>>, <<0,1>>, <<2,3>> >>
sort_6Short == <<
  <<0,1>>, <<2,3>>, <<4,5>>, <<0,2>>, <<1,3>>, <<1,2>>, <<0,4>>, <<2,4>>, <<1,5>>, <<3,5>>, <<1,2>> >>
sort_6 == <<
  <<0,1>>, <<2,3>>, <<4,5>>, <<0,2>>, <<1,3>>, <<1,2>>, <<0,4>>, <<2,4>>, <<1,5>>, <<3,5>>, <<1,2>>, <<3,4>> >>
sort_7 == <<
  <<0,1>>, <<2,3>>, <<4,5>>, <<0,2>>, <<1,3>>, <<4,6>>, <<1,2>>, <<5,6>>, <<0,4>>, <<2,6>>, <<1,5>>,
    <<2,4>>, <<3,5>>, <<1,2>>, <<3,4>>, <<5,6>> >>
sort_8 == <<
  <<0,1>>, <<2,3>>, <<4,5>>, <<6,7>>, <<0,2>>, <<1,3>>, <<4,6>>, <<5,7>>, <<1,2>>, <<5,6>>, <<0,4>>,
    <<3,7>>, <<2,6>>, <<1,5>>, <<2,4>>, <<3,5>>, <<1,2>>, <<3,4>>, <<5,6>> >>
sort_9 == <<
  <<0,1>>, <<2,3>>, <<4,5>>, <<6,7>>, <<1,3>>, <<5,7>>, <<0,2>>, <<4,6>>, <<1,5>>, <<3,7>>, <<0,4>>,
    <<2,6>>, <<1,8>>, <<2,4>>, <<3,5>>, <<1,2>>, <<4,8>>, <<2,4>>, <<6,8>>, <<0,1>>, <<5,8>>, <<3,6>>,
    <<3,4>>, <<5,6>>, <<7,8>> >>
sort_10 == <<
  <<0,8>>, <<1,9>>, <<2,7>>, <<3,5>>, <<4,6>>, <<0,2>>, <<1,4>>, <<5,8>>, <<7,9>>, <<0,3>>, <<2,4>>,
    <<5,7>>, <<6,9>>, <<0,1>>, <<3,6>>, <<8,9>>, <<1,5>>, <<2,3>>, <<4,8>>, <<6,7>>, <<1,2>>, <<3,5>>,
    <<4,6>>, <<7,8>>, <<2,3>>, <<4,5>>, <<6,7>>, <<3,4>>, <<5,6>> >>
sort_11 == <<
  <<0,9>>, <<1,6>>, <<2,4>>, <<3,7>>, <<5,8>>, <<0,1>>, <<3,5>>, <<4,10>>, <<6,9>>, <<7,8>>, <<1,3>>,
    <<2,5>>, <<4,7>>, <<8,10>>, <<0,4>>, <<1,2>>, <<3,7>>, <<5,9>>, <<6,8>>, <<0,1>>, <<2,6>>, <<4,5>>,
    <<7,8>>, <<9,10>>, <<2,4>>, <<3,6>>, <<5,7>>, <<8,9>>, <<1,2>>, <<3,4>>, <<5,6>>, <<7,8>>, <<2,3>>,
    <<4,5>>, <<6,7>> >>
sort_12 == <<
  <<0,8>>, <<1,7>>, <<2,6>>, <<3,11>>, <<4,10>>, <<5,9>>, <<0,1>>, <<2,5>>, <<3,4>>, <<6,9>>, <<7,8>>,
    <<10,11>>, <<0,2>>, <<1,6>>, <<5,10>>, <<9,11>>, <<0,3>>, <<1,2>>, <<4,6>>, <<5,7>>, <<8,11>>, <<9,10>>,
    <<1,4>>, <<3,5>>, <<6,8>>, <<7,10>>, <<1,3>>, <<2,5>>, <<6,9>>, <<8,10>>, <<2,3>>, <<4,5>>, <<6,7>>,
    <<8,9>>, <<4,6>>, <<5,7>>, <<3,4>>, <<5,6>>, <<7,8>> >>
sort_13 == <<
  <<0,12>>, <<1,10>>, <<2,9>>, <<3,7>>, <<5,11>>, <<6,8>>, <<1,6>>, <<2,3>>, <<4,11>>, <<7,9>>, <<8,10>>,
    <<0,4>>, <<1,2>>, <<3,6>>, <<7,8>>, <<9,10>>, <<11,12>>, <<4,6>>, <<5,9>>, <<8,11>>, <<10,12>>, <<0,5>>,
    <<3,8>>, <<4,7>>, <<6,11>>, <<9,10>>, <<0,1>>, <<2,5>>, <<6,9>>, <<7,8>>, <<10,11>>, <<1,3>>, <<2,4>>,
    <<5,6>>, <<9,10>>, <<1,2>>, <<3,4>>, <<5,7>>, <<6,8>>, <<2,3>>, <<4,5>>, <<6,7>>, <<8,9>>, <<3,4>>,
    <<5,6>> >>
sort_14 == <<
  <<0,6>>, <<1,11>>, <<2,12>>, <<3,10>>, <<4,5>>, <<7,13>>, <<8,9>>, <<1,2>>, <<3,7>>, <<4,8>>, <<5,9>>,
    <<6,10>>, <<11,12>>, <<0,4>>, <<1,3>>, <<5,6>>, <<7,8>>, <<9,13>>, <<10,12>>, <<0,1>>, <<2,9>>, <<3,7>>,
    <<4,11>>, <<6,10>>, <<12,13>>, <<2,5>>, <<4,7>>, <<6,9>>, <<8,11>>, <<1,2>>, <<3,4>>, <<6,7>>, <<9,10>>,
    <<11,12>>, <<1,3>>, <<2,4>>, <<5,6>>, <<7,8>>, <<9,11>>, <<10,12>>, <<2,3>>, <<4,7>>, <<6,9>>,
    <<10,11>>, <<4,5>>, <<6,7>>, <<8,9>>, <<3,4>>, <<5,6>>, <<7,8>>, <<9,10>> >>
sort_15 == <<
  <<1,2>>, <<3,10>>, <<4,14>>, <<5,8>>, <<6,13>>, <<7,12>>, <<9,11>>, <<0,14>>, <<1,5>>, <<2,8>>, <<3,7>>,
    <<6,9>>, <<10,12>>, <<11,13>>, <<0,7>>, <<1,6>>, <<2,9>>, <<4,10>>, <<5,11>>, <<8,13>>, <<12,14>>,
    <<0,6>>, <<2,4>>, <<3,5>>, <<7,11>>, <<8,10>>, <<9,12>>, <<13,14>>, <<0,3>>, <<1,2>>, <<4,7>>, <<5,9>>,
    <<6,8>>, <<10,11>>, <<12,13>>, <<0,1>>, <<2,3>>, <<4,6>>, <<7,9>>, <<10,12>>, <<11,13>>, <<1,2>>,
    <<3,5>>, <<8,10>>, <<11,12>>, <<3,4>>, <<5,6>>, <<7,8>>, <<9,10>>, <<2,3>>, <<4,5>>, <<6,7>>, <<8,9>>,
    <<10,11>>, <<5,6>>, <<7,8>> >>
sort_16 == <<
  <<0,13>>, <<1,12>>, <<2,15>>, <<3,14>>, <<4,8>>, <<5,6>>, <<7,11>>, <<9,10>>, <<0,5>>, <<1,7>>, <<2,9>>,
    <<3,4>>, <<6,13>>, <<8,14>>, <<10,15>>, <<11,12>>, <<0,1>>, <<2,3>>, <<4,5>>, <<6,8>>, <<7,9>>,
    <<10,11>>, <<12,13>>, <<14,15>>, <<0,2>>, <<1,3>>, <<4,10>>, <<5,11>>, <<6,7>>, <<8,9>>, <<12,14>>,
    <<13,15>>, <<1,2>>, <<3,12>>, <<4,6>>, <<5,7>>, <<8,10>>, <<9,11>>, <<13,14>>, <<1,4>>, <<2,6>>,
    <<5,8>>, <<7,10>>, <<9,13>>, <<11,14>>, <<2,4>>, <<3,6>>, <<9,12>>, <<11,13>>, <<3,5>>, <<6,8>>,
    <<7,9>>, <<10,12>>, <<3,4>>, <<5,6>>, <<7,8>>, <<9,10>>, <<11,12>>, <<6,7>>, <<8,9>> >>

\* Exchanges v[i] and v[j] only if the second is less.
srt(v, i, j, Key(_)) ==
  IF Key(v[j]) < Key(v[i]) THEN [v EXCEPT ![i] = v[j], ![j] = v[i]] ELSE v

Networks == <<<<>>, <<<<0, 1>>>>, sort_3, sort_4, sort_5, sort_6, sort_7, sort_8, sort_9, sort_10,
              sort_11, sort_12, sort_13, sort_14, sort_15, sort_16>>

\* More elements are left to std::sort, which orders equal ones arbitrarily.
fixed_sort(v, Key(_)) ==
  IF Len(v) = 0 THEN v
  ELSE FoldLeft(LAMBDA w, pair : srt(w, pair[1] + 1, pair[2] + 1, Key), v, Networks[Len(v)])

Frame(event) == event.frame
InFrameOrder(events) == \A i \in 2..Len(events) : events[i - 1].frame <= events[i].frame

\* MidiEventOutput: negative frames count as 0, the result tells whether
\* ensure_order() is needed.
append_unsorted(events, frame, id) ==
  LET f == IF frame < 0 THEN 0 ELSE frame
      last == IF events = <<>> THEN 0 ELSE events[Len(events)].frame
  IN  [events |-> Append(events, [frame |-> f, id |-> id]), unordered |-> f < last]
ensure_order(events) == fixed_sort(events, Frame)

\* A sequence of appends, followed by ensure_order() if one of them asked for it.
Collected(frames) ==
  LET Add(acc, i) == LET r == append_unsorted(acc.events, frames[i], i)
                     IN  [events |-> r.events, unordered |-> acc.unordered \/ r.unordered]
      all == FoldLeft(Add, [events |-> <<>>, unordered |-> FALSE], [i \in DOMAIN frames |-> i])
  IN  IF all.unordered THEN ensure_order(all.events) ELSE all.events

-----------------------------------------------------------------------------
Identity(x) == x

\* Every network sorts: a network that sorts all sequences of zeros and ones
\* sorts every sequence.
NetworkSorts(bits) ==
  LET sorted == fixed_sort(bits, Identity) IN
  /\ \A i \in 2..Len(bits) : sorted[i - 1] <= sorted[i]
  /\ Cardinality({i \in DOMAIN bits : sorted[i] = 1}) = Cardinality({i \in DOMAIN bits : bits[i] = 1})

\* The events of a block are in order after ensure_order() was called whenever
\* an append asked for it, and none is lost or doubled.
EventsOrdered(frames) ==
  LET events == Collected(frames) IN
  /\ InFrameOrder(events)
  /\ {events[i].id : i \in DOMAIN events} = DOMAIN frames

-----------------------------------------------------------------------------
(***************************************************************************)
(* Hashes and random numbers (src/ase/randomhash.cc, randomhash.hh): the   *)
(* SHA3 and SHAKE sponges, KeccakRng, the multiply-with-carry generator    *)
(* Mwc256 with its jumps, and random_irange().                             *)
(*                                                                         *)
(* Bytes and lanes are sets of bits, exclusive or is their symmetric       *)
(* difference.  For the sponges the permutation is free: a permuted state  *)
(* is the list of the states that were permuted, so that two states are    *)
(* equal only if the same was absorbed.  A lane is [kept, x]: what the     *)
(* last permutation left there (zero unless kept), xored with x.           *)
(***************************************************************************)

Xor(a, b) == (a \ b) \cup (b \ a)
Lesser(a, b) == IF a < b THEN a ELSE b

\* The same sequence; TLC computes its elements once instead of at every use.
Eager(s) == s \o <<>>

-----------------------------------------------------------------------------
(* KeccakF1600 with lanes of W bits                                         *)
RHO == <<0, 1, 62, 28, 27, 36, 44, 6, 55, 20, 3, 10, 43, 25, 39, 41, 45, 15, 21, 8, 18, 2, 61, 56, 14>>
\* KECCAK_ROUND_CONSTANTS of the first rounds, their lowest bits
IOTA == <<{0}, {1}, {1, 3}, {}>>
bit_rotate(W, bits, offset) == {(b + offset) % W : b \in bits}
Moved(x, y) == y + 5 * ((2 * x + 3 * y) % 5)
\* pi: lane x, y moves to Moved(x, y); a lane that nothing moves to keeps its value
pi(a) ==
  FoldLeft(LAMBDA r, i : [r EXCEPT ![1 + Moved((i - 1) % 5, (i - 1) \div 5)] = a[i]], a, [i \in 1..25 |-> i])
\* lane x of plane y is A[1 + x + 5 * y]
keccak_round(W, A, constant) ==
  LET C == Eager([x \in 1..5 |-> Xor(A[x], Xor(A[x + 5], Xor(A[x + 10], Xor(A[x + 15], A[x + 20]))))])
      D == Eager([x \in 1..5 |-> Xor(C[1 + ((x + 3) % 5)], bit_rotate(W, C[1 + (x % 5)], 1))])
      rho == Eager([i \in 1..25 |-> bit_rotate(W, Xor(A[i], D[1 + ((i - 1) % 5)]), RHO[i])])
      B == pi(rho)
      Beside(i, k) == B[1 + 5 * ((i - 1) \div 5) + ((i - 1 + k) % 5)]
      chi == Eager([i \in 1..25 |-> Xor(B[i], Beside(i, 2) \ Beside(i, 1))])
  IN [chi EXCEPT ![1] = Xor(@, constant)]
permute(W, A, n_rounds) == FoldLeft(LAMBDA a, r : keccak_round(W, a, IOTA[r] \cap (0..(W - 1))), A, [r \in 1..n_rounds |-> r])
(* The permutation permutes: no two of the states with few bits set meet,   *)
(* after any number of rounds.                                              *)
FewBits(W) ==
  LET bits == (1..25) \X (0..(W - 1))
  IN {Eager([i \in 1..25 |-> {q[2] : q \in {s \in S : s[1] = i}}]) : S \in {{p, r} : p, r \in bits} \cup {{}}}
PermutationInjective(W, n) == Cardinality({permute(W, A, n) : A \in FewBits(W)}) = Cardinality(FewBits(W))

-----------------------------------------------------------------------------
(* The state of a sponge with 25 lanes, of which tests use fewer.           *)
KeccakZero(lanes) == [past |-> <<>>, lane |-> [i \in 0..(lanes - 1) |-> [kept |-> FALSE, x |-> {}]]]
Permuted(st) == [past |-> Append(st.past, st.lane), lane |-> [i \in DOMAIN st.lane |-> [kept |-> TRUE, x |-> {}]]]
XorAt(st, i, bits) == [st EXCEPT !.lane[i].x = Xor(@, bits)]
LaneOf(st, i) == <<IF st.lane[i].kept THEN st.past ELSE <<>>, i, st.lane[i]>>

(* SHAKE_Base: [st, rate, iopos, feeding]; lanes are bytes                  *)
sponge_reset(rate) == [st |-> KeccakZero(rate + 1), rate |-> rate, iopos |-> 0, feeding |-> TRUE]
xor_state(st, offset, input) == FoldLeft(LAMBDA s, i : XorAt(s, offset + i - 1, input[i]), st, [i \in DOMAIN input |-> i])
Advanced(h, st, count) ==
  IF h.iopos + count >= h.rate THEN [h EXCEPT !.st = Permuted(st), !.iopos = 0]
  ELSE [h EXCEPT !.st = st, !.iopos = @ + count]
RECURSIVE update(_, _)
update(h, data) ==
  IF ~h.feeding \/ data = <<>> THEN h
  ELSE LET count == Lesser(h.rate - h.iopos, Len(data))
       IN update(Advanced(h, xor_state(h.st, h.iopos, SubSeq(data, 1, count)), count), SubSeq(data, count + 1, Len(data)))
absorb_padding(h, trail) ==
  LET st == XorAt(h.st, h.iopos, trail)
  IN XorAt(IF h.iopos = h.rate - 1 /\ 7 \in trail THEN Permuted(st) ELSE st, h.rate - 1, {7})
get_hash(h, trail) ==
  IF ~h.feeding THEN h ELSE [h EXCEPT !.st = Permuted(absorb_padding(h, trail)), !.iopos = 0, !.feeding = FALSE]
RECURSIVE squeeze(_, _)
squeeze(h, n_out) ==
  IF n_out = 0 THEN [h |-> h, out |-> <<>>]
  ELSE LET count == Lesser(n_out, h.rate - h.iopos)
           more == squeeze(Advanced(h, h.st, count), n_out - count)
       IN [h |-> more.h, out |-> [i \in 1..count |-> LaneOf(h.st, h.iopos + i - 1)] \o more.out]
squeeze_digest(h, trail, n_out) == squeeze(get_hash(h, trail), n_out)
(* SHA3_224 .. SHA3_512 and SHAKE128, SHAKE256 differ in their rate, their  *)
(* length and their domain bits.                                            *)
sha3_digest(h, n) == LET g == get_hash(h, {1, 2}) IN [h |-> g, out |-> [i \in 1..n |-> LaneOf(g.st, i - 1)]]
shake_digest(h, n) == squeeze_digest(h, 0..4, n)
sha3_hash(rate, data, n) == sha3_digest(update(sponge_reset(rate), data), n).out
shake_hash(rate, data, n) == shake_digest(update(sponge_reset(rate), data), n).out

(* A digest depends on the bytes alone and not on how they were fed or      *)
(* fetched, a digest may be asked for again, and it is the digest of the    *)
(* padded message (FIPS 202: the domain bits, then 1 0* 1), so that no two  *)
(* messages share one.                                                      *)
Padded(rate, data, trail) ==
  LET n == rate * (1 + (Len(data) \div rate))
      full == [i \in 1..n |-> IF i <= Len(data) THEN data[i] ELSE IF i = Len(data) + 1 THEN trail ELSE {}]
  IN [full EXCEPT ![n] = Xor(@, {7})]
Absorbed(rate, data, trail) ==
  LET p == Padded(rate, data, trail)
      Block(k) == [i \in 0..rate |-> [kept |-> k > 0, x |-> IF i = rate THEN {} ELSE p[rate * k + i + 1]]]
  IN [k \in 1..(Len(p) \div rate) |-> Block(k - 1)]
DigestsFaithful(rate, a, b, n, m) ==
  LET h == update(update(sponge_reset(rate), a), b)
      Squeezed(k) == [i \in 1..k |->
         <<Absorbed(rate, a \o b, 0..4) \o [j \in 1..((i - 1) \div rate) |-> Permuted(KeccakZero(rate + 1)).lane],
           (i - 1) % rate, [kept |-> TRUE, x |-> {}]>>]
      first == shake_digest(h, n)
      sha == sha3_digest(h, rate)
  IN /\ first.out \o shake_digest(first.h, m).out = Squeezed(n + m)
     /\ shake_hash(rate, a \o b, n + m) = Squeezed(n + m)
     /\ sha.out = sha3_hash(rate, a \o b, rate) /\ sha3_digest(sha.h, rate).out = sha.out
     /\ sha.out = [i \in 1..rate |-> <<Absorbed(rate, a \o b, {1, 2}), i - 1, [kept |-> TRUE, x |-> {}]>>]

-----------------------------------------------------------------------------
(* KeccakRng: [st, opos, n_nums]; lanes are 64 bit numbers                  *)
permute1600(r) == [r EXCEPT !.st = Permuted(@), !.opos = 0]
RECURSIVE SeedBlocks(_, _, _)
SeedBlocks(r, seeds, i) ==
  IF seeds = <<>> THEN permute1600([r EXCEPT !.st = IF i \in DOMAIN r.st.lane THEN XorAt(r.st, i, {0}) ELSE r.st])
  ELSE LET q == IF i > 0 THEN permute1600(r) ELSE r
           count == Lesser(q.n_nums, Len(seeds))
       IN SeedBlocks([q EXCEPT !.st = xor_state(q.st, 0, SubSeq(seeds, 1, count))], SubSeq(seeds, count + 1, Len(seeds)), count)
xor_seed(r, seeds) == SeedBlocks(r, seeds, 0)
keccak_seed(lanes, n_nums, seeds) ==
  xor_seed([st |-> KeccakZero(lanes), opos |-> n_nums, n_nums |-> n_nums], seeds)
keccak_random(r) ==
  LET q == IF r.opos >= r.n_nums THEN permute1600(r) ELSE r
  IN [r |-> [q EXCEPT !.opos = @ + 1], out |-> LaneOf(q.st, q.opos)]
RECURSIVE discard(_, _)
discard(r, count) ==
  IF count = 0 THEN r
  ELSE LET q == IF r.opos >= r.n_nums THEN permute1600(r) ELSE r
           skip == Lesser(q.n_nums - q.opos, count)
       IN discard([q EXCEPT !.opos = @ + skip], count - skip)
forget(r) == permute1600([r EXCEPT !.st.lane = [i \in DOMAIN @ |-> IF i < 4 THEN [kept |-> FALSE, x |-> {}] ELSE @[i]]])

(* discard() skips as many numbers as random() would have drawn, also       *)
(* across forget(), and other seeds give other numbers.                     *)
RECURSIVE Drawn(_, _)
Drawn(r, n) == IF n = 0 THEN r ELSE Drawn(keccak_random(r).r, n - 1)
DiscardSkips(lanes, n_nums, a, b, n, m) ==
  LET r == Drawn(keccak_seed(lanes, n_nums, a), n)
  IN /\ discard(r, m) = Drawn(r, m)
     /\ discard(forget(discard(r, n)), m) = Drawn(forget(Drawn(r, n)), m)
     /\ a # b => keccak_random(keccak_seed(lanes, n_nums, a)).out # keccak_random(keccak_seed(lanes, n_nums, b)).out

-----------------------------------------------------------------------------
(* Mwc256 with limbs of base B and multiplier A3; numbers have MP_SIZE      *)
(* limbs, lowest first.                                                     *)
MP_SIZE == 5
Limb == 1..MP_SIZE
Limbs(B, n) == Eager([i \in Limb |-> (n \div (B ^ (i - 1))) % B])
NumberOf(B, a) == FoldLeft(LAMBDA s, i : s + a[i] * B ^ (i - 1), 0, [i \in Limb |-> i])
mpc_less(a, b) == \E i \in Limb : a[i] < b[i] /\ \A k \in (i + 1)..MP_SIZE : a[k] = b[k]
mpc_carry(B, a, b) ==                  \* carry[i] goes into limb i
  LET carry[i \in 1..(MP_SIZE + 1)] == IF i = 1 THEN 0 ELSE (a[i - 1] + b[i - 1] + carry[i - 1]) \div B IN carry
mpc_bsub(B, a, b) ==
  LET borrow[i \in 1..(MP_SIZE + 1)] == IF i = 1 THEN 0 ELSE IF a[i - 1] - b[i - 1] - borrow[i - 1] < 0 THEN 1 ELSE 0
  IN Eager([i \in Limb |-> (B + a[i] - b[i] - borrow[i]) % B])
RECURSIVE mpc_rem(_, _, _)
mpc_rem(B, a, m) == IF mpc_less(a, m) THEN a ELSE mpc_rem(B, mpc_bsub(B, a, m), m)
mpc_add(B, a, b, m) ==
  LET carry == mpc_carry(B, a, b) IN mpc_rem(B, Eager([i \in Limb |-> (a[i] + b[i] + carry[i]) % B]), m)
\* sum[i] is <<r, t>> after the lowest i bits of b; tests multiply numbers of up to 12 bits
mpc_mul(B, a, b, m) ==
  LET n == NumberOf(B, b)
      sum[i \in 0..12] ==
        IF i = 0 THEN <<Limbs(B, 0), a>>
        ELSE LET p == sum[i - 1]
             IN <<IF (n \div 2 ^ (i - 1)) % 2 = 1 THEN mpc_add(B, p[1], p[2], m) ELSE p[1], mpc_add(B, p[2], p[2], m)>>
  IN sum[12][1]

mwc_mod(B, A3) == <<B - 1, B - 1, B - 1, A3 - 1, 0>>
mwc_next(B, A3, s) ==
  LET t == A3 * s[1] + s[4] IN [s EXCEPT ![1] = s[2], ![2] = s[3], ![3] = t % B, ![4] = t \div B]
RECURSIVE Halved(_, _)
Halved(c, limit) == IF c # 0 /\ c < limit THEN c ELSE Halved(IF (c \div 2) % 2 = 1 THEN c \div 2 ELSE (c \div 2) + 1, limit)
mwc_seed(B, A3, s) == [s EXCEPT ![4] = Halved(@, A3 - 1), ![5] = 0]
clone(B, A3, s, jump) == mpc_mul(B, s, jump, mwc_mod(B, A3))

(* A clone is as far ahead as its jump says: the product of the state and   *)
(* the k-th power of the jump by one is the state k steps later; every      *)
(* seed gives a valid carry, and every step keeps it valid.                 *)
RECURSIVE Stepped_(_, _, _, _)
Stepped_(B, A3, s, k) == IF k = 0 THEN s ELSE Stepped_(B, A3, mwc_next(B, A3, s), k - 1)
RECURSIVE JumpBy(_, _, _)
JumpBy(B, A3, k) == IF k = 0 THEN Limbs(B, 1) ELSE mpc_mul(B, JumpBy(B, A3, k - 1), Limbs(B, A3 * B * B), mwc_mod(B, A3))
JumpsRight(B, A3, seeded, k) ==
  LET s == mwc_seed(B, A3, seeded) IN
  /\ clone(B, A3, s, JumpBy(B, A3, k)) = Stepped_(B, A3, s, k)
  /\ Stepped_(B, A3, s, k)[4] < A3
  /\ clone(B, A3, clone(B, A3, s, JumpBy(B, A3, k)), JumpBy(B, A3, 3)) = clone(B, A3, s, JumpBy(B, A3, k + 3))

-----------------------------------------------------------------------------
(* random_irange with random numbers below 2 ^ W: 0 for a rejected number,  *)
(* else <<result>>.                                                         *)
random_irange(W, begin, end, r) ==
  IF begin >= end THEN <<begin>>
  ELSE LET range == end - begin
           quotient == (2 ^ W - 1) \div range
       IN IF r >= quotient * range THEN <<>> ELSE <<begin + (r \div quotient)>>
(* Every number of the range is drawn equally often and no other, and fewer *)
(* than half of the random numbers are rejected.                            *)
RangeUniform(W, begin, end) ==
  LET Hits(v) == Cardinality({r \in 0..(2 ^ W - 1) : random_irange(W, begin, end, r) = <<v>>})
  IN /\ \A v, w \in begin..(end - 1) : Hits(v) = Hits(w) /\ Hits(v) > 0
     /\ 2 * Cardinality({r \in 0..(2 ^ W - 1) : random_irange(W, begin, end, r) = <<>>}) <= 2 ^ W
=============================================================================
