------------------------------- MODULE Memory -------------------------------
(***************************************************************************)
(* The memory allocators: Loft, from which real-time threads allocate, and *)
(* fast_mem_alloc(), from which Loft takes its spans.                      *)
(***************************************************************************)
EXTENDS Integers, FiniteSets, Sequences, SequencesExt, FiniteSetsExt

-----------------------------------------------------------------------------
(***************************************************************************)
(* The Loft allocator of ase/loft.cc with the main thread's part of it in  *)
(* ase/main.cc.  Threads take blocks from lock-free free lists (MpmcStack, *)
(* see module MpmcStack, here one atomic step) or bump the offset of an    *)
(* mmap span by compare-and-exchange.  An allocation that leaves less than *)
(* the watermark notifies the main loop, which grows the spans ahead of    *)
(* the real-time threads; a thread that finds no room grows them itself.   *)
(* The kernel decides whether a span can be extended in place.             *)
(***************************************************************************)

CONSTANTS LoftThreads,  \* threads that allocate
          LoftSizes,    \* sizes they ask for
          MaxSpans,     \* bound: spans
          MaxSpanSize,  \* bound: size of a span
          MaxBlocks     \* bound: blocks ever bumped

MINIMUM_HUGEPAGE == 2097152
SMALL_BLOCK_LIMIT == 8192
NUMBER_OF_POWER2_BUCKETS == 64
SpanHead == 64          \* MEM_ALIGN (sizeof (MMSpan), 64)

VARIABLES
  spans,        \* list of MMSpan: offset and mmsize
  totalmem,     \* totalmem_
  grower,       \* set of the threads that hold mutex_
  buckets,      \* free blocks of each bucket size
  held,         \* blocks the program holds
  lpc, want,    \* per thread: place in bump_alloc, requested size
  at, omark,    \* per thread: current span and the offset read from it
  entry, seen,  \* per thread: entry_total of grow_spans; ghost: the spans' total then
  config,       \* config_watermark, config_preallocate, config_lowmem_notified
  lowmem        \* main.cc: loft_needs_preallocation_mt, last_loft_preallocation
loftVars == <<spans, totalmem, grower, buckets, held, lpc, want, at, omark, entry, config, lowmem, seen>>

-----------------------------------------------------------------------------
bucket_size(index) ==
  IF index < NUMBER_OF_POWER2_BUCKETS THEN 2^index
  ELSE (index - NUMBER_OF_POWER2_BUCKETS + 1) * 64

Shift(n) == CHOOSE k \in 0..30 : 2^k >= n /\ \A j \in 0..(k-1) : 2^j < n
bucket_index(n0) ==
  LET n == IF n0 = 0 THEN 1 ELSE n0
  IN IF n <= SMALL_BLOCK_LIMIT THEN NUMBER_OF_POWER2_BUCKETS + (n - 1) \div 64 ELSE Shift(n)
BlockSize(n) == bucket_size(bucket_index(n))

Doubled(size, needed) == CHOOSE s \in {size * 2^k : k \in 0..8} :
  s >= needed /\ (s = size \/ s \div 2 < needed)
SpanBytes == FoldLeft(LAMBDA sum, span : sum + span.mmsize, 0, spans)
free_block == IF spans = <<>> THEN 0 ELSE Last(spans).mmsize - Last(spans).offset

-----------------------------------------------------------------------------
\* do_alloc: a block of the bucket's free list, else bump_alloc starts at the first span.
Alloc(t) ==
  \E n \in LoftSizes :
    LET size == BlockSize(n)
        have == {b \in buckets : b.size = size}
    IN /\ lpc[t] = "idle"
       /\ \/ \E b \in have : buckets' = buckets \ {b} /\ held' = held \cup {b}
                             /\ UNCHANGED <<lpc, want, at>>
          \/ /\ have = {}
             /\ lpc' = [lpc EXCEPT ![t] = "load"]
             /\ want' = [want EXCEPT ![t] = size] /\ at' = [at EXCEPT ![t] = 1]
             /\ UNCHANGED <<buckets, held>>
       /\ UNCHANGED <<spans, totalmem, grower, omark, entry, config, lowmem, seen>>

\* LoftFree: do_free puts the block on the free list of its size.
Free ==
  /\ \E b \in held : held' = held \ {b} /\ buckets' = buckets \cup {b}
  /\ UNCHANGED <<spans, totalmem, grower, lpc, want, at, omark, entry, config, lowmem, seen>>

\* bump_alloc: read the offset of the current span, or go on without one.
LoadOffset(t) ==
  /\ lpc[t] = "load"
  /\ IF at[t] <= Len(spans)
     THEN /\ omark' = [omark EXCEPT ![t] = spans[at[t]].offset]
          /\ lpc' = [lpc EXCEPT ![t] = "bump"] /\ UNCHANGED <<entry, seen>>
     ELSE /\ entry' = [entry EXCEPT ![t] = totalmem] /\ seen' = [seen EXCEPT ![t] = SpanBytes]
          /\ lpc' = [lpc EXCEPT ![t] = "lock"] /\ UNCHANGED omark
  /\ UNCHANGED <<spans, totalmem, grower, buckets, held, want, at, config, lowmem>>

\* Compare and exchange, a failure reads the offset again.
BumpOffsetBlind(t, i) == TRUE           \* mutant: stores without comparing
BumpOffset(t, i) == spans[i].offset = omark[t]
Bump(t) ==
  LET i == at[t]
      nmark == omark[t] + want[t]
  IN /\ lpc[t] = "bump"
     /\ \/ /\ nmark > spans[i].mmsize
           /\ at' = [at EXCEPT ![t] = i + 1] /\ lpc' = [lpc EXCEPT ![t] = "load"]
           /\ UNCHANGED <<spans, held>>
        \/ /\ nmark <= spans[i].mmsize
           /\ IF BumpOffset(t, i)
              THEN /\ spans' = [spans EXCEPT ![i].offset = nmark]
                   /\ held' = held \cup {[span |-> i, start |-> omark[t], size |-> want[t]]}
                   /\ lpc' = [lpc EXCEPT ![t] = "watermark"]
              ELSE /\ lpc' = [lpc EXCEPT ![t] = "load"] /\ UNCHANGED <<spans, held>>
           /\ UNCHANGED at
     /\ Cardinality(held \cup buckets) < MaxBlocks
     /\ UNCHANGED <<totalmem, grower, buckets, want, omark, entry, config, lowmem, seen>>

\* Watermark check against the last span; the first notification since the last
\* growth calls notify_loft_lowmem().
Watermark(t) ==
  LET low == at[t] = Len(spans) /\ free_block < config.watermark
  IN /\ lpc[t] = "watermark"
     /\ lpc' = [lpc EXCEPT ![t] = "idle"]
     /\ want' = [want EXCEPT ![t] = 0] /\ at' = [at EXCEPT ![t] = 1] /\ omark' = [omark EXCEPT ![t] = 0]
     /\ config' = IF low THEN [config EXCEPT !.notified = TRUE] ELSE config
     /\ lowmem' = IF low /\ ~config.notified THEN [lowmem EXCEPT !.needs = TRUE] ELSE lowmem
     /\ UNCHANGED <<spans, totalmem, grower, buckets, held, entry, seen>>

-----------------------------------------------------------------------------
\* grow_spans: the mutex is taken after totalmem_ was read; nothing is done if
\* another thread grew the spans in between.
GrewMeanwhile(t) == entry[t] < totalmem
Lock(t) ==
  /\ lpc[t] = "lock" /\ grower = {}
  /\ IF GrewMeanwhile(t) THEN lpc' = [lpc EXCEPT ![t] = "grown"] /\ UNCHANGED grower
     ELSE lpc' = [lpc EXCEPT ![t] = "grow"] /\ grower' = {t}
  /\ UNCHANGED <<spans, totalmem, buckets, held, want, at, omark, entry, config, lowmem, seen>>

\* The last span is extended in place, or a span is added.  The code adds up the
\* sizes of the spans before the last one, in both cases.
SizesBefore == FoldLeft(LAMBDA sum, span : sum + span.mmsize, 0, Front(spans))
Grow(t) ==
  LET n == IF t = "main" THEN lowmem.amount ELSE want[t]
  IN /\ lpc[t] = "grow"
     /\ \/ LET newsize == IF Last(spans).mmsize * 2 >= n THEN Last(spans).mmsize * 2 ELSE Doubled(Last(spans).mmsize, n)
           IN /\ spans # <<>> /\ newsize <= MaxSpanSize
              /\ spans' = [spans EXCEPT ![Len(spans)].mmsize = newsize]
              /\ entry' = [entry EXCEPT ![t] = SizesBefore + newsize]
        \/ LET mmsize == Doubled(MINIMUM_HUGEPAGE, n)
           IN /\ Len(spans) < MaxSpans
              /\ spans' = Append(spans, [offset |-> SpanHead, mmsize |-> mmsize])
              /\ entry' = [entry EXCEPT ![t] = SizesBefore + mmsize]
     /\ lpc' = [lpc EXCEPT ![t] = "total"]
     /\ UNCHANGED <<totalmem, grower, buckets, held, want, at, omark, config, lowmem, seen>>

\* totalmem_ is stored last, then the mutex is released.
Unlock(t) ==
  /\ lpc[t] = "total"
  /\ totalmem' = entry[t] /\ grower' = {}
  /\ lpc' = [lpc EXCEPT ![t] = "grown"]
  /\ UNCHANGED <<spans, buckets, held, want, at, omark, entry, config, lowmem, seen>>

\* bump_alloc calls itself again.
Retry(t) ==
  /\ lpc[t] = "grown" /\ t # "main"
  /\ lpc' = [lpc EXCEPT ![t] = "load"] /\ at' = [at EXCEPT ![t] = 1]
  /\ entry' = [entry EXCEPT ![t] = 0] /\ seen' = [seen EXCEPT ![t] = 0]
  /\ UNCHANGED <<spans, totalmem, grower, buckets, held, want, omark, config, lowmem>>

-----------------------------------------------------------------------------
Larger(a, b) == IF a >= b THEN a ELSE b
\* loft_grow_preallocate: at least config_preallocate in total, at least the watermark free.
Amount ==
  LET missing == Larger(config.preallocate, totalmem) - totalmem
  IN IF free_block <= config.watermark THEN Larger(missing, config.watermark) ELSE missing

\* dispatch_loft_lowmem and loft_grow_preallocate, until the mutex.
Dispatch ==
  /\ lpc["main"] = "idle" /\ lowmem.needs
  /\ lowmem' = [needs |-> FALSE, last |-> lowmem.last * 2, amount |-> Amount]
  /\ IF free_block < Amount
     THEN /\ config' = [config EXCEPT !.notified = FALSE]
          /\ entry' = [entry EXCEPT !["main"] = totalmem] /\ seen' = [seen EXCEPT !["main"] = SpanBytes]
          /\ lpc' = [lpc EXCEPT !["main"] = "lock"]
     ELSE lpc' = [lpc EXCEPT !["main"] = "config"] /\ UNCHANGED <<config, entry, seen>>
  /\ UNCHANGED <<spans, totalmem, grower, buckets, held, want, at, omark>>

\* The rest of loft_grow_preallocate and loft_set_config up to config_watermark = 0.
Configure ==
  /\ lpc["main"] \in {"grown", "config"}
  /\ config' = [config EXCEPT !.watermark = 0,
                  !.preallocate = IF lpc["main"] = "grown" THEN Larger(@, totalmem) ELSE @]
  /\ lpc' = [lpc EXCEPT !["main"] = "rearm"]
  /\ entry' = [entry EXCEPT !["main"] = 0] /\ seen' = [seen EXCEPT !["main"] = 0]
  /\ lowmem' = [lowmem EXCEPT !.amount = 0]
  /\ UNCHANGED <<spans, totalmem, grower, buckets, held, want, at, omark>>
SetWatermark ==
  /\ lpc["main"] = "rearm"
  /\ config' = [config EXCEPT !.watermark = lowmem.last \div 2]
  /\ lpc' = [lpc EXCEPT !["main"] = "idle"]
  /\ UNCHANGED <<spans, totalmem, grower, buckets, held, want, at, omark, entry, lowmem, seen>>

\* preallocate_loft at start up, before other threads exist.
LoftInit ==
  LET prealloc == 2 * MINIMUM_HUGEPAGE
      all == LoftThreads \cup {"main"}
  IN /\ spans = <<[offset |-> SpanHead, mmsize |-> prealloc]>>
     /\ totalmem = prealloc /\ grower = {} /\ buckets = {} /\ held = {}
     /\ lpc = [t \in all |-> "idle"]
     /\ want = [t \in LoftThreads |-> 0] /\ at = [t \in LoftThreads |-> 1]
     /\ omark = [t \in LoftThreads |-> 0] /\ entry = [t \in all |-> 0] /\ seen = [t \in all |-> 0]
     /\ config = [watermark |-> prealloc \div 2, preallocate |-> prealloc, notified |-> FALSE]
     /\ lowmem = [needs |-> FALSE, last |-> prealloc, amount |-> 0]

GrowSteps(t) == Lock(t) \/ Grow(t) \/ Unlock(t)
MainSteps == GrowSteps("main") \/ Dispatch \/ Configure \/ SetWatermark
LoftNext ==
  \/ \E t \in LoftThreads : Alloc(t) \/ LoadOffset(t) \/ Bump(t) \/ Watermark(t) \/ GrowSteps(t) \/ Retry(t)
  \/ Free
  \/ MainSteps
LoftSpec == LoftInit /\ [][LoftNext]_loftVars

-----------------------------------------------------------------------------
Overlap(a, b) == a.span = b.span /\ a.start < b.start + b.size /\ b.start < a.start + a.size
(* However bump_alloc, grow_spans, do_alloc and do_free interleave, no two   *)
(* blocks overlap, a block is held or free but not both, and the blocks of a *)
(* span and its header fill it up to its offset without a gap.               *)
BlocksDisjoint ==
  /\ held \cap buckets = {}
  /\ \A a, b \in held \cup buckets : a # b => ~Overlap(a, b)
  /\ \A i \in DOMAIN spans :
       /\ spans[i].offset <= spans[i].mmsize
       /\ SpanHead + MapThenSumSet(LAMBDA b : b.size, {b \in held \cup buckets : b.span = i}) = spans[i].offset

-----------------------------------------------------------------------------
(***************************************************************************)
(* fast_mem_alloc and fast_mem_free of ase/memory.cc: arenas, each with a  *)
(* free list of extents that are merged when memory is released, under one *)
(* mutex, and a table of the allocated blocks that is split into buckets   *)
(* with a mutex of their own.  An allocation or release is one step in     *)
(* each of the two, other threads run in between.  Lengths are counted in  *)
(* units of the alignment.                                                 *)
(***************************************************************************)

CONSTANTS MemThreads,
          AllocLengths,         \* lengths a thread asks for
          MINIMUM_ARENA_SIZE,
          MaxArenas,            \* bound: arenas
          MaxHeld               \* bound: blocks a thread has at a time
ASSUME LengthsAssumption == \A n \in AllocLengths : n \in 1..MINIMUM_ARENA_SIZE

VARIABLES
  extents,      \* per arena: the free list, a sequence of extents
  mm_info,      \* the table's blocks: arena, start and length
  mem,          \* per thread: addresses of its blocks, <<arena, start>>
  mpc, ablock   \* per thread: place in alloc or free, and its ArenaBlock
memVars == <<extents, mm_info, mem, mpc, ablock>>

Extent(start, length) == [start |-> start, length |-> length]
EndOf(e) == e.start + e.length
NoBlock == [arena |-> 0, start |-> 0, length |-> 0]

-----------------------------------------------------------------------------
\* SequentialFitAllocator::release_ext: the freed extent is merged with the free
\* extents that end or start next to it.
release_ext(list, ext) ==
  LET after == {i \in DOMAIN list : ext.start = EndOf(list[i])}
      before == {i \in DOMAIN list : EndOf(ext) = list[i].start}
      a == Max(after)
      b == Max(before)
  IN IF after # {} /\ before # {}
     THEN RemoveAt([list EXCEPT ![a].length = @ + ext.length + list[b].length], b)
     ELSE IF after # {} THEN [list EXCEPT ![a].length = @ + ext.length]
     ELSE IF before # {} THEN [list EXCEPT ![b] = Extent(ext.start, @.length + ext.length)]
     ELSE Append(list, ext)

\* best_fit: the last extent of exactly this length, else the shortest longer one,
\* the one with the smallest start among those.
best_fit(list, length) ==
  LET exact == {i \in DOMAIN list : list[i].length = length}
      longer == {i \in DOMAIN list : list[i].length > length}
  IN IF exact # {} THEN Max(exact)
     ELSE CHOOSE i \in longer : \A j \in longer :
            \/ list[i].length < list[j].length
            \/ list[i].length = list[j].length /\ list[i].start <= list[j].start
Fits(list, length) == \E i \in DOMAIN list : list[i].length >= length

\* alloc_ext: the free list after length was taken from the start of the best fit;
\* an extent that is used up is replaced by the last one.
alloc_ext(list, length) ==
  LET i == best_fit(list, length)
  IN IF list[i].length > length
     THEN [list EXCEPT ![i] = Extent(@.start + length, @.length - length)]
     ELSE Front([list EXCEPT ![i] = list[Len(list)]])

-----------------------------------------------------------------------------
\* fast_mem_allocate_aligned_block_L: the first arena that has room, or a new one.
AllocBlock(t) ==
  \E length \in AllocLengths :
    LET room == {i \in DOMAIN extents : Fits(extents[i], length)}
        i == IF room # {} THEN Min(room) ELSE Len(extents) + 1
        arenas == IF room # {} THEN extents
                  ELSE Append(extents, release_ext(<<>>, Extent(0, MINIMUM_ARENA_SIZE)))
    IN /\ mpc[t] = "idle" /\ Cardinality(mem[t]) < MaxHeld /\ i <= MaxArenas
       /\ extents' = [arenas EXCEPT ![i] = alloc_ext(@, length)]
       /\ ablock' = [ablock EXCEPT ![t] =
            [arena |-> i, start |-> arenas[i][best_fit(arenas[i], length)].start, length |-> length]]
       /\ mpc' = [mpc EXCEPT ![t] = "push"]
       /\ UNCHANGED <<mm_info, mem>>

\* mm_info_push_mt, the block is now the caller's.
mm_info_push(t) ==
  /\ mpc[t] = "push"
  /\ mm_info' = mm_info \cup {ablock[t]}
  /\ mem' = [mem EXCEPT ![t] = @ \cup {<<ablock[t].arena, ablock[t].start>>}]
  /\ mpc' = [mpc EXCEPT ![t] = "idle"] /\ ablock' = [ablock EXCEPT ![t] = NoBlock]
  /\ UNCHANGED extents

\* mm_info_pop_mt: any thread may free a block it was given; the table knows the length.
mm_info_pop(t) ==
  \E u \in MemThreads : \E ptr \in mem[u] : \E ab \in mm_info :
    /\ mpc[t] = "idle" /\ <<ab.arena, ab.start>> = ptr
    /\ mem' = [mem EXCEPT ![u] = @ \ {ptr}]
    /\ mm_info' = mm_info \ {ab}
    /\ mpc' = [mpc EXCEPT ![t] = "release"] /\ ablock' = [ablock EXCEPT ![t] = ab]
    /\ UNCHANGED extents

\* Arena::release
ReleaseBlock(t) ==
  LET ab == ablock[t]
  IN /\ mpc[t] = "release"
     /\ extents' = [extents EXCEPT ![ab.arena] = release_ext(@, Extent(ab.start, ab.length))]
     /\ mpc' = [mpc EXCEPT ![t] = "idle"] /\ ablock' = [ablock EXCEPT ![t] = NoBlock]
     /\ UNCHANGED <<mm_info, mem>>

MemInit ==
  /\ extents = <<>> /\ mm_info = {}
  /\ mem = [t \in MemThreads |-> {}]
  /\ mpc = [t \in MemThreads |-> "idle"] /\ ablock = [t \in MemThreads |-> NoBlock]
MemNext == \E t \in MemThreads :
  AllocBlock(t) \/ mm_info_push(t) \/ mm_info_pop(t) \/ ReleaseBlock(t)
MemSpec == MemInit /\ [][MemNext]_memVars

-----------------------------------------------------------------------------
Allocated == mm_info \cup ({ablock[t] : t \in MemThreads} \ {NoBlock})
Units(e) == e.start..(EndOf(e) - 1)
(* Each unit of an arena belongs to exactly one free extent or allocated     *)
(* block, blocks on their way into the table or out of it included; the      *)
(* destructor's "deleting area while bytes are unreleased" has no other      *)
(* cause than blocks that were not freed.                                    *)
ArenaPartitioned ==
  \A i \in DOMAIN extents : \A unit \in 0..(MINIMUM_ARENA_SIZE - 1) :
    Cardinality({k \in DOMAIN extents[i] : unit \in Units(extents[i][k])})
      + Cardinality({ab \in Allocated : ab.arena = i /\ unit \in Units(ab)}) = 1

(* release_ext keeps the free list coalesced without deferred merging: two   *)
(* free extents are never neighbours, so a request fails only when no run of *)
(* free memory is long enough.                                               *)
FreeListCoalesced ==
  \A i \in DOMAIN extents : \A j, k \in DOMAIN extents[i] :
    EndOf(extents[i][j]) # extents[i][k].start
=============================================================================
