---------------------------- MODULE MidiProducer ----------------------------
(***************************************************************************)
(* Playback of a track's clip: the MidiProducerImpl of ase/midilib.cc, its *)
(* ClipImpl::Generator (ase/clip.cc), the AudioTransport that both follow  *)
(* (ase/transport.cc) and the jobs that start and stop playback or replace *)
(* the notes (ase/project.cc, ase/track.cc).  Jobs and render calls run in *)
(* the engine thread one after the other, in any order: each is a step.    *)
(*                                                                         *)
(* Tempo is fixed and rational: TickNum / TickDen ticks per sample.  Clips *)
(* loop forever, so the first generator of the feed is the one that plays, *)
(* and tracks never drop a clip, so a new feed has that generator, too.    *)
(* Generators are never asked for a delay (a negative play position), and  *)
(* MIDI through events are left out.                                       *)
(***************************************************************************)
EXTENDS Integers, Sequences, SequencesExt, FiniteSets

CONSTANTS ClipKeys,             \* keys of notes
          Feeds,            \* what update_feed may install: sets of notes
          NoFeed,           \* feed_ == nullptr
          TickNum, TickDen, \* ticks_per_sample as a fraction
          BarTicks,         \* bar_ticks()
          BlockSizes,       \* n_frames of render calls
          ClipTicks           \* bound: position up to which playback is followed

ASSUME MidiAssumption ==
  /\ TickNum \in Nat /\ TickDen \in Nat \ {0}
  /\ TickNum > TickDen      \* PPQN and MIN_BPM: several ticks per sample
  /\ BarTicks \in Nat \ {0} /\ ClipTicks \in Nat /\ BlockSizes \subseteq Nat \ {0}
  /\ NoFeed \notin Feeds
  /\ \A notes \in Feeds : \A n \in notes :
       n.key \in ClipKeys /\ n.tick \in Nat /\ n.duration \in Nat \ {0}

VARIABLES
  current_tick_d,  \* position of the transport, times TickDen
  running,         \* current_bpm > 0
  feed,            \* feed_: notes of the generator, or NoFeed
  xtick, itick,    \* xtick_, itick_ of the generator
  playing,         \* position_->current: 0, or -1 when nothing plays
  generator_start, \* generator_start_
  must_flush,
  future_stack,    \* pending NOTE_OFF events, the next one at the end
  sounding,        \* per key: NOTE_ON events sent, less NOTE_OFF events
  ontime           \* history: the generator was started at a bar
transport == <<current_tick_d, running>>
generator == <<feed, xtick, itick>>
producerVars == <<transport, generator, playing, generator_start, must_flush, future_stack, sounding, ontime>>

Durations == {n.duration : n \in UNION Feeds}
MaxDuration == CHOOSE d \in Durations \cup {0} : \A e \in Durations : e <= d

-----------------------------------------------------------------------------
(* TickSignature and AudioTransport *)

\* Conversions of doubles truncate towards zero.
SampleToTick(frames) == (TickNum * frames) \div TickDen
SampleFromTick(ticks) ==
  IF ticks >= 0 THEN (ticks * TickDen) \div TickNum ELSE -((-ticks * TickDen) \div TickNum)

current_tick == current_tick_d \div TickDen
current_bar_tick == BarTicks * (current_tick \div BarTicks)
Advance(frames) == current_tick_d' = IF running THEN current_tick_d + TickNum * frames ELSE current_tick_d

-----------------------------------------------------------------------------
(* ClipImpl::Generator, set up with a loop of two bars *)

loop_start == 0
loop_end == 2 * BarTicks

\* jumpto: the internal position that belongs to an external one
Jumpto(target) ==
  IF target < loop_end THEN target ELSE loop_start + ((target - loop_end) % (loop_end - loop_start))

\* The notes of [a, b) as NOTE_ON and NOTE_OFF times, where x is the time of a.
EventsInRange(a, b) == {n \in feed : a <= n.tick /\ n.tick < b}
NoteTimes(x, a, b) ==
  LET notes == SetToSortSeq(EventsInRange(a, b), LAMBDA m, n : m.tick < n.tick)
  IN [i \in DOMAIN notes |-> [key |-> notes[i].key, on |-> x + notes[i].tick - a,
                              off |-> x + notes[i].tick - a + notes[i].duration]]

\* One round of the loop in generate: up to the loop end at most.
Fragment(g) ==
  LET delta == IF g.itick < loop_end /\ loop_end - g.itick < g.ticks THEN loop_end - g.itick ELSE g.ticks
      b == g.itick + delta
  IN [ticks |-> g.ticks - delta, xtick |-> g.xtick + delta,
      itick |-> IF b = loop_end THEN loop_start ELSE b,
      notes |-> g.notes \o NoteTimes(g.xtick, g.itick, b)]

Generate(target) ==
  LET total == IF target > xtick THEN target - xtick ELSE 0
      after[k \in 0..total] ==
        IF k = 0 THEN [ticks |-> total, xtick |-> xtick, itick |-> itick, notes |-> <<>>]
                 ELSE LET g == after[k-1] IN IF g.ticks = 0 THEN g ELSE Fragment(g)
  IN after[total]

-----------------------------------------------------------------------------
(* MidiProducerImpl::render *)

InPlayback == feed # NoFeed /\ running /\ playing >= 0 /\ generator_start >= 0
EndTick(frames) == current_tick + SampleToTick(frames)

\* NOTE_OFF events that are flushed instead of being played in time
FlushedNone == <<>>                                        \* mutant
Flushed == IF must_flush \/ ~running THEN future_stack ELSE <<>>
Pending == IF must_flush \/ ~running THEN <<>> ELSE future_stack

\* Events are popped from the back while they are due.
Kept(end) == SubSeq(Pending, 1, SelectLastInSeq(Pending, LAMBDA e : e.tick >= end))
Popped(end) == SubSeq(Pending, Len(Kept(end)) + 1, Len(Pending))

\* What the generator plays before `end', in engine ticks
Played(end) ==
  IF InPlayback
    THEN LET notes == Generate(end - generator_start).notes
         IN [i \in DOMAIN notes |-> [key |-> notes[i].key, on |-> generator_start + notes[i].on,
                                     off |-> generator_start + notes[i].off]]
    ELSE <<>>

\* Aux::insert_sorted with backward_cmp_ticks
InsertSorted(stack, e) ==
  InsertAt(stack, SelectLastInSeq(stack, LAMBDA f : f.tick > e.tick) + 1, e)
Future(end) ==
  LET later == SelectSeq(Played(end), LAMBDA n : n.off >= end)
  IN FoldLeft(LAMBDA stack, n : InsertSorted(stack, [tick |-> n.off, key |-> n.key]),
              Kept(end), later)

\* Number of events of a key
Count(events, k) == Cardinality({i \in DOMAIN events : events[i].key = k})

\* One block: the producer renders, then the transport advances.
RenderBlock(frames) ==
  LET end == EndTick(frames)
      played == Played(end)
      ended == SelectSeq(played, LAMBDA n : n.off < end)
      g == Generate(end - generator_start)
  IN /\ current_tick < ClipTicks
     /\ must_flush' = FALSE
     /\ future_stack' = Future(end)
     /\ sounding' = [k \in ClipKeys |-> sounding[k] + Count(played, k) - Count(ended, k)
                                    - Count(Flushed, k) - Count(Popped(end), k)]
     /\ IF InPlayback THEN xtick' = g.xtick /\ itick' = g.itick ELSE UNCHANGED <<xtick, itick>>
     /\ Advance(frames)
     /\ UNCHANGED <<running, feed, playing, generator_start, ontime>>

-----------------------------------------------------------------------------
(* Jobs *)

\* update_clips and update_feed: a new generator continues at the position
\* of the one it replaces.
LastPlayPosition == IF playing >= 0 THEN xtick ELSE 0
UpdateFeed(notes) ==
  /\ feed' = notes
  /\ xtick' = LastPlayPosition /\ itick' = Jumpto(xtick')
  /\ UNCHANGED <<transport, playing, generator_start, must_flush, future_stack, sounding, ontime>>

\* start_playback and MidiProducerImpl::start
StartPlayback ==
  /\ running' = TRUE
  /\ IF feed # NoFeed /\ playing < 0
       THEN /\ playing' = 0 /\ generator_start' = current_bar_tick
            /\ xtick' = 0 /\ itick' = Jumpto(0)
            /\ ontime' = (current_bar_tick = current_tick)
       ELSE UNCHANGED <<playing, generator_start, xtick, itick, ontime>>
  /\ UNCHANGED <<current_tick_d, feed, must_flush, future_stack, sounding>>

\* stop_playback and MidiProducerImpl::stop: a second stop rewinds.
StopPlayback ==
  /\ running' = FALSE
  /\ must_flush' = TRUE
  /\ IF running
       THEN UNCHANGED <<current_tick_d, playing, generator_start>>
       ELSE current_tick_d' = 0 /\ playing' = -1 /\ generator_start' = -1
  /\ UNCHANGED <<generator, future_stack, sounding, ontime>>

ProducerInit ==
  /\ current_tick_d = 0 /\ running = FALSE
  /\ feed = NoFeed /\ xtick = 0 /\ itick = 0
  /\ playing = -1 /\ generator_start = -1 /\ must_flush = FALSE
  /\ future_stack = <<>> /\ sounding = [k \in ClipKeys |-> 0] /\ ontime = TRUE

ProducerNext ==
  \/ \E frames \in BlockSizes : RenderBlock(frames)
  \/ \E notes \in Feeds : UpdateFeed(notes)
  \/ StartPlayback \/ StopPlayback

ProducerSpec == ProducerInit /\ [][ProducerNext]_producerVars

-----------------------------------------------------------------------------
(* Properties *)

(* No note hangs and none is ended twice: the NOTE_ON events of each key    *)
(* that were sent and not ended are exactly the NOTE_OFF events render will *)
(* still send, through pauses, restarts and edits of the playing clip.      *)
NoHangingNotes == \A k \in ClipKeys : sounding[k] = Count(future_stack, k)

(* A note that sounds ends in time: no NOTE_OFF is due before the previous  *)
(* block, or later than the longest note from now, unless the next render   *)
(* flushes it.  A rewind with pending NOTE_OFFs must not delay them, and    *)
(* popping only from the back of future_stack must not overlook one.        *)
NotesEndInTime ==
  running /\ ~must_flush =>
    \A i \in DOMAIN future_stack :
      future_stack[i].tick >= current_tick - 1 /\ future_stack[i].tick <= current_tick + MaxDuration

(* The clip never drifts from the transport: the position of the generator  *)
(* is the current tick or, because of the tick that truncation may leave    *)
(* between two blocks, the one before, whatever was paused, rewound or      *)
(* edited since the generator was started at a bar.  Its position in the    *)
(* loop never drifts from that one either, by generate or by jumpto.        *)
PlaysInTime ==
  /\ playing >= 0 /\ ontime => generator_start + xtick \in {current_tick - 1, current_tick}
  /\ itick = xtick % loop_end

(* What render plays is what the looped clip has at these ticks: each note  *)
(* once per loop in which its tick falls into the block, whatever the size  *)
(* of blocks and fragments and wherever edits happened.                     *)
NotesByPosition ==
  \A frames \in BlockSizes : InPlayback =>
    LET end == EndTick(frames)
        played == Played(end)
        due == {d \in feed \X (xtick..end-generator_start-1) : d[2] % loop_end = d[1].tick}
    IN /\ Len(played) = Cardinality(due)
       /\ \A d \in due : \E i \in DOMAIN played :
            /\ played[i].key = d[1].key /\ played[i].on = generator_start + d[2]
            /\ played[i].off = played[i].on + d[1].duration

(* The frames of events are offsets into the block that is rendered, as the *)
(* assertions `frame >= 0 && frame <= 4095' of render require, although     *)
(* events of the tick between two blocks are late.                          *)
FramesInBlock ==
  \A frames \in BlockSizes :
    LET end == EndTick(frames)
        Frame(t) == SampleFromTick(t - current_tick)
    IN /\ \A i \in DOMAIN Popped(end) : Frame(Popped(end)[i].tick) \in 0..frames-1
       /\ ontime => \A i \in DOMAIN Played(end) :
            /\ Frame(Played(end)[i].on) \in 0..frames-1
            /\ Played(end)[i].off < end => Frame(Played(end)[i].off) \in 0..frames-1
=============================================================================
