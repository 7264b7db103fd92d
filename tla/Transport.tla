------------------------------ MODULE Transport ------------------------------
(***************************************************************************)
(* Tempo, time signature and playback position.  Each project keeps its    *)
(* own TickSignature in the main thread; changes, start and stop reach the *)
(* AudioTransport of the engine as async_jobs, in order, and the engine    *)
(* applies them between two blocks.  Bar, beat and time of the transport   *)
(* are derived from the tick and have to follow every change of either.    *)
(*                                                                         *)
(* Ticks are scaled: a block advances the transport by as many ticks as    *)
(* the tempo has beats per minute, and a minute has BLOCKS_PER_MINUTE      *)
(* blocks.  Fractions of ticks (current_tick_d) are MidiProducer's.        *)
(***************************************************************************)
EXTENDS Integers, Sequences

CONSTANTS Projects,           \* projects of the server
          SEMIQUAVER_TICKS,
          MIN_BPM, MAX_BPM,
          BLOCKS_PER_MINUTE,
          Bpms, Numerators, Denominators, \* values the properties are set to
          DefaultBpm,         \* tempo of a new project
          MaxTick,            \* bound: the transport advances up to here
          MaxCalls            \* bound: calls of the projects' methods

VARIABLES tick_sig,  \* tick_sig_ of each project
          discarded, \* discarded_
          current,   \* the project of the engine, NoProject before the first
          async_jobs,
          tstate, \* AudioTransport
          calls,     \* history: calls so far
          latest     \* history: signature sent to the engine last
transportVars == <<tick_sig, discarded, current, async_jobs, tstate, calls, latest>>

NoProject == "none"
Clamp(x, low, high) == IF x < low THEN low ELSE IF x > high THEN high ELSE x

-----------------------------------------------------------------------------
(* TickSignature                                                           *)

set_bpm(sig, bpm) == [sig EXCEPT !.bpm = bpm, !.ticks_per_minute = bpm * BLOCKS_PER_MINUTE]

set_signature(sig, beats_per_bar, beat_unit) ==
  LET unit == IF beat_unit \in {1, 2, 4, 8, 16} THEN beat_unit ELSE sig.beat_unit
      beats == Clamp(beats_per_bar, 1, 64)
      ticks == SEMIQUAVER_TICKS * (16 \div unit)
  IN [sig EXCEPT !.beats_per_bar = beats, !.beat_unit = unit,
                 !.beat_ticks = ticks, !.bar_ticks = ticks * beats]

TickSignature(bpm, beats_per_bar, beat_unit) ==
  LET unset == [bpm |-> 0, ticks_per_minute |-> 0, beats_per_bar |-> 4, beat_unit |-> 4,
                beat_ticks |-> 0, bar_ticks |-> 0]
  IN set_bpm(set_signature(unset, beats_per_bar, beat_unit), bpm)

\* Semiquavers are kept in ticks, seconds in ticks after the minute
beat_from_tick(sig, tick) ==
  LET rest == tick % sig.bar_ticks
  IN [bar |-> tick \div sig.bar_ticks, beat |-> rest \div sig.beat_ticks,
      semiquaver |-> rest % sig.beat_ticks]
beat_to_tick(sig, beat) == beat.bar * sig.bar_ticks + beat.beat * sig.beat_ticks + beat.semiquaver
bar_to_tick(sig, bar) == bar * sig.bar_ticks
time_from_tick(sig, tick) ==
  [minutes |-> tick \div sig.ticks_per_minute, seconds |-> tick % sig.ticks_per_minute]
time_to_tick(sig, time) == time.minutes * sig.ticks_per_minute + time.seconds

-----------------------------------------------------------------------------
(* AudioTransport                                                          *)

update_current(t) ==
  LET beat == beat_from_tick(t.tick_sig, t.current_tick)
      bar_tick == bar_to_tick(t.tick_sig, beat.bar)
  IN [t EXCEPT !.current_beat = beat, !.current_time = time_from_tick(t.tick_sig, t.current_tick),
               !.current_bar_tick = bar_tick, !.next_bar_tick = bar_tick + t.tick_sig.bar_ticks]

AudioTransport ==
  LET sig == TickSignature(60, 4, 4)
  IN update_current([tick_sig |-> sig, current_tick |-> 0, current_bpm |-> 0,
                     current_beat |-> beat_from_tick(sig, 0), current_time |-> time_from_tick(sig, 0),
                     current_bar_tick |-> 0, next_bar_tick |-> 0])

playback_running(t, on) == [t EXCEPT !.current_bpm = IF on THEN t.tick_sig.bpm ELSE 0]
set_tick(t, tick) == update_current([t EXCEPT !.current_tick = tick])

tempo(t, sig) ==
  update_current(
    [t EXCEPT !.tick_sig = set_signature(set_bpm(@, Clamp(sig.bpm, MIN_BPM, MAX_BPM)), sig.beats_per_bar, sig.beat_unit),
              !.current_bpm = IF @ # 0 THEN sig.bpm ELSE 0])

-----------------------------------------------------------------------------
(* ProjectImpl, main thread                                                *)

Call(p) == calls < MaxCalls /\ ~discarded[p] /\ calls' = calls + 1

TempoJob(sig) == [kind |-> "tempo", sig |-> sig]
StartJob(sig) == [kind |-> "start", sig |-> sig]
StopJob(sig) == [kind |-> "stop", sig |-> sig]

update_tempo(p, sig) == latest' = sig /\ async_jobs' = Append(async_jobs, TempoJob(sig))

Changed(p, sig) ==
  /\ tick_sig' = [tick_sig EXCEPT ![p] = sig]
  /\ IF sig # tick_sig[p] THEN update_tempo(p, sig) ELSE UNCHANGED <<async_jobs, latest>>
  /\ UNCHANGED <<discarded, current, tstate>>

bpm_(p, bpm) == Call(p) /\ Changed(p, set_bpm(tick_sig[p], Clamp(bpm, MIN_BPM, MAX_BPM)))
numerator_(p, n) == Call(p) /\ Changed(p, set_signature(tick_sig[p], n, tick_sig[p].beat_unit))
denominator_(p, n) == Call(p) /\ Changed(p, set_signature(tick_sig[p], tick_sig[p].beats_per_bar, n))

\* The project that played before is stopped first
start_playback(p) ==
  /\ Call(p)
  /\ current' = p
  /\ latest' = tick_sig[p]
  /\ async_jobs' = (IF current \in Projects \ {p} THEN Append(async_jobs, StopJob(tick_sig[current])) ELSE async_jobs)
                   \o <<StartJob(tick_sig[p])>>
  /\ UNCHANGED <<tick_sig, discarded, tstate>>

stop_playback(p) ==
  /\ Call(p)
  /\ async_jobs' = Append(async_jobs, StopJob(tick_sig[p]))
  /\ UNCHANGED <<tick_sig, discarded, current, tstate, latest>>

discard(p) ==
  /\ Call(p)
  /\ discarded' = [discarded EXCEPT ![p] = TRUE]
  /\ async_jobs' = Append(async_jobs, StopJob(tick_sig[p]))
  /\ UNCHANGED <<tick_sig, current, tstate, latest>>

-----------------------------------------------------------------------------
(* Engine thread                                                           *)

Executed(t, job) ==
  CASE job.kind = "tempo" -> tempo(t, job.sig)
    [] job.kind = "start" -> playback_running(tempo(t, job.sig), TRUE)
    \* stopping what does not run rewinds
    [] job.kind = "stop" -> IF t.current_bpm # 0 THEN playback_running(t, FALSE) ELSE set_tick(playback_running(t, FALSE), 0)

process_job ==
  /\ async_jobs # <<>>
  /\ tstate' = Executed(tstate, Head(async_jobs))
  /\ async_jobs' = Tail(async_jobs)
  /\ UNCHANGED <<tick_sig, discarded, current, calls, latest>>

advance ==
  /\ tstate.current_bpm > 0 /\ tstate.current_tick < MaxTick
  /\ tstate' = update_current([tstate EXCEPT !.current_tick = @ + tstate.tick_sig.bpm])
  /\ UNCHANGED <<tick_sig, discarded, current, async_jobs, calls, latest>>

TransportInit ==
  /\ tick_sig = [p \in Projects |-> TickSignature(DefaultBpm, 4, 4)]
  /\ discarded = [p \in Projects |-> FALSE]
  /\ current = NoProject
  /\ latest = TickSignature(DefaultBpm, 4, 4)
  /\ async_jobs = <<TempoJob(latest)>> \* sent by the constructor
  /\ tstate = AudioTransport
  /\ calls = 0

TransportNext ==
  \/ \E p \in Projects : \/ \E bpm \in Bpms : bpm_(p, bpm)
                         \/ \E n \in Numerators : numerator_(p, n)
                         \/ \E n \in Denominators : denominator_(p, n)
                         \/ start_playback(p)
                         \/ stop_playback(p)
                         \/ discard(p)
  \/ process_job
  \/ advance

TransportSpec == TransportInit /\ [][TransportNext]_transportVars

-----------------------------------------------------------------------------
(* Whatever is changed while the transport runs, bar, beat and time are    *)
(* those of the tick under the signature in force: converted back they     *)
(* give the tick, the beat exists in the bar, and the tick lies in the bar *)
(* at whose end clips are launched.                                        *)
PositionCurrent ==
  LET t == tstate
  IN /\ beat_to_tick(t.tick_sig, t.current_beat) = t.current_tick
     /\ time_to_tick(t.tick_sig, t.current_time) = t.current_tick
     /\ t.current_beat.beat < t.tick_sig.beats_per_bar
     /\ t.current_bar_tick <= t.current_tick /\ t.current_tick < t.next_bar_tick

(* Once the engine has executed its jobs it plays with the signature that  *)
(* was sent last, clipped like the project clipped it, and the running     *)
(* tempo is that of the signature.                                         *)
TempoArrives ==
  async_jobs = <<>> => /\ tstate.tick_sig = latest
                       /\ tstate.current_bpm \in {0, latest.bpm}
=============================================================================
