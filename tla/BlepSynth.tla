----------------------------- MODULE BlepSynth ------------------------------
(***************************************************************************)
(* The BlepSynth device: its voices, and the oscillator of a voice.        *)
(***************************************************************************)
EXTENDS Integers, Sequences, FiniteSets, SequencesExt, FiniteSetsExt, Functions

-----------------------------------------------------------------------------
(* Voices of the BlepSynth device (devices/blepsynth/blepsynth.cc): note and   *)
(* parameter events start and release voices, whose FlexADSR envelopes end     *)
(* while audio is rendered.  A volume is a multiple of 1/FULL; the slope of an *)
(* envelope in a block is a choice, as its shapes and times allow.             *)

CONSTANTS NVoices,       \* set_max_voices()
          NoteKeys,      \* pairs <<channel, key>> that are played
          KEY_C,         \* the pair that parameter KEY_C plays, in NoteKeys
          FULL           \* full volume

Voices == 1..NVoices

VARIABLES voice,         \* voices_: state, note, envelope state and level, new_voice_
          active,        \* active_voices_
          idle,          \* idle_voices_
          sustain,       \* parameter SUSTAIN
          keyC,          \* parameter KEY_C and old_c_
          held_notes           \* notes that were started and not ended since

synthVars == <<voice, active, idle, sustain, keyC, held_notes>>

NoNote == <<0, 0>>
IdleVoice == [state |-> "IDLE", note |-> NoNote, env |-> "DONE", level |-> 0, new |-> FALSE]

set_max_voices ==
  /\ voice' = [v \in Voices |-> IdleVoice]
  /\ active' = <<>> /\ idle' = [i \in Voices |-> i]
SynthInit ==
  /\ voice = [v \in Voices |-> IdleVoice]
  /\ active = <<>> /\ idle = [i \in Voices |-> i]
  /\ sustain = FULL /\ keyC = FALSE /\ held_notes = {}

-----------------------------------------------------------------------------
(* FlexADSR                                                                   *)

\* start() and stop() of the volume envelope.
VoiceStarted(n) == [state |-> "ON", note |-> n, env |-> "ATTACK", level |-> 0, new |-> TRUE]
Released(x) == [x EXCEPT !.state = "RELEASE", !.env = "RELEASE"]
\* Volume after a sample in which it moves by d.  Only a decay to full volume
\* may stand still.
Slopes(x) == IF x.env = "DECAY" /\ sustain = FULL THEN 0..1 ELSE {1, FULL}
Attacked(x, d) == IF x.level + d > FULL THEN [x EXCEPT !.env = "DECAY", !.level = FULL] ELSE [x EXCEPT !.level = @ + d]
Decayed(x, d) == IF x.level - d < sustain THEN [x EXCEPT !.env = "SUSTAIN", !.level = sustain] ELSE [x EXCEPT !.level = @ - d]
Ended(x, d) == IF x.level - d <= 0 THEN [x EXCEPT !.env = "DONE", !.level = 0] ELSE [x EXCEPT !.level = @ - d]
\* A sustain level that changed is approached in steps.
Sustained(x, d) ==
  CASE x.level < sustain -> [x EXCEPT !.level = IF @ + d < sustain THEN @ + d ELSE sustain]
    [] x.level > sustain -> [x EXCEPT !.level = IF @ - d > sustain THEN @ - d ELSE sustain]
    [] OTHER -> x
processEnv(x, d) ==
  CASE x.env = "ATTACK" -> Attacked(x, d) [] x.env = "DECAY" -> Decayed(x, d) [] x.env = "RELEASE" -> Ended(x, d)
    [] x.env = "SUSTAIN" -> Sustained(x, d) [] OTHER -> x

-----------------------------------------------------------------------------
(* Events                                                                     *)

\* note_on() with alloc_voice(): out of voices, the note is not played.
note_on(n) ==
  /\ held_notes' = held_notes \cup {n}
  /\ IF idle = <<>> THEN UNCHANGED <<voice, active, idle>>
     ELSE LET v == idle[Len(idle)] IN
          /\ idle' = SubSeq(idle, 1, Len(idle) - 1)
          /\ active' = Append(active, v)
          /\ voice' = [voice EXCEPT ![v] = VoiceStarted(n)]
Sounding(n) == {v \in ToSet(active) : voice[v].state = "ON" /\ voice[v].note = n}
note_off(n) ==
  /\ held_notes' = held_notes \ {n}
  /\ voice' = [v \in Voices |-> IF v \in Sounding(n) THEN Released(voice[v]) ELSE voice[v]]
  /\ UNCHANGED <<active, idle>>
NoteOn(n) == note_on(n) /\ UNCHANGED <<sustain, keyC>>
NoteOff(n) == note_off(n) /\ UNCHANGED <<sustain, keyC>>
\* ALL_NOTES_OFF of a channel.
AllNotesOff(channel) ==
  /\ voice' = [v \in Voices |-> IF v \in ToSet(active) /\ voice[v].state = "ON" /\ voice[v].note[1] = channel
                                THEN Released(voice[v]) ELSE voice[v]]
  /\ held_notes' = {n \in held_notes : n[1] # channel}
  /\ UNCHANGED <<active, idle, sustain, keyC>>
\* adjust_param() of KEY_C: check_note().
CheckNote(on) ==
  /\ keyC # on
  /\ keyC' = on
  /\ IF on THEN note_on(KEY_C) ELSE note_off(KEY_C)
  /\ UNCHANGED sustain
\* adjust_param() of SUSTAIN: update_volume_envelope() of the active voices.
AdjustSustain(level) ==
  /\ sustain # level
  /\ sustain' = level
  /\ UNCHANGED <<voice, active, idle, keyC, held_notes>>

-----------------------------------------------------------------------------
(* Rendering                                                                  *)

\* free_unused_voices()
StillUsedKeepsAll(vs, x) == vs
StillUsed(vs, x) == SelectSeq(vs, LAMBDA v : x[v].state # "IDLE")
Unused(vs, x) == SelectSeq(vs, LAMBDA v : x[v].state = "IDLE")
\* render_audio(), sample by sample.
RenderAudio ==
  /\ active # <<>>
  /\ \E d \in [ToSet(active) -> 0..FULL] :
       LET Processed(v) == [processEnv(voice[v], d[v]) EXCEPT !.new = FALSE]
           x == [v \in Voices |-> IF v \notin ToSet(active) THEN voice[v]
                                  ELSE IF Processed(v).env = "DONE" THEN [Processed(v) EXCEPT !.state = "IDLE"] ELSE Processed(v)]
       IN  /\ \A v \in ToSet(active) : d[v] \in Slopes(voice[v])
           /\ voice' = x
           /\ active' = StillUsed(active, x)
           /\ idle' = idle \o Unused(active, x)
  /\ UNCHANGED <<sustain, keyC, held_notes>>
\* reset(): the parameters are applied again, KEY_C has not changed.
ResetSynth ==
  /\ active # <<>>
  /\ set_max_voices /\ held_notes' = {}
  /\ UNCHANGED <<sustain, keyC>>

SynthNext ==
  \/ \E n \in NoteKeys : NoteOn(n) \/ NoteOff(n)
  \/ \E channel \in {n[1] : n \in NoteKeys} : AllNotesOff(channel)
  \/ \E on \in BOOLEAN : CheckNote(on)
  \/ \E level \in 0..FULL : AdjustSustain(level)
  \/ RenderAudio \/ ResetSynth
\* The engine renders block after block.
SynthSpec == SynthInit /\ [][SynthNext]_synthVars

-----------------------------------------------------------------------------
(* Properties                                                                 *)

\* A voice is either in use or free, and in exactly one of the two lists: no
\* sequence of notes and releases loses a voice or hands one out twice.
VoicesPartitioned ==
  /\ Cardinality(ToSet(active)) = Len(active) /\ Cardinality(ToSet(idle)) = Len(idle)
  /\ ToSet(active) \cap ToSet(idle) = {} /\ ToSet(active) \cup ToSet(idle) = Voices
  /\ \A v \in Voices : v \in ToSet(idle) <=> voice[v].state = "IDLE"

\* No note hangs: a voice that is on plays a note that nobody ended since.
NotesHeld == \A v \in Voices : voice[v].state = "ON" => voice[v].note \in held_notes

-----------------------------------------------------------------------------
(* The oscillator of the BlepSynth device (devices/blepsynth/bleposc.hh): a    *)
(* slave wave of four segments A..D, restarted by a master phase.  Arithmetic  *)
(* is exact: phases are multiples of 1/P, levels of 1/(P * S); sub and the     *)
(* sync factor are given in halves, the widths in quarters.                    *)

CONSTANTS P,             \* phase units per cycle, a multiple of 16
          OscSettings,   \* records [shape, sub2, width4, subwidth4, sync2]
          Increments,    \* master_inc
          WIDTH, WSHIFT  \* length of a band limited step, and delay of the slope

S == 12 * P              \* makes a mean value a whole number of level units
Segments == <<"A", "B", "C", "D">>

VARIABLES par,           \* the settings
          inc,           \* master_inc
          osc,           \* UnisonVoice: master_phase, slave_phase, state, current_level, last_dc
          future,        \* future, and future_pos
          osc_value,         \* last_value without the leak
          step,          \* "sample": between samples, "cross": in the loop of state checks
          ages,          \* of the sample's steps: how long ago, in units of 1/(2 * P) of a slave's cycle
          exact          \* the wave has met a segment's start since the settings changed

oscVars == <<par, inc, osc, future, osc_value, step, ages, exact>>

-----------------------------------------------------------------------------
(* The wave                                                                   *)

saw_slope(q) == -2 * (q.shape + 1) * (2 - q.sub2)
bound(q) == LET sw == q.subwidth4 * q.width4 * (P \div 16)
                w == q.width4 * (P \div 4)
                s == q.subwidth4 * (P \div 4)
            IN  <<sw, 2 * sw + P - s - w, sw + P - s, P>>
\* Heights of a segment's start over the slope: 0, jump_a, jump_ab, jump_abc.
jump(q) == <<0, q.shape * (2 - q.sub2) - q.sub2, (q.shape + 1) * (2 - q.sub2) - q.sub2, (2 * q.shape + 1) * (2 - q.sub2)>>
\* Start of the segments: a1 b1 c1 d1 of estimate_dc() and reset_voice_state().
SegmentStart(q, i) == IF i = 1 THEN 0 ELSE bound(q)[i - 1]
\* a1 == 1; every segment adds its slope and a jump to the one before.
StartLevel(q) ==
  LET slope(i) == saw_slope(q) * (bound(q)[i] - SegmentStart(q, i))
      b1 == P + slope(1) + P * (q.shape * (2 - q.sub2) - q.sub2)
      c1 == b1 + slope(2) + P * (2 - q.sub2)
      d1 == c1 + slope(3) + P * (q.shape * (2 - q.sub2) + q.sub2)
  IN  <<P, b1, c1, d1>>
\* Area, in units of 1/(2 * P * P), of a segment up to phase x.
Area(q, i, x) ==
  LET len == IF x < SegmentStart(q, i) THEN 0 ELSE IF x > bound(q)[i] THEN bound(q)[i] - SegmentStart(q, i) ELSE x - SegmentStart(q, i)
  IN  len * (2 * StartLevel(q)[i] + saw_slope(q) * len)
AreaTo(q, x) == Area(q, 1, x) + Area(q, 2, x) + Area(q, 3, x) + Area(q, 4, x)
\* estimate_dc(): whole cycles, and the part of one before the master's sync.
estimate_dc(q) ==
  LET cycles == q.sync2 \div 2
      sync_phase == (q.sync2 % 2) * (P \div 2)
      area == AreaTo(q, P) * cycles + AreaTo(q, sync_phase)
  IN  (area * (S \div (2 * P)) * 2) \div q.sync2
\* reset_voice_state(): the segment of a phase and the level there.
SegmentAt(q, x) == Min({i \in 1..4 : i = 4 \/ x < bound(q)[i]})
LevelAt(q, x) == LET i == SegmentAt(q, x) IN S * (StartLevel(q)[i] - P + saw_slope(q) * (x - SegmentStart(q, i)))

OscInit ==
  /\ par \in OscSettings /\ inc \in Increments
  /\ \E x \in {0, P \div 2, P - 4} :
       LET slave == ((x * par.sync2) \div 2) % P IN
       /\ osc = [master |-> x, slave |-> slave, state |-> SegmentAt(par, slave), level |-> LevelAt(par, slave), dc |-> estimate_dc(par)]
       /\ osc_value = LevelAt(par, slave) + S * P - estimate_dc(par)
  /\ future = [pos |-> 0, buf |-> [i \in 0..(2 * WIDTH - 1) |-> 0]]
  /\ step = "sample" /\ ages = <<>> /\ exact = TRUE

-----------------------------------------------------------------------------
(* Bands of steps still to come                                               *)

\* insert_blep(): a step is complete WIDTH samples later.
insert_blep(f, weight) == [f EXCEPT !.buf[f.pos + WIDTH - 1] = @ + weight]
insert_future_delta(f, weight) == [f EXCEPT !.buf[f.pos + WSHIFT] = @ + weight]
pop_future(f) ==
  LET shifted == [i \in DOMAIN f.buf |-> IF i < WIDTH THEN f.buf[WIDTH + i] ELSE 0]
  IN  IF f.pos + 1 < WIDTH THEN [f EXCEPT !.pos = @ + 1] ELSE [pos |-> 0, buf |-> shifted]

-----------------------------------------------------------------------------
(* process_sample_stereo()                                                    *)

slave_inc == (inc * par.sync2) \div 2
saw_delta == S * saw_slope(par) * slave_inc
\* The slave has passed a phase, and did so before the master's sync.
check_slave_before_master(target) ==
  /\ osc.slave > target
  /\ osc.master > P => 2 * (osc.slave - target) > (osc.master - P) * par.sync2

SetParam(q) ==
  /\ step = "sample" /\ q # par
  /\ par' = q /\ exact' = FALSE
  /\ UNCHANGED <<inc, osc, future, osc_value, step, ages>>
Advance ==
  /\ step = "sample"
  /\ osc' = [osc EXCEPT !.master = @ + inc, !.slave = @ + slave_inc]
  /\ step' = "cross" /\ ages' = <<>>
  /\ UNCHANGED <<par, inc, future, osc_value, exact>>
\* From segment A, B or C to the next: a step to the level the wave has there.
Cross(i) ==
  LET b == bound(par)[i]
      since == S * saw_slope(par) * (osc.slave - b)          \* slave_frac * saw_delta
      height == S * (P * jump(par)[i + 1] + saw_slope(par) * b) - (osc.level + saw_delta - since)
  IN  /\ step = "cross" /\ osc.state = i /\ check_slave_before_master(b)
      /\ osc' = [osc EXCEPT !.state = i + 1, !.level = @ + height]
      /\ future' = insert_blep(future, height)
      /\ exact' = TRUE /\ ages' = Append(ages, 2 * (osc.slave - b))
      /\ UNCHANGED <<par, inc, osc_value, step>>
\* The wave starts again, since is the part of saw_delta after that.
Restarted(master, slave, since) ==
  LET level == osc.level + saw_delta - since IN
  /\ osc' = [osc EXCEPT !.master = master, !.slave = slave, !.state = 1, !.level = since - saw_delta]
  /\ future' = insert_blep(future, -level)
  /\ exact' = TRUE /\ ages' = Append(ages, 2 * slave)
  /\ UNCHANGED <<par, inc, osc_value, step>>
SlaveWraps ==
  /\ step = "cross" /\ osc.state = 4 /\ check_slave_before_master(P)
  /\ Restarted(osc.master, osc.slave - P, S * saw_slope(par) * (osc.slave - P))
Settled == osc.state \in 1..4 /\ ~check_slave_before_master(bound(par)[osc.state])
MasterSyncs ==
  LET slave == ((osc.master - P) * par.sync2) \div 2 IN
  /\ step = "cross" /\ Settled /\ osc.master > P
  /\ Restarted(osc.master - P, slave, S * saw_slope(par) * slave)
\* The slope and the change of the mean value are added, a sample is output.
Output ==
  LET dc == estimate_dc(par)
      f == insert_future_delta(future, saw_delta + osc.dc - dc)
  IN  /\ step = "cross" /\ Settled /\ osc.master <= P
      /\ osc' = [osc EXCEPT !.level = @ + saw_delta, !.dc = dc]
      /\ osc_value' = osc_value + f.buf[f.pos]
      /\ future' = pop_future([f EXCEPT !.buf[f.pos] = 0])
      /\ step' = "sample"
      /\ UNCHANGED <<par, inc, ages, exact>>

OscNext ==
  \/ \E q \in OscSettings : SetParam(q)
  \/ \E i \in 1..3 : Cross(i)
  \/ Advance \/ SlaveWraps \/ MasterSyncs \/ Output
OscSpec == OscInit /\ [][OscNext]_oscVars

-----------------------------------------------------------------------------
(* Properties                                                                 *)

\* However the phases cross bounds and each other, and from whatever phase the
\* wave was started, its level is the one that reset_voice_state() computes for
\* the phase, as soon as a segment was entered with the current settings.
LevelFollowsPhase ==
  step = "sample" /\ exact =>
    \/ osc.level = LevelAt(par, osc.slave)
    \/ osc.slave \in Range(bound(par))

\* The steps within a sample are inserted in the order in which the phases pass
\* them: the slave's own steps after the master's sync belong to the next cycle.
StepsInOrder == \A i \in 2..Len(ages) : ages[i] <= ages[i - 1]

\* Mean of the wave over a cycle of the master, from samples at half units.
MeanLevel(q) ==
  LET units == (P * q.sync2) \div 2
      Doubled(x) == LevelAt(q, x) + LevelAt(q, x) + S * saw_slope(q) + 2 * S * P
  IN  FoldFunction(+, 0, [x \in 0..(units - 1) |-> Doubled(x % P)]) \div (2 * units)

\* No part of a step is lost or counted twice: what was output and what is still
\* to come add up to the wave's level, less the mean value of the wave.
OutputFollowsLevel ==
  /\ step = "sample" => osc_value + FoldFunction(+, 0, future.buf) = osc.level + S * P - osc.dc
  /\ step = "sample" /\ exact => osc.dc = MeanLevel(par)
=============================================================================
