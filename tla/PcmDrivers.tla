----------------------------- MODULE PcmDrivers -----------------------------
(***************************************************************************)
(* The engine's driver set: the main thread opens the drivers that the     *)
(* preferences select (update_drivers), the engine thread takes them over  *)
(* in a synchronized job (update_driver_set) and uses the PCM driver, and  *)
(* what it gave back is closed when the main loop destroys the job. The    *)
(* PCM driver is JackDriver, the ALSA driver below or the null driver.     *)
(*                                                                         *)
(* A driver object does nothing before the engine uses it and nothing that *)
(* matters after, so the state of the JACK and the ALSA driver is that of the *)
(* engine's driver; the others are records or names.                       *)
(***************************************************************************)
EXTENDS Integers, Sequences, FiniteSetsExt

-----------------------------------------------------------------------------
(***************************************************************************)
(* The JACK PCM driver of src/ase/driver-jack.cc: two ring buffers between *)
(* the callback of the JACK thread and the engine thread, that share       *)
(* nothing but the read and write position of each ring and a flag.        *)
(*                                                                         *)
(* A ring's frames are numbered in the order they are written, modulo      *)
(* 2 * size, which tells a frame from the one a lap earlier in its slot.   *)
(* A ring operation is two steps, the copy and the store of the position,  *)
(* so a copy lasts from the first step to the second.                      *)
(***************************************************************************)

CONSTANTS
  BlockLength,  \* config.block_length: frames of one engine block
  Periods,      \* the buffer sizes the JACK server may use
  UserFrames    \* config.latency_ms * config.mix_freq / 1000

ASSUME BlockLengthAssumption == BlockLength \in Nat \ {0}
ASSUME PeriodsAssumption == Periods \subseteq Nat \ {0} /\ Periods # {}
ASSUME UserFramesAssumption == UserFrames \in Nat

VARIABLES
  jserver,  \* the JACK server: [up, period]
  jclient,  \* the driver: [open, period: JACK's buffer size at open(), active: atomic_active_, xruns: atomic_xruns_ # printed_xruns_]
  jin,      \* input_ringbuffer_, written by the callback, read by the engine
  jout,     \* output_ringbuffer_, written by the engine, read by the callback
  jcb,      \* the JACK thread: [pc, n: n_frames, did: can_write or can_read]
  jeng      \* the engine thread in pcm_write(): [pc, did]

jvars == <<jserver, jclient, jin, jout, jcb, jeng>>

(***************************************************************************)
(* FrameRingBuffer: rn and wn number the next frame to read and to write.  *)
(***************************************************************************)
Resized(n_frames) ==
  [size |-> n_frames + 1, buf |-> [p \in 0..n_frames |-> -1],
   rpos |-> 0, wpos |-> 0, rn |-> 0, wn |-> 0]

get_readable_frames(r) ==
  (IF r.wpos < r.rpos THEN r.wpos + r.size ELSE r.wpos) - r.rpos

get_writable_frames(r) ==
  (IF r.rpos <= r.wpos THEN r.rpos + r.size ELSE r.rpos) - r.wpos - 1

SlotsFrom(r, pos, n) == {(pos + i) % r.size : i \in 0..n-1}

\* Mutant: the part of a write that wraps around is lost.
CopyInNoWrap(r, n) ==
  [r EXCEPT !.buf = [p \in DOMAIN r.buf |->
     IF p \in r.wpos..(r.wpos + n - 1) THEN (r.wn + p - r.wpos) % (2 * r.size) ELSE r.buf[p]]]

CopyIn(r, n) ==
  [r EXCEPT !.buf = [p \in DOMAIN r.buf |->
     IF p \in SlotsFrom(r, r.wpos, n)
     THEN (r.wn + ((p + r.size - r.wpos) % r.size)) % (2 * r.size)
     ELSE r.buf[p]]]

Written(r, n) ==
  [r EXCEPT !.wpos = (@ + n) % r.size, !.wn = (@ + n) % (2 * r.size)]

Read(r, n) ==
  [r EXCEPT !.rpos = (@ + n) % r.size, !.rn = (@ + n) % (2 * r.size)]

(***************************************************************************)
(* open() and close(), by the main thread.                                 *)
(***************************************************************************)

buffer_frames(period) == Max({2 * period + BlockLength, UserFrames})

Closed == [open |-> FALSE, period |-> 0, active |-> FALSE, xruns |-> FALSE]

Idle == [pc |-> "idle", n |-> 0, did |-> 0]

EngineIdle == [pc |-> "idle", did |-> 0]

\* What open() leaves behind: the driver is inactive, the output ring full of
\* silence. Nothing changes before the engine's first pcm_check_io().
JackOpened(period) ==
  LET frames == buffer_frames(period)
      ring   == Resized(frames)
  IN  /\ jclient' = [Closed EXCEPT !.open = TRUE, !.period = period]
      /\ jin' = ring
      /\ jout' = Written(CopyIn(ring, frames), frames)
      /\ jcb' = Idle

JackOpen ==
  /\ jserver.up /\ ~jclient.open
  /\ JackOpened(jserver.period)
  /\ UNCHANGED <<jserver, jeng>>

\* The driver without the object that close() and the destructor take down.
JackClosed ==
  /\ jclient' = Closed
  /\ jin' = Resized(0) /\ jout' = Resized(0)
  /\ jcb' = Idle

JackClose ==
  /\ jclient.open
  /\ jeng.pc = "idle"
  /\ JackClosed
  /\ UNCHANGED <<jserver, jeng>>

(***************************************************************************)
(* process_callback(), by the JACK thread.                                 *)
(***************************************************************************)

CallbackFits(n) ==
  get_writable_frames(jin) >= n /\ get_readable_frames(jout) >= n

\* An inactive driver plays zeros and touches neither ring.
CallbackStarts ==
  /\ jserver.up /\ jclient.open /\ jclient.active
  /\ jcb.pc = "idle"
  /\ LET n == jserver.period
     IN  IF CallbackFits(n)
         THEN /\ jcb' = [pc |-> "write", n |-> n, did |-> 0]
              /\ UNCHANGED jclient
         ELSE /\ jclient' = [jclient EXCEPT !.xruns = TRUE]
              /\ UNCHANGED jcb
  /\ UNCHANGED <<jserver, jin, jout, jeng>>

CallbackWrites ==
  /\ jcb.pc = "write"
  /\ LET can_write == Min({get_writable_frames(jin), jcb.n})
     IN  /\ jin' = CopyIn(jin, can_write)
         /\ jcb' = [jcb EXCEPT !.pc = "written", !.did = can_write]
  /\ UNCHANGED <<jserver, jclient, jout, jeng>>

CallbackWritten ==
  /\ jcb.pc = "written"
  /\ jin' = Written(jin, jcb.did)
  /\ jcb' = IF jcb.did = jcb.n THEN [jcb EXCEPT !.pc = "read", !.did = 0] ELSE Idle
  /\ UNCHANGED <<jserver, jclient, jout, jeng>>

CallbackReads ==
  /\ jcb.pc = "read"
  /\ jcb' = [jcb EXCEPT !.pc = "reading", !.did = Min({get_readable_frames(jout), jcb.n})]
  /\ UNCHANGED <<jserver, jclient, jin, jout, jeng>>

CallbackRead ==
  /\ jcb.pc = "reading"
  /\ jout' = Read(jout, jcb.did)
  /\ jcb' = Idle
  /\ UNCHANGED <<jserver, jclient, jin, jeng>>

process_callback ==
  CallbackStarts \/ CallbackWrites \/ CallbackWritten \/ CallbackReads \/ CallbackRead

(***************************************************************************)
(* pcm_check_io(), then pcm_write(), which calls pcm_read() for the input  *)
(* the engine never asks for, by the engine thread.                        *)
(***************************************************************************)
n_frames_avail == Min({get_writable_frames(jout), get_readable_frames(jin)})

JackCheckIO ==
  /\ jclient.open
  /\ jeng.pc = "idle"
  /\ jclient' = [jclient EXCEPT !.active = TRUE, !.xruns = FALSE]
  /\ jeng' = IF n_frames_avail >= BlockLength THEN [pc |-> "read", did |-> 0] ELSE jeng
  /\ UNCHANGED <<jserver, jin, jout, jcb>>

EngineReads ==
  /\ jeng.pc = "read"
  /\ jeng' = [pc |-> "reading", did |-> Min({get_readable_frames(jin), BlockLength})]
  /\ UNCHANGED <<jserver, jclient, jin, jout, jcb>>

EngineRead ==
  /\ jeng.pc = "reading"
  /\ jin' = Read(jin, jeng.did)
  /\ jeng' = [pc |-> "write", did |-> 0]
  /\ UNCHANGED <<jserver, jclient, jout, jcb>>

EngineWrites ==
  /\ jeng.pc = "write"
  /\ LET can_write == Min({get_writable_frames(jout), BlockLength})
     IN  /\ jout' = CopyIn(jout, can_write)
         /\ jeng' = [pc |-> "written", did |-> can_write]
  /\ UNCHANGED <<jserver, jclient, jin, jcb>>

EngineWritten ==
  /\ jeng.pc = "written"
  /\ jout' = Written(jout, jeng.did)
  /\ jeng' = EngineIdle
  /\ UNCHANGED <<jserver, jclient, jin, jcb>>

JackPcmWrite == EngineReads \/ EngineRead \/ EngineWrites \/ EngineWritten

(***************************************************************************)
(* The JACK server, outside the repository: it may go down for good, with  *)
(* no callback in progress, and its user may change its buffer size.       *)
(***************************************************************************)
JackShutdown ==
  /\ jserver.up /\ jcb.pc = "idle"
  /\ jserver' = [jserver EXCEPT !.up = FALSE]
  /\ UNCHANGED <<jclient, jin, jout, jcb, jeng>>

JackPeriod ==
  /\ jserver.up /\ jcb.pc = "idle"
  /\ \E period \in Periods \ {jserver.period} : jserver' = [jserver EXCEPT !.period = period]
  /\ UNCHANGED <<jclient, jin, jout, jcb, jeng>>

JackInit ==
  /\ jserver \in [up : {TRUE}, period : Periods]
  /\ jclient = Closed
  /\ jin = Resized(0) /\ jout = Resized(0)
  /\ jcb = Idle /\ jeng = EngineIdle

JackNext ==
  \/ JackOpen \/ JackClose
  \/ process_callback
  \/ JackCheckIO \/ JackPcmWrite
  \/ JackShutdown \/ JackPeriod

JackSpec == JackInit /\ [][JackNext]_jvars

-----------------------------------------------------------------------------
\* The slots a thread is copying to or from a ring.
CopiedBy(ring, who) ==
  CASE who = "in_producer" /\ jcb.pc = "written" -> SlotsFrom(ring, ring.wpos, jcb.did)
    [] who = "in_consumer" /\ jeng.pc = "reading" -> SlotsFrom(ring, ring.rpos, jeng.did)
    [] who = "out_producer" /\ jeng.pc = "written" -> SlotsFrom(ring, ring.wpos, jeng.did)
    [] who = "out_consumer" /\ jcb.pc = "reading" -> SlotsFrom(ring, ring.rpos, jcb.did)
    [] OTHER -> {}

InOrder(ring) ==
  \A i \in 0..get_readable_frames(ring)-1 :
    ring.buf[(ring.rpos + i) % ring.size] = (ring.rn + i) % (2 * ring.size)

\* What a consumer may read of a ring is the unbroken continuation of what it
\* has read before, whatever the other thread is doing, and no slot is copied
\* to while it is copied from (FrameRingBuffer::read and write take no lock).
FramesInOrder ==
  /\ InOrder(jin) /\ InOrder(jout)
  /\ CopiedBy(jin, "in_producer") \cap CopiedBy(jin, "in_consumer") = {}
  /\ CopiedBy(jout, "out_producer") \cap CopiedBy(jout, "out_consumer") = {}

\* Space and data checked by process_callback() and pcm_check_io() are still
\* there when they are used: all four assertions on the number of frames that
\* a ring operation transferred hold.
ChecksStayValid ==
  /\ jcb.pc \in {"written", "reading"} => jcb.did = jcb.n
  /\ jeng.pc \in {"reading", "written"} => jeng.did = BlockLength
  /\ jcb.pc = "write" => CallbackFits(jcb.n)
  /\ jeng.pc = "read" => n_frames_avail >= BlockLength

\* The frames a thread has taken from one ring and not yet put into the other.
InCallback == IF jcb.pc \in {"read", "reading"} THEN jcb.n ELSE 0

InEngine == IF jeng.pc \in {"write", "written"} THEN BlockLength ELSE 0

\* However many dropouts there were, both rings together always hold
\* buffer_frames_ frames, which is the latency pcm_latency() reports: a dropout
\* takes frames from neither ring.
LatencyConstant ==
  jclient.open =>
    get_readable_frames(jin) + get_readable_frames(jout) + InEngine - InCallback
      = buffer_frames(jclient.period)

\* Between two transfers the engine can write a block or the callback finds
\* room and frames: both never wait for each other, and once the engine has
\* caught up the callback is no dropout. That is what the two JACK buffers plus
\* one block that open() asks for are there for, and it leaves room for a JACK
\* buffer of twice the size the server had at open().
NeverStuck ==
  (jclient.open /\ jcb.pc = "idle" /\ jeng.pc = "idle" /\ jserver.period <= 2 * jclient.period) =>
    n_frames_avail >= BlockLength \/ CallbackFits(jserver.period)

-----------------------------------------------------------------------------
(***************************************************************************)
(* The ALSA PCM driver of src/ase/driver-alsa.cc, opened for playback only *)
(* as update_drivers() does, and the playback device behind it. The device *)
(* is external, modelled from the calls the driver makes: a queue of       *)
(* frames that is played once it has reached the start threshold, and that *)
(* an error stops until snd_pcm_prepare(). An underrun does not stop it    *)
(* (stop_threshold is LONG_MAX). Frames are counted, not told apart.       *)
(***************************************************************************)

CONSTANTS
  AlsaPeriod,   \* period_size_: frames of a block
  AlsaBuffers   \* what alsa_device_setup() may end up with: a set of [size, n_periods]

ASSUME AlsaPeriodAssumption == AlsaPeriod \in Nat \ {0}
ASSUME AlsaBuffersAssumption ==
  \A b \in AlsaBuffers : b.size \in Nat /\ b.size >= AlsaPeriod /\ b.n_periods \in Nat \ {0}

VARIABLES
  adev,   \* the device behind write_handle_: [state, fill, size, n_periods]
  aeng    \* the engine thread in the driver: [pc, n_left]

avars == <<adev, aeng>>

NoDevice == [state |-> "closed", fill |-> 0, size |-> 0, n_periods |-> 0]

AlsaIdle == [pc |-> "idle", n_left |-> 0]

(***************************************************************************)
(* The device.                                                             *)
(***************************************************************************)

start_threshold(d) == (d.size \div AlsaPeriod) * AlsaPeriod

\* snd_pcm_writei() of n frames that fit.
Queued(d, n) ==
  LET fill == d.fill + n
  IN  [d EXCEPT !.fill = fill,
                !.state = IF @ = "prepared" /\ fill >= start_threshold(d) THEN "running" ELSE @]

snd_pcm_prepare(d) ==
  IF d.state = "gone" THEN d ELSE [d EXCEPT !.state = "prepared", !.fill = 0]

avail(d) == d.size - d.fill

Failing(d) == d.state \in {"xrun", "gone"}

AlsaPlays ==
  /\ adev.state = "running" /\ adev.fill > 0
  /\ adev' = [adev EXCEPT !.fill = @ - 1]
  /\ UNCHANGED aeng

\* A suspend, or a device error of any kind.
AlsaStops ==
  /\ adev.state \in {"prepared", "running"}
  /\ adev' = [adev EXCEPT !.state = "xrun"]
  /\ UNCHANGED aeng

AlsaUnplugged ==
  /\ adev.state \in {"prepared", "running", "xrun"}
  /\ adev' = [adev EXCEPT !.state = "gone"]
  /\ UNCHANGED aeng

(***************************************************************************)
(* open(), which tries "hw:..." again as "plughw:...", and close().        *)
(***************************************************************************)
AlsaOpened(b) ==
  adev' = [state |-> "prepared", fill |-> 0, size |-> b.size, n_periods |-> b.n_periods]

AlsaOpen ==
  /\ adev.state = "closed"
  /\ \E b \in AlsaBuffers : AlsaOpened(b)
  /\ UNCHANGED aeng

AlsaClose ==
  /\ adev.state # "closed"
  /\ aeng.pc = "idle"
  /\ adev' = NoDevice
  /\ UNCHANGED aeng

(***************************************************************************)
(* pcm_check_io(), by the engine thread. The device goes on between the    *)
(* first look at it and the second.                                        *)
(***************************************************************************)
\* Drain, prepare and n_periods_ blocks of silence. The writes block, so the
\* device plays what exceeds its buffer.
pcm_retrigger(d) ==
  LET prepared == snd_pcm_prepare(d)
  IN  IF d.state = "gone" THEN d
      ELSE Queued(prepared, Min({d.n_periods * AlsaPeriod, d.size}))

\* Mutant: a device that failed is not retriggered.
AlsaCheckIONoRetrigger ==
  /\ adev.state # "closed"
  /\ aeng.pc = "idle"
  /\ aeng' = IF ~Failing(adev) /\ avail(adev) >= AlsaPeriod
             THEN [pc |-> "write", n_left |-> AlsaPeriod]
             ELSE [aeng EXCEPT !.pc = "hwsync"]
  /\ UNCHANGED adev

AlsaCheckIO ==
  /\ adev.state # "closed"
  /\ aeng.pc = "idle"
  /\ LET retrigger == Failing(adev) \/ (avail(adev) = 0 /\ adev.state # "running")
         enough    == ~Failing(adev) /\ avail(adev) >= AlsaPeriod
     IN  /\ adev' = IF retrigger THEN pcm_retrigger(adev) ELSE adev
         /\ aeng' = IF enough
                    THEN [pc |-> "write", n_left |-> AlsaPeriod]
                    ELSE [aeng EXCEPT !.pc = "hwsync"]

AlsaHwsync ==
  /\ aeng.pc = "hwsync"
  /\ aeng' = IF ~Failing(adev) /\ avail(adev) >= AlsaPeriod
             THEN [pc |-> "write", n_left |-> AlsaPeriod]
             ELSE AlsaIdle
  /\ UNCHANGED adev

(***************************************************************************)
(* pcm_write(): a write may be cut short by a signal and is continued; a   *)
(* write that fails prepares the device and gives up on the block.         *)
(***************************************************************************)
AlsaWrites ==
  /\ aeng.pc = "write"
  /\ ~Failing(adev)
  /\ \E n \in 1..aeng.n_left :
       /\ n <= avail(adev)
       /\ adev' = Queued(adev, n)
       /\ aeng' = IF n = aeng.n_left THEN AlsaIdle ELSE [aeng EXCEPT !.n_left = @ - n]

AlsaWriteFails ==
  /\ aeng.pc = "write"
  /\ Failing(adev)
  /\ adev' = snd_pcm_prepare(adev)
  /\ aeng' = AlsaIdle

AlsaPcmWrite == AlsaWrites \/ AlsaWriteFails

AlsaInit == adev = NoDevice /\ aeng = AlsaIdle

AlsaNext ==
  \/ AlsaPlays \/ AlsaStops \/ AlsaUnplugged
  \/ AlsaOpen \/ AlsaClose
  \/ AlsaCheckIO \/ AlsaHwsync \/ AlsaPcmWrite

AlsaSpec == AlsaInit /\ [][AlsaNext]_avars

-----------------------------------------------------------------------------
\* A device that is prepared but does not run has room for the next block, so
\* that pcm_check_io() never waits for a device that waits for more frames,
\* also after a retrigger, a failed write or a write cut short, and when
\* n_periods_ blocks do not fill the device's buffer.
AlsaNeverStuck ==
  (adev.state = "prepared" /\ aeng.pc # "write") =>
    avail(adev) >= AlsaPeriod

-----------------------------------------------------------------------------
(* The driver set                                                          *)

CONSTANTS
  PcmNames,   \* values of the PCM driver preference: "null", "jack", "alsa", "auto"
  MidiPrefs   \* values of the MIDI driver preferences: sequences of device names, "" for none

\* update_drivers() gives them the length FIXED_N_MIDI_DRIVERS.
ASSUME MidiPrefsAssumption ==
  \A m \in MidiPrefs : m \in Seq(STRING) /\ \A o \in MidiPrefs : Len(o) = Len(m)

VARIABLES
  dset,     \* driver_set_ml: [pcm_name, midi_names, midi_drivers]
  job,      \* the synchronized job and the arguments it carries, or NoJob
  pcm,      \* pcm_driver_ of the engine
  midi,     \* midi_drivers_ of the engine's MIDI processor
  trash_drivers     \* kinds of drivers that an executed job still holds

dvars == <<dset, job, pcm, midi, trash_drivers>>
pcmVars == <<jvars, avars, dvars>>

NullDriver == [kind |-> "null"]

NoJob == [pcm |-> NullDriver, swap |-> FALSE, midi |-> <<>>, state |-> "none"]

(***************************************************************************)
(* PcmDriver::open(): the driver of that name, or for "auto" the first     *)
(* that opens; any of them may fail. An ALSA device that is still open     *)
(* is busy.                                                                *)
(***************************************************************************)
Opened(name) ==
  LET jack == [kind : {"jack"}, period : {jserver.period}]
      alsa == {[kind |-> "alsa", size |-> b.size, n_periods |-> b.n_periods] : b \in AlsaBuffers}
  IN  (IF name \in {"jack", "auto"} /\ jserver.up THEN jack ELSE {})
        \cup (IF name \in {"alsa", "auto"} /\ "alsa" \notin trash_drivers \cup {pcm.kind} THEN alsa ELSE {})

\* Empty preferences and repetitions become "null".
Deduplicated(midis) ==
  [i \in DOMAIN midis |->
     IF midis[i] = "" \/ \E j \in 1..i-1 : midis[j] = midis[i] THEN "null" ELSE midis[i]]

\* MidiDriver::open() for the changed names; one that fails is left out.
MidiOpened(names) ==
  {drivers \in [DOMAIN names -> {"null"} \cup {names[i] : i \in DOMAIN names}] :
     \A i \in DOMAIN names :
       IF names[i] = dset.midi_names[i]
       THEN drivers[i] = dset.midi_drivers[i]
       ELSE drivers[i] \in {names[i], "null"}}

\* The main thread waits until the engine has executed the job.
update_drivers(pcm_name, midis) ==
  LET names == Deduplicated(midis)
  IN  /\ job.state = "none"
      /\ pcm_name # dset.pcm_name \/ names # dset.midi_names
      /\ \E drivers \in MidiOpened(names) :
           \E opened \in IF pcm_name = dset.pcm_name THEN {pcm} ELSE Opened(pcm_name) \cup {NullDriver} :
             /\ dset' = [pcm_name |-> pcm_name, midi_names |-> names, midi_drivers |-> drivers]
             /\ job' = [pcm |-> opened, midi |-> drivers, state |-> "queued",
                        swap |-> pcm_name # dset.pcm_name /\ ~(opened = NullDriver /\ pcm = NullDriver)]
      /\ UNCHANGED <<jvars, avars, pcm, midi, trash_drivers>>

EngineFree == jeng.pc = "idle" /\ aeng.pc = "idle"

update_driver_set ==
  /\ job.state = "queued"
  /\ EngineFree
  /\ midi' = job.midi
  /\ job' = NoJob
  /\ IF job.swap
     THEN /\ pcm' = job.pcm
          /\ trash_drivers' = trash_drivers \cup ({pcm.kind} \ {"null"})
          /\ IF job.pcm.kind = "jack" THEN JackOpened(job.pcm.period)
             ELSE IF pcm.kind = "jack" THEN JackClosed
             ELSE UNCHANGED <<jclient, jin, jout, jcb>>
          /\ IF job.pcm.kind = "alsa" THEN AlsaOpened(job.pcm)
             ELSE adev' = IF pcm.kind = "alsa" THEN NoDevice ELSE adev
     ELSE UNCHANGED <<pcm, trash_drivers, jclient, jin, jout, jcb, adev>>
  /\ UNCHANGED <<dset, jserver, jeng, aeng>>

\* The main loop destroys executed jobs and with them the last reference to a
\* driver.
DestroyJobs ==
  /\ trash_drivers # {}
  /\ trash_drivers' = {}
  /\ UNCHANGED <<jvars, avars, dset, job, pcm, midi>>

(***************************************************************************)
(* pcm_check_write() with the driver in use. The null driver only waits    *)
(* for time to pass.                                                       *)
(***************************************************************************)
pcm_check_write ==
  /\ \/ JackCheckIO /\ UNCHANGED avars
     \/ JackPcmWrite /\ UNCHANGED avars
     \/ AlsaCheckIO /\ UNCHANGED jvars
     \/ AlsaHwsync /\ UNCHANGED jvars
     \/ AlsaPcmWrite /\ UNCHANGED jvars
  /\ UNCHANGED dvars

JackThread == process_callback /\ UNCHANGED <<avars, dvars>>

DeviceFaults ==
  /\ \/ (JackShutdown \/ JackPeriod) /\ UNCHANGED avars
     \/ (AlsaStops \/ AlsaUnplugged) /\ UNCHANGED jvars
  /\ UNCHANGED dvars

Playback == AlsaPlays /\ UNCHANGED <<jvars, dvars>>

PcmInit ==
  /\ JackInit /\ AlsaInit
  /\ LET none == [i \in 1..Len(CHOOSE m \in MidiPrefs : TRUE) |-> "null"]
     IN  /\ dset = [pcm_name |-> "null", midi_names |-> none, midi_drivers |-> none]
         /\ midi = none
  /\ job = NoJob
  /\ pcm = NullDriver
  /\ trash_drivers = {}

PcmNext ==
  \/ \E pcm_name \in PcmNames, midis \in MidiPrefs : update_drivers(pcm_name, midis)
  \/ update_driver_set
  \/ DestroyJobs
  \/ pcm_check_write
  \/ JackThread
  \/ Playback
  \/ DeviceFaults

\* The JACK thread, the device, the engine thread and the main loop run on.
PcmFairness ==
  /\ WF_pcmVars(JackThread) /\ WF_pcmVars(Playback)
  /\ WF_pcmVars(pcm_check_write) /\ WF_pcmVars(update_driver_set)
  /\ WF_pcmVars(DestroyJobs)

PcmSpec == PcmInit /\ [][PcmNext]_pcmVars /\ PcmFairness

-----------------------------------------------------------------------------
\* When update_drivers() has returned the engine uses the drivers it opened,
\* or the null driver in place of one that failed, and no MIDI device is used
\* twice.
EngineUsesSelected ==
  /\ job.state = "none" =>
       /\ midi = dset.midi_drivers
       /\ pcm.kind \in {dset.pcm_name, "null"} \/ dset.pcm_name = "auto"
  /\ \A i, j \in DOMAIN midi : midi[i] = midi[j] => i = j \/ midi[i] = "null"

CanPlay ==
  \/ pcm.kind = "jack" /\ jserver.up /\ jserver.period <= 2 * jclient.period
  \/ pcm.kind = "alsa" /\ adev.state # "gone"

\* A working device is fed for ever: neither the JACK callback and the engine
\* nor an ALSA device and the engine end up waiting for each other, also after
\* dropouts, device errors and changes of drivers, as long as the device does
\* not fail, and the user does not change drivers, over and over.
KeepsPlaying ==
  (<>[](job.state = "none") /\ <>[][~AlsaStops]_adev) =>
    []<>(CanPlay => jeng.pc = "written" \/ aeng.pc = "write")
=============================================================================
