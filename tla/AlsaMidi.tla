------------------------------ MODULE AlsaMidi ------------------------------
(***************************************************************************)
(* AlsaSeqMidiDriver: the main thread opens one driver per selected MIDI   *)
(* device, call by call of the ALSA sequencer and each of them may fail;   *)
(* the engine's MIDI input fetches the events of all drivers into the      *)
(* event stream of a block; main destroys the drivers it no longer needs.  *)
(*                                                                         *)
(* ALSA is external: a port that can be read, a FIFO of events per         *)
(* subscription, time stamps that a device may give out of order.  An      *)
(* event is its number, the delay since its time stamp and its type.       *)
(***************************************************************************)
EXTENDS Integers, Sequences, FiniteSets, SequencesExt

CONSTANTS Caps,       \* capabilities of the port of each device, by device
          Delays,     \* how many frames an event may be late, negative if early
          MaxSent     \* bound: events of a device
ASSUME CapsAssumption == \A d \in DOMAIN Caps : Caps[d] \subseteq {"read", "write"}

VARIABLES
  plugged,  \* devices ALSA lists
  stage,    \* how far open() of the driver of a device got
  acquired, \* seq_, queue_, iport_, subs_, evparser_ a driver holds
  opened,   \* Flags::OPENED
  fifo,     \* sequencer events of the subscription
  estream,  \* MIDI events of the block
  emitted,  \* history: events sent by each device
  received  \* history: numbers of the events that reached the engine
midiVars == <<plugged, stage, acquired, opened, fifo, estream, emitted, received>>

MidiDevices == DOMAIN Caps
Resources == {"seq", "queue", "iport", "subs", "evparser"}

\* The calls of initialize() and open() that may fail, in order
Stages == <<"seq_open", "client_name", "queue_tempo", "drain", "enumerate", "create_port",
            "subscribe", "copy", "event_new">>
StageOf(d) == Stages[stage[d]]

\* What the driver holds once a call succeeded
Acquires(call) ==
  CASE call = "seq_open" -> {"seq"}
    [] call = "client_name" -> {"queue"}   \* allocated next, its failure shows in queue_tempo
    [] call = "create_port" -> {"iport"}
    [] call = "copy" -> {"subs"}
    [] call = "event_new" -> {"evparser"}
    [] OTHER -> {}

cleanup(held) == held \ Resources

\* enumerate(): the caps that open (READONLY) requires of the device's port;
\* to receive its events the subscription needs "read"
need_caps == {"write"}
enumerate(d) == d \in plugged /\ need_caps \subseteq Caps[d]

-----------------------------------------------------------------------------
(* Main thread                                                             *)

create(d) ==
  /\ stage[d] = 0
  /\ stage' = [stage EXCEPT ![d] = 1]
  /\ UNCHANGED <<plugged, acquired, opened, fifo, estream, emitted, received>>

Succeeds(d) ==
  CASE StageOf(d) = "enumerate" -> enumerate(d)
    [] StageOf(d) = "subscribe" -> d \in plugged /\ "read" \in Caps[d]
    [] OTHER -> TRUE

open(d) ==
  /\ stage[d] \in 1..Len(Stages)
  /\ Succeeds(d)
  /\ stage' = [stage EXCEPT ![d] = @ + 1]
  /\ acquired' = [acquired EXCEPT ![d] = @ \cup Acquires(StageOf(d))]
  /\ opened' = [opened EXCEPT ![d] = stage[d] = Len(Stages)]
  /\ UNCHANGED <<plugged, fifo, estream, emitted, received>>

\* initialize() and a device that is not found return right away, later
\* failures clean up; RegisteredDriver::open() then drops the driver.
open_failed(d) ==
  /\ stage[d] \in 1..Len(Stages)
  /\ StageOf(d) = "enumerate" => ~enumerate(d)
  /\ LET held == IF stage[d] <= 5 THEN acquired[d] ELSE cleanup(acquired[d])
     IN acquired' = [acquired EXCEPT ![d] = cleanup(held)]
  /\ stage' = [stage EXCEPT ![d] = 0]
  /\ fifo' = [fifo EXCEPT ![d] = <<>>]
  /\ UNCHANGED <<plugged, opened, estream, emitted, received>>

\* The destructor, once neither the driver set nor the engine refer to it
destroy_driver(d) ==
  /\ opened[d]
  /\ acquired' = [acquired EXCEPT ![d] = cleanup(@)]
  /\ opened' = [opened EXCEPT ![d] = FALSE]
  /\ stage' = [stage EXCEPT ![d] = 0]
  /\ fifo' = [fifo EXCEPT ![d] = <<>>]
  /\ UNCHANGED <<plugged, estream, emitted, received>>

-----------------------------------------------------------------------------
(* Engine thread                                                           *)

last_frame(stream) == IF stream = <<>> THEN 0 ELSE stream[Len(stream)].frame

\* append_unsorted() ignores negative frames
Appended(stream, event, frame) ==
  Append(stream, [event EXCEPT !.frame = IF frame < 0 THEN 0 ELSE frame])

\* Only delays count, and a NOTE_OFF is not earlier than what was added last
add(stream, event) ==
  LET wanted == -event.delay
      frames == IF event.type = "off" /\ last_frame(stream) > wanted THEN last_frame(stream) ELSE wanted
  IN Appended(stream, event, IF frames > 0 THEN 0 ELSE frames)

ensure_order(stream) ==
  IF \E i \in 2..Len(stream) : stream[i].frame < stream[i-1].frame
  THEN SortSeq(stream, LAMBDA a, b : a.frame < b.frame) ELSE stream

fetch_events(stream, d) == ensure_order(FoldLeft(add, stream, fifo[d]))

\* EngineMidiInput::render: all drivers, in the order of the preferences
render_midi ==
  /\ \E d \in MidiDevices : opened[d] /\ fifo[d] # <<>>
  /\ LET drivers == SetToSeq({d \in MidiDevices : opened[d]})
     IN /\ estream' = FoldLeft(fetch_events, <<>>, drivers)
        /\ received' = [d \in MidiDevices |->
             received[d] \o [i \in 1..Len(SelectSeq(estream', LAMBDA e : e.device = d)) |->
                               SelectSeq(estream', LAMBDA e : e.device = d)[i].number]]
  /\ fifo' = [d \in MidiDevices |-> IF opened[d] THEN <<>> ELSE fifo[d]]
  /\ UNCHANGED <<plugged, stage, acquired, opened, emitted>>

-----------------------------------------------------------------------------
(* ALSA                                                                    *)

\* Events queue up as soon as the port is subscribed
Sends(d) ==
  /\ d \in plugged /\ stage[d] > 7 /\ emitted[d] < MaxSent
  /\ emitted' = [emitted EXCEPT ![d] = @ + 1]
  /\ \E delay \in Delays : \E type \in {"on", "off"} :
       fifo' = [fifo EXCEPT ![d] = Append(@, [device |-> d, number |-> emitted[d] + 1, delay |-> delay,
                                               type |-> type, frame |-> 0])]
  /\ UNCHANGED <<plugged, stage, acquired, opened, estream, received>>

Plugs(d) ==
  /\ plugged' = IF d \in plugged THEN plugged \ {d} ELSE plugged \cup {d}
  /\ UNCHANGED <<stage, acquired, opened, fifo, estream, emitted, received>>

MidiInit ==
  /\ plugged = MidiDevices
  /\ stage = [d \in MidiDevices |-> 0]
  /\ acquired = [d \in MidiDevices |-> {}]
  /\ opened = [d \in MidiDevices |-> FALSE]
  /\ fifo = [d \in MidiDevices |-> <<>>]
  /\ estream = <<>>
  /\ emitted = [d \in MidiDevices |-> 0]
  /\ received = [d \in MidiDevices |-> <<>>]

MidiNext ==
  \/ \E d \in MidiDevices : create(d) \/ open(d) \/ open_failed(d) \/ destroy_driver(d) \/ Sends(d) \/ Plugs(d)
  \/ render_midi

MidiSpec == MidiInit /\ [][MidiNext]_midiVars

-----------------------------------------------------------------------------
(* Nothing of the sequencer outlives its driver, whichever call of open()  *)
(* failed, and a driver that counts as opened holds everything fetch_      *)
(* events() uses.                                                          *)
MidiReleased ==
  \A d \in MidiDevices : /\ stage[d] = 0 => acquired[d] = {}
                         /\ opened[d] => acquired[d] = Resources

(* However late or out of order the time stamps are, the events of a       *)
(* device reach the engine in the order in which they were sent, so that   *)
(* no note ends before it starts, and the stream of a block is sorted.     *)
MidiInOrder ==
  /\ \A d \in MidiDevices : \A i, j \in DOMAIN received[d] : i < j => received[d][i] < received[d][j]
  /\ \A i \in 2..Len(estream) : estream[i-1].frame <= estream[i].frame
=============================================================================
