------------------------------ MODULE MCRuntime ------------------------------
(***************************************************************************)
(* The runtime library and the devices that run on it, for TLC.  They      *)
(* share no state, a behaviour is one of the component that the initial    *)
(* state selects.                                                          *)
(*                                                                         *)
(* Loft and FastMemory: two threads, blocks that span two areas.           *)
(* Callbacks: three handlers, emissions and scopes nested two deep.         *)
(* LoopSources: a timer, a oneshot timer of exec_once(), a signal and a    *)
(* file descriptor; the clock is set back once.                            *)
(* DeviceChain: a synthesizer, a stereo and a mono effect.                 *)
(* AlsaMidi: two devices and two events, one of them late.                 *)
(* BlepSynth: two voices, two keys on one channel and one on another.      *)
(* BlepOsc: phases of 16 steps, without and with sync and sub oscillator.  *)
(***************************************************************************)
EXTENDS Memory, Callbacks, LoopSources, DeviceChain, AlsaMidi, BlepSynth

CONSTANTS dev1, dev2, dev3
MCKind == [d \in Devices |-> IF d = dev1 THEN "synth" ELSE IF d = dev2 THEN "effect" ELSE "mono"]
MCCaps == [keyboard |-> {"read", "write"}, pads |-> {"write"}]
MCDelays == {-1, 2}
MCNotes == {<<0, 60>>, <<0, 61>>, <<1, 60>>}
MCKey == <<0, 60>>
MCPlain == [shape |-> 0, sub2 |-> 0, width4 |-> 2, subwidth4 |-> 2, sync2 |-> 2]
MCSettings == {MCPlain,
               [shape |-> 1, sub2 |-> 1, width4 |-> 1, subwidth4 |-> 3, sync2 |-> 3],
               [shape |-> -1, sub2 |-> 1, width4 |-> 3, subwidth4 |-> 2, sync2 |-> 4]}

VARIABLE component  \* the component the behaviour is of
libraryVars == <<loftVars, memVars, cbVars, sourceVars>>
deviceVars == <<chainVars, midiVars, synthVars, oscVars>>
runtimeVars == <<component, libraryVars, deviceVars>>

RuntimeInit ==
  /\ component \in {"loft", "memory", "callbacks", "sources", "chain", "midi", "synth", "osc"}
  /\ LoftInit /\ MemInit /\ CbInit /\ SourcesInit
  /\ ChainInit /\ MidiInit /\ SynthInit /\ OscInit
  /\ component # "osc" => par = MCPlain /\ inc = 6 /\ osc.master = 0

LibraryNext ==
  \/ component = "loft" /\ LoftNext /\ UNCHANGED <<memVars, cbVars, sourceVars>>
  \/ component = "memory" /\ MemNext /\ UNCHANGED <<loftVars, cbVars, sourceVars>>
  \/ component = "callbacks" /\ CbNext /\ UNCHANGED <<loftVars, memVars, sourceVars>>
  \/ component = "sources" /\ SourcesNext /\ UNCHANGED <<loftVars, memVars, cbVars>>

DeviceNext ==
  \/ component = "chain" /\ ChainNext /\ UNCHANGED <<midiVars, synthVars, oscVars>>
  \/ component = "midi" /\ MidiNext /\ UNCHANGED <<chainVars, synthVars, oscVars>>
  \/ component = "synth" /\ SynthNext /\ UNCHANGED <<chainVars, midiVars, oscVars>>
  \/ component = "osc" /\ OscNext /\ UNCHANGED <<chainVars, midiVars, synthVars>>

RuntimeNext ==
  \/ LibraryNext /\ UNCHANGED <<component, deviceVars>>
  \/ DeviceNext /\ UNCHANGED <<component, libraryVars>>

RuntimeSpec == RuntimeInit /\ [][RuntimeNext]_runtimeVars

-----------------------------------------------------------------------------
(* Allocators: however the calls of threads interleave, no two blocks       *)
(* overlap and none gets lost, and what is freed becomes one extent again.  *)
MemorySound ==
  /\ component = "loft" => BlocksDisjoint
  /\ component = "memory" => ArenaPartitioned /\ FreeListCoalesced

(* Handlers, callbacks and notifications are called once each, whatever the *)
(* handlers do to the lists they are on.  Timers are punctual, also when    *)
(* the clock is set back, exec_once() keeps one call pending, signals are   *)
(* not lost and files are closed once.                                      *)
CallsSound ==
  /\ component = "callbacks" => EventsDeliveredOnce /\ CallbacksCalledOnce /\ NotifiesFlushed
  /\ component = "sources" => TimersPunctual /\ OncePending /\ SignalsKept /\ FdClosedOnce

(* The chain the engine renders is, after any edits, the one the main       *)
(* thread built, and the schedule refers to live processors only.  Nothing  *)
(* of a MIDI sequencer outlives its driver, and its events reach the engine *)
(* in the order in which they were sent.                                    *)
ChainSound ==
  /\ component = "chain" => ChainInOrder /\ ChainConnected /\ NoDangling /\ ScheduleCurrent
  /\ component = "midi" => MidiReleased /\ MidiInOrder

(* The voices of a synthesizer are never lost, played twice or left         *)
(* hanging, and its wave forms have neither gaps nor drift.                 *)
VoicesSound ==
  /\ component = "synth" => VoicesPartitioned /\ NotesHeld
  /\ component = "osc" => StepsInOrder /\ LevelFollowsPhase /\ OutputFollowsLevel
=============================================================================
