------------------------------ MODULE MCProject ------------------------------
(***************************************************************************)
(* The parts of a project for TLC: editing and playing clips, transport,   *)
(* project files, and the controls that edit values.  They share no state, *)
(* a behaviour is one of the component that the initial state selects.     *)
(*                                                                         *)
(* ClipUndo: two clips, grouped edits, undo and redo; clients send single  *)
(* changes, pairs of inserts, or a change together with an insert.         *)
(* MidiProducer: blocks of 2.5 and 10 ticks, loops of 8 ticks; adjacent    *)
(* notes of one key, a note that outlasts the loop and overlaps itself,    *)
(* and an edited clip.                                                     *)
(* Controls: two overlapping notes at the lower border of a keyboard, and  *)
(* a knob with two positions.                                              *)
(* Transport: two projects that change the tempo of one engine.            *)
(* ProjectFiles: two processes that make two cache directories.            *)
(***************************************************************************)
EXTENDS ClipUndo, MidiProducer, Controls, ProjectFiles, Transport

CONSTANTS k1, k2
MCShort == [key |-> k1, tick |-> 0, duration |-> 3]
MCAdjacent == [key |-> k1, tick |-> 3, duration |-> 4]
MCLong == [key |-> k2, tick |-> 7, duration |-> 12]
MCEdited == [key |-> k2, tick |-> 1, duration |-> 1]
MCFeeds == {{MCShort, MCAdjacent, MCLong}, {MCAdjacent, MCEdited}}

MCStartNotes == {[id |-> 1, tick |-> 0, key |-> 0, dur |-> 2, sel |-> FALSE],
                 [id |-> 2, tick |-> 1, key |-> 1, dur |-> 2, sel |-> TRUE]}
MCSpots == {<<1, 0>>, <<2, 1>>}

VARIABLE component  \* the component the behaviour is of
clipboardVars == <<clipVars, prVars, knobVars>>
engineVars == <<producerVars, transportVars>>
storageVars == <<filesVars, cacheVars>>
projectVars == <<component, clipboardVars, engineVars, storageVars>>

ProjectInit ==
  /\ component \in {"clip", "producer", "pianoroll", "files", "cache", "transport", "knob"}
  /\ ClipInit /\ ProducerInit /\ PrInit /\ FilesInit /\ CacheInit /\ TransportInit /\ KnobInit
  /\ component # "knob" => prop_value = 0 /\ pointer = 0

EditNext ==
  \/ component = "clip" /\ ClipNext /\ UNCHANGED <<prVars, knobVars>>
  \/ component = "pianoroll" /\ PrNext /\ UNCHANGED <<clipVars, knobVars>>
  \/ component = "knob" /\ KnobNext /\ UNCHANGED <<clipVars, prVars>>

PlayNext ==
  \/ component = "producer" /\ ProducerNext /\ UNCHANGED transportVars
  \/ component = "transport" /\ TransportNext /\ UNCHANGED producerVars

StoreNext ==
  \/ component = "files" /\ FilesNext /\ UNCHANGED cacheVars
  \/ component = "cache" /\ CacheNext /\ UNCHANGED filesVars

ProjectNext ==
  \/ EditNext /\ UNCHANGED <<component, engineVars, storageVars>>
  \/ PlayNext /\ UNCHANGED <<component, clipboardVars, storageVars>>
  \/ StoreNext /\ UNCHANGED <<component, clipboardVars, engineVars>>

ProjectSpec == ProjectInit /\ [][ProjectNext]_projectVars

-----------------------------------------------------------------------------
(* No note hangs, drifts or is played by wrong blocks, whatever is paused,  *)
(* rewound or edited.  The position that is shown is the one that plays,    *)
(* with the tempo that was set last.                                        *)
PlaybackSound ==
  /\ component = "producer" =>
       NoHangingNotes /\ NotesEndInTime /\ PlaysInTime /\ NotesByPosition /\ FramesInBlock
  /\ component = "transport" => PositionCurrent /\ TempoArrives

(* Edits queued by the piano roll see what they committed before, keep the  *)
(* notes on the keyboard and lose none of those that are moved.  A knob     *)
(* comes to rest at the value of its property.                              *)
ControlsSound ==
  /\ component = "pianoroll" => SeesOwnCommits /\ NotesInRange /\ MoveKeepsNotes
  /\ component = "knob" => KnobTypeOK /\ OwnValueShown

(* A crash or an error while a project is saved never costs the version     *)
(* saved before, and the samples of saved documents are there.  Several     *)
(* processes remove the stale cache directories of each other, and none     *)
(* that is used.                                                            *)
FilesSound ==
  /\ component = "files" => FilesTypeOK /\ SavedSurvives /\ SamplesPresent
  /\ component = "cache" => DirKept /\ StaleRemoved /\ ExitClean
=============================================================================
