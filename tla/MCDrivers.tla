------------------------------ MODULE MCDrivers ------------------------------
(***************************************************************************)
(* Audio drivers and processors for TLC.  They share no state, a behaviour *)
(* is one of the component that the initial state selects.                 *)
(*                                                                         *)
(* PcmDrivers: blocks of 2 frames; JACK periods of 1 or 3 frames, so that  *)
(* a change of the period may exceed what open() left room for; an ALSA    *)
(* buffer that n_periods_ blocks fill and one that is larger and no        *)
(* multiple of a block; two MIDI slots that name the same driver.          *)
(* ENotify: the engine and another thread notify about one processor; an   *)
(* atomic of params_.bits holds 2 bits instead of 64, so that three        *)
(* parameters span two of them.                                            *)
(* ProcessorParams: two parameters, one value that is out of range.        *)
(***************************************************************************)
EXTENDS PcmDrivers, ENotify, ProcessorParams, LiquidSfz

MCAlsaBuffers == {[size |-> 4, n_periods |-> 2], [size |-> 7, n_periods |-> 2]}
MCMidiPrefs == {<<"a", "a">>}

VARIABLE component  \* the component the behaviour is of
driverVars == <<component, pcmVars, notifyVars, paramVars, sfzVars>>

DriversInit ==
  /\ component \in {"pcm", "notify", "params", "sfz"}
  /\ PcmInit /\ NotifyInit /\ ParamInit /\ SfzInit
  /\ component # "pcm" => jserver.period = 1

DriversNext ==
  \/ component = "pcm" /\ PcmNext /\ UNCHANGED <<component, notifyVars, paramVars, sfzVars>>
  \/ component = "notify" /\ NotifyNext /\ UNCHANGED <<component, pcmVars, paramVars, sfzVars>>
  \/ component = "params" /\ ParamNext /\ UNCHANGED <<component, pcmVars, notifyVars, sfzVars>>
  \/ component = "sfz" /\ SfzNext /\ UNCHANGED <<component, pcmVars, notifyVars, paramVars>>

\* The fairness of PcmSpec, NotifySpec, ParamSpec and SfzSpec, for behaviours
\* of the component.
DriversFairness ==
  /\ WF_pcmVars(component = "pcm" /\ JackThread)
  /\ WF_pcmVars(component = "pcm" /\ Playback)
  /\ WF_pcmVars(component = "pcm" /\ pcm_check_write)
  /\ WF_pcmVars(component = "pcm" /\ update_driver_set)
  /\ WF_pcmVars(component = "pcm" /\ DestroyJobs)
  /\ WF_notifyVars(component = "notify" /\ DispatchStep)
  /\ \A t \in Notifiers : WF_notifyVars(component = "notify" /\ CallerStep(t))
  /\ WF_paramVars(component = "params" /\ ParamMain)
  /\ WF_paramVars(component = "params" /\ ParamEngine)
  /\ WF_sfzVars(component = "sfz" /\ SfzAudio)
  /\ WF_sfzVars(component = "sfz" /\ SfzLoader)

DriversSpec == DriversInit /\ [][DriversNext]_driverVars /\ DriversFairness

-----------------------------------------------------------------------------
(* Between the engine and a JACK or ALSA device no frame is lost, doubled   *)
(* or reordered, what was checked before a callback still holds in it, and  *)
(* neither side waits for the other for ever.                               *)
PcmSound ==
  component = "pcm" =>
    /\ FramesInOrder /\ ChecksStayValid /\ LatencyConstant
    /\ NeverStuck /\ AlsaNeverStuck /\ EngineUsesSelected

(* No value of a parameter is lost between the threads that set, apply and  *)
(* report it, and the synthesizer is used by one thread at a time.          *)
ParamsSound ==
  /\ component = "notify" => StaleParamsReported
  /\ component = "params" => SetsArrive
  /\ component = "sfz" => SynthExclusive

(* Playback goes on whatever fails, every changed value is reported and     *)
(* ends up at the listeners, and a loader's thread ends with its device.    *)
DriversProgress == KeepsPlaying /\ AllParamsReported /\ ShownSettles /\ LoaderEnds
=============================================================================
