------------------------------ MODULE LiquidSfz ------------------------------
(* The LiquidSFZ device (devices/liquidsfz/liquidsfz.cc): the audio thread     *)
(* renders blocks with a synth that a loader thread fills with instruments.    *)
(* An instrument is a number, 0 the empty name.                                *)
EXTENDS Integers, Sequences

CONSTANTS Instruments,   \* file names a user selects
          MaxSelects,    \* bound: how often
          MaxPosts       \* bound: the semaphore's value

VARIABLES t0,            \* PARAM_VALUE events for the next block
          param,         \* params_ value of INSTRUMENT
          wanted,          \* want_sfz_
          had,          \* have_sfz_ and the sample rate that goes with it
          state,         \* state_
          sfz_sem,           \* sem_
          quit,          \* quit_
          sfz_audio,         \* step of the audio thread in render()
          loader,        \* step of the loader thread in run()
          selected,      \* the instrument selected last
          selects        \* how often one was selected

sfzVars == <<t0, param, wanted, had, state, sfz_sem, quit, sfz_audio, loader, selected, selects>>

SfzInit ==
  /\ t0 = <<0>> /\ param = 0 /\ wanted = 0 /\ had = 0 /\ state = "IDLE" /\ sfz_sem = 0
  /\ quit = FALSE /\ sfz_audio = "out" /\ loader = "wait" /\ selected = 0 /\ selects = 0

\* The user selects an instrument: send_param().
Select(i) ==
  /\ ~quit /\ selects < MaxSelects
  /\ selects' = selects + 1
  /\ t0' = <<i>> /\ selected' = i
  /\ UNCHANGED <<param, wanted, had, state, sfz_sem, quit, sfz_audio, loader>>

-----------------------------------------------------------------------------
(* The audio thread                                                           *)

\* idle(), first half: the synth is free and has what is wanted, or it is not.
SfzIdle == state = "IDLE" /\ wanted = had
sfz_render ==
  /\ ~quit /\ sfz_audio = "out"
  /\ sfz_audio' = IF SfzIdle THEN "process" ELSE "request"
  /\ UNCHANGED <<t0, param, wanted, had, state, sfz_sem, quit, loader, selected, selects>>
\* idle(), second half: the loader is told, this block is silent, its events
\* are not looked at.
request ==
  /\ sfz_audio = "request" /\ sfz_sem < MaxPosts
  /\ state' = "LOAD" /\ sfz_sem' = sfz_sem + 1
  /\ sfz_audio' = "out" /\ t0' = <<>>
  /\ UNCHANGED <<param, wanted, had, quit, loader, selected, selects>>
\* Events are applied, adjust_param() wants the instrument, the synth processes.
\* A reset() in between assigns the name once more, with the same contents.
sfz_process ==
  /\ sfz_audio = "process"
  /\ param' = IF t0 = <<>> THEN param ELSE t0[1]
  /\ wanted' = param'
  /\ t0' = <<>> /\ sfz_audio' = "out"
  /\ UNCHANGED <<had, state, sfz_sem, quit, loader, selected, selects>>

-----------------------------------------------------------------------------
(* The loader thread: run()                                                   *)

woken ==
  /\ loader = "wait" /\ sfz_sem > 0
  /\ sfz_sem' = sfz_sem - 1
  /\ loader' = IF state = "LOAD" THEN "load" ELSE "next"
  /\ UNCHANGED <<t0, param, wanted, had, state, quit, sfz_audio, selected, selects>>
load ==
  /\ loader = "load"
  /\ had' = wanted /\ loader' = "loaded"
  /\ UNCHANGED <<t0, param, wanted, state, sfz_sem, quit, sfz_audio, selected, selects>>
loaded ==
  /\ loader = "loaded"
  /\ state' = "IDLE" /\ loader' = "next"
  /\ UNCHANGED <<t0, param, wanted, had, sfz_sem, quit, sfz_audio, selected, selects>>
next ==
  /\ loader = "next"
  /\ loader' = IF quit THEN "done" ELSE "wait"
  /\ UNCHANGED <<t0, param, wanted, had, state, sfz_sem, quit, sfz_audio, selected, selects>>

\* The destructor runs when the engine has released the processor.
Destroy ==
  /\ ~quit /\ sfz_audio = "out"
  /\ quit' = TRUE /\ sfz_sem' = sfz_sem + 1
  /\ UNCHANGED <<t0, param, wanted, had, state, sfz_audio, loader, selected, selects>>

SfzAudio == sfz_render \/ request \/ sfz_process
SfzLoader == woken \/ load \/ loaded \/ next
SfzNext ==
  \/ sfz_render \/ request \/ sfz_process
  \/ woken \/ load \/ loaded \/ next
  \/ Destroy \/ \E i \in Instruments : Select(i)
SfzSpec == SfzInit /\ [][SfzNext]_sfzVars /\ WF_sfzVars(SfzAudio) /\ WF_sfzVars(SfzLoader)

-----------------------------------------------------------------------------
(* Properties                                                                 *)

\* The synth is used by one thread at a time, and the names of the instrument are
\* not assigned while the loader reads them, although neither takes a lock.
SynthExclusive == sfz_audio = "process" => loader \notin {"load", "loaded"}

\* The destructor's join() returns, whatever the loader does when it is called.
LoaderEnds == quit ~> loader = "done"
=============================================================================
