---------------------------- MODULE ClapContract ----------------------------
(***************************************************************************)
(* What a CLAP plugin may rely on, as far as the host in                   *)
(* src/ase/clapplugin.cc calls it: the order of its life cycle calls, when *)
(* the audio thread may call process(), that the main thread only calls a  *)
(* plugin that is alive, and that the library is not unloaded under it.    *)
(***************************************************************************)
VARIABLES
  lib,         \* the plugin's library is loaded
  life,        \* "none", "initialized", "active", "destroyed"
  main,        \* a callback of the main loop is inside the plugin
  processing,  \* between start_processing() and stop_processing()
  audio,       \* the audio thread is inside process()
  gui          \* the plugin's editor exists

contract == <<lib, life, main, processing, audio, gui>>

Alive == life \in {"initialized", "active"}

Start ==
  /\ ~lib /\ life = "none"
  /\ ~main /\ ~processing /\ ~audio /\ ~gui

Load == ~lib /\ life = "none" /\ lib' = TRUE /\ UNCHANGED <<life, main, processing, audio, gui>>

\* create_plugin() and init(); a plugin whose init() fails is destroyed.
Create ==
  /\ lib /\ life = "none"
  /\ life' \in {"initialized", "destroyed"}
  /\ UNCHANGED <<lib, main, processing, audio, gui>>

Activate ==
  /\ life = "initialized" /\ ~main
  /\ life' = "active"
  /\ UNCHANGED <<lib, main, processing, audio, gui>>

StartProcessing ==
  /\ life = "active" /\ ~processing /\ ~audio
  /\ processing' = TRUE
  /\ UNCHANGED <<lib, life, main, audio, gui>>

Process ==
  /\ life = "active" /\ processing
  /\ audio' = ~audio
  /\ UNCHANGED <<lib, life, main, processing, gui>>

StopProcessing ==
  /\ life = "active" /\ processing /\ ~audio
  /\ processing' = FALSE
  /\ UNCHANGED <<lib, life, main, audio, gui>>

Deactivate ==
  /\ life = "active" /\ ~processing /\ ~audio /\ ~main
  /\ life' = "initialized"
  /\ UNCHANGED <<lib, main, processing, audio, gui>>

\* on_main_thread(), on_timer() and on_fd().
MainThreadCall ==
  /\ Alive
  /\ main' = ~main
  /\ UNCHANGED <<lib, life, processing, audio, gui>>

CreateOrDestroyGui ==
  /\ Alive
  /\ gui' = ~gui
  /\ UNCHANGED <<lib, life, main, processing, audio>>

Destroy ==
  /\ life = "initialized" /\ ~gui /\ ~audio /\ ~main
  /\ life' = "destroyed"
  /\ UNCHANGED <<lib, main, processing, audio, gui>>

Unload ==
  /\ lib /\ ~Alive
  /\ lib' = FALSE
  /\ UNCHANGED <<life, main, processing, audio, gui>>

Step ==
  \/ Load \/ Create \/ Activate \/ StartProcessing
  \/ Process \/ StopProcessing \/ Deactivate
  \/ MainThreadCall \/ CreateOrDestroyGui \/ Destroy \/ Unload

Contract == Start /\ [][Step]_contract
=============================================================================
