---------------------------- MODULE Preferences -----------------------------
(***************************************************************************)
(* The user preferences (src/ase/properties.cc): values that are set from  *)
(* the user interface, listeners that are notified by a main loop job, the *)
(* timers that save anklangrc.json and apply driver preferences, and the   *)
(* program being quit, killed and started again.                           *)
(*                                                                         *)
(* Everything but the end of the program happens in main loop callbacks.   *)
(* A preference is an element of Idents; the order of the sorted change    *)
(* list makes no difference, so the list is a set.                         *)
(***************************************************************************)
EXTENDS Integers, FiniteSets

CONSTANTS
  Idents,          \* registered preferences
  DriverIdent,     \* the one with apply_driver_preferences() as callback
  PrefValues,      \* values a client may send
  Lowest, Highest, \* Parameter::constrain() clamps to Lowest..Highest
  MaxPrefSets,     \* bound: set_value() calls of clients and listeners
  MaxStarts        \* bound: program starts

ASSUME PreferencesAssumption ==
  /\ DriverIdent \in Idents /\ PrefValues \subseteq Int
  /\ Lowest \in Int /\ Highest \in Int /\ Lowest <= Highest
  /\ MaxPrefSets \in Nat /\ MaxStarts \in Nat

VARIABLES
  pref_value,      \* PrefsValue.value of each preference
  notify_queue,    \* notify_preference_queue
  notify_jobs,     \* exec_now (notify_preference_listeners) sources
  notified,        \* value the listeners of a preference were last called with
  save_timer,      \* timerid_maybe_save_preferences # 0
  driver_timer,    \* engine_driver_set_timerid # 0
  engine_driver,   \* value update_drivers() was last called with
  anklangrc,       \* anklangrc.json: its values, <<>> for a missing or truncated file
  prefs_phase,     \* "ended", "running" or "writing" (stringwrite() in save_preferences)
  pref_sets, starts
prefVars == <<pref_value, notify_queue, notify_jobs, notified, save_timer, driver_timer, engine_driver, anklangrc,
              prefs_phase, pref_sets, starts>>

constrain(v) == IF v < Lowest THEN Lowest ELSE IF v > Highest THEN Highest ELSE v
initial == [i \in Idents |-> Lowest]
PrefInit ==
  /\ pref_value = initial /\ notified = initial /\ engine_driver = Lowest
  /\ notify_queue = {} /\ notify_jobs = 0 /\ save_timer = FALSE /\ driver_timer = FALSE
  /\ anklangrc = <<>> /\ prefs_phase = "ended" /\ pref_sets = 0 /\ starts = 0

(* load_preferences(): a file that is missing or not JSON has no fields;    *)
(* every value is set like a client sets it, which queues notifications.    *)
Load ==
  /\ prefs_phase = "ended" /\ starts < MaxStarts
  /\ prefs_phase' = "running" /\ starts' = starts + 1
  /\ pref_value' = [i \in Idents |-> IF anklangrc = <<>> THEN Lowest ELSE constrain(anklangrc[i])]
  /\ notify_queue' = IF anklangrc = <<>> THEN {} ELSE Idents
  /\ notify_jobs' = IF anklangrc = <<>> THEN 0 ELSE 1
  /\ notified' = initial /\ engine_driver' = Lowest
  /\ save_timer' = FALSE /\ driver_timer' = FALSE
  /\ UNCHANGED <<anklangrc, pref_sets>>

\* Preference::set_value and queue_notify_preference_listeners
Enqueued(queue) == IF queue = {} THEN 1 ELSE 0
SetPreference(i, v) ==
  /\ prefs_phase = "running" /\ pref_sets < MaxPrefSets
  /\ pref_sets' = pref_sets + 1
  /\ pref_value' = [pref_value EXCEPT ![i] = constrain(v)]
  /\ notify_jobs' = notify_jobs + Enqueued(notify_queue)
  /\ notify_queue' = notify_queue \cup {i}
  /\ UNCHANGED <<notified, save_timer, driver_timer, engine_driver, anklangrc, prefs_phase, starts>>

(* notify_preference_listeners(): takes the queue over, calls the listeners *)
(* of every changed preference, then the list listeners, one of which may   *)
(* set a preference (Set, empty or one <<ident, value>>).                   *)
LeftQueuedNone(set) == {}                                  \* mutant: cleared after the callbacks
LeftQueued(set) == {s[1] : s \in set}
Notify(set) ==
  LET changed == notify_queue
  IN /\ prefs_phase = "running" /\ notify_jobs > 0
     /\ IF changed = {}
        THEN /\ set = {} /\ notify_jobs' = notify_jobs - 1
             /\ UNCHANGED <<pref_value, notify_queue, notified, save_timer, driver_timer, pref_sets>>
        ELSE /\ pref_sets + Cardinality(set) <= MaxPrefSets
             /\ pref_sets' = pref_sets + Cardinality(set)
             /\ notified' = [i \in Idents |-> IF i \in changed THEN pref_value[i] ELSE notified[i]]
             /\ pref_value' = [i \in Idents |-> IF \E s \in set : s[1] = i
                                                THEN constrain((CHOOSE s \in set : s[1] = i)[2]) ELSE pref_value[i]]
             /\ notify_queue' = LeftQueued(set)
             /\ notify_jobs' = notify_jobs - 1 + Cardinality(set)
             /\ save_timer' = TRUE                       \* exec_once (577, ...)
             /\ driver_timer' = (driver_timer \/ DriverIdent \in changed)
     /\ UNCHANGED <<engine_driver, anklangrc, prefs_phase, starts>>

\* apply_driver_preferences: the timer callback reads the values when it fires
ApplyDrivers ==
  /\ prefs_phase = "running" /\ driver_timer
  /\ driver_timer' = FALSE /\ engine_driver' = pref_value[DriverIdent]
  /\ UNCHANGED <<pref_value, notify_queue, notify_jobs, notified, save_timer, anklangrc, prefs_phase, pref_sets, starts>>

\* maybe_save_preferences, and save_preferences up to the truncation of the file
MaybeSave ==
  /\ prefs_phase = "running" /\ save_timer
  /\ save_timer' = FALSE
  /\ IF notify_queue = {} /\ anklangrc # pref_value
     THEN prefs_phase' = "writing" /\ anklangrc' = <<>>
     ELSE UNCHANGED <<prefs_phase, anklangrc>>
  /\ UNCHANGED <<pref_value, notify_queue, notify_jobs, notified, driver_timer, engine_driver, pref_sets, starts>>
Written ==
  /\ prefs_phase = "writing" /\ prefs_phase' = "running" /\ anklangrc' = pref_value
  /\ UNCHANGED <<pref_value, notify_queue, notify_jobs, notified, save_timer, driver_timer, engine_driver, pref_sets, starts>>

\* main_loop->quit() or a crash: nothing is saved on the way out
EndProgram ==
  /\ prefs_phase \in {"running", "writing"} /\ starts < MaxStarts
  /\ prefs_phase' = "ended"
  /\ UNCHANGED <<pref_value, notify_queue, notify_jobs, notified, save_timer, driver_timer, engine_driver, anklangrc,
                 pref_sets, starts>>

PrefNext ==
  \/ Load \/ EndProgram
  \/ \E i \in Idents, v \in PrefValues : SetPreference(i, v)
  \/ Notify({}) \/ \E i \in Idents, v \in PrefValues : Notify({<<i, v>>})
  \/ ApplyDrivers \/ MaybeSave \/ Written
PrefSpec ==
  /\ PrefInit /\ [][PrefNext]_prefVars
  /\ WF_prefVars(Notify({})) /\ WF_prefVars(ApplyDrivers) /\ WF_prefVars(MaybeSave) /\ WF_prefVars(Written)

(* Unless the program ends first, every preference change, also one made by *)
(* a listener, while a save or driver timer is pending or loaded from the   *)
(* file, reaches its listeners, the engine and anklangrc.json.              *)
PrefsSettled ==
  /\ notified = pref_value /\ engine_driver = pref_value[DriverIdent]
  /\ anklangrc = pref_value \/ (anklangrc = <<>> /\ pref_value = initial)
PrefsSettle == prefs_phase = "running" ~> prefs_phase = "ended" \/ PrefsSettled
=============================================================================
