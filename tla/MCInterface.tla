----------------------------- MODULE MCInterface -----------------------------
(***************************************************************************)
(* The user interface and its server side for TLC.  They share no state, a *)
(* behaviour is one of the component that the initial state selects.       *)
(*                                                                         *)
(* JsonIpc: two objects, a trigger, two calls (an object is fetched again  *)
(* while it is collected) and two changes (two notifications cross).       *)
(* Preferences: a driver and one other preference, one value out of range; *)
(* the program ends at any moment and is started again once.               *)
(* Web sockets: two trusted connections and one that is rejected.          *)
(* Telemetry: three widgets whose fields overlap or are adjacent.          *)
(* Dialogs: three dialogs over a page, their elements in rows and columns. *)
(* ContextMenu: two items, three popups.                                   *)
(***************************************************************************)
EXTENDS JsonIpc, Preferences, Telemetry, Dialogs

Field(offset, length, width) == [offset |-> offset, length |-> length, width |-> width]
MCFieldsOf == [a |-> {Field(4, 8, 4), Field(40, 8, 8)},
               b |-> {Field(44, 4, 4), Field(7, 1, 1)},
               c |-> {Field(20, 8, 4)}]
MCOrder == <<<<"page", 1>>, <<"page", 2>>, <<"d1", 1>>, <<"d1", 2>>, <<"d2", 1>>,
             <<"d3", 1>>, <<"d3", 2>>>>
MCPlace == [e \in ToSet(MCOrder) |->
              <<IF e[1] = "page" THEN e[2] ELSE 2 + e[2], IF e[1] = "page" THEN 0 ELSE e[2] % 2>>]
MCText == {<<"page", 1>>}

VARIABLE component  \* the component the behaviour is of
remoteVars == <<ipcVars, prefVars, wsVars>>
browserVars == <<telemetryVars, dialogVars, menuVars>>
interfaceVars == <<component, remoteVars, browserVars>>

InterfaceInit ==
  /\ component \in {"ipc", "preferences", "websocket", "telemetry", "dialogs", "menu"}
  /\ IpcInit /\ PrefInit /\ WsInit /\ TelemetryInit /\ DialogInit /\ MenuInit
  /\ component # "dialogs" => active = Body

RemoteNext ==
  \/ component = "ipc" /\ IpcNext /\ UNCHANGED <<prefVars, wsVars>>
  \/ component = "preferences" /\ PrefNext /\ UNCHANGED <<ipcVars, wsVars>>
  \/ component = "websocket" /\ WsNext /\ UNCHANGED <<ipcVars, prefVars>>

BrowserNext ==
  \/ component = "telemetry" /\ TelemetryNext /\ UNCHANGED <<dialogVars, menuVars>>
  \/ component = "dialogs" /\ DialogNext /\ UNCHANGED <<telemetryVars, menuVars>>
  \/ component = "menu" /\ MenuNext /\ UNCHANGED <<telemetryVars, dialogVars>>

InterfaceNext ==
  \/ RemoteNext /\ UNCHANGED <<component, browserVars>>
  \/ BrowserNext /\ UNCHANGED <<component, remoteVars>>

\* The fairness of IpcSpec and PrefSpec, for behaviours of the component.
InterfaceFairness ==
  /\ WF_ipcVars(component = "ipc" /\ socket_message)
  /\ WF_ipcVars(component = "ipc" /\ message)
  /\ WF_ipcVars(component = "ipc" /\ send_text)
  /\ WF_ipcVars(component = "ipc" /\ dispatch_message)
  /\ \A id \in 1..MaxCalls : WF_ipcVars(component = "ipc" /\ jsonapi_finalization_gc(id))
  /\ WF_prefVars(component = "preferences" /\ Notify({}))
  /\ WF_prefVars(component = "preferences" /\ ApplyDrivers)
  /\ WF_prefVars(component = "preferences" /\ MaybeSave)
  /\ WF_prefVars(component = "preferences" /\ Written)

InterfaceSpec == InterfaceInit /\ [][InterfaceNext]_interfaceVars /\ InterfaceFairness

-----------------------------------------------------------------------------
(* Client and server agree: on the objects a client may refer to, on the    *)
(* values and triggers it holds, and on the connections that are open.      *)
RemoteSound ==
  /\ component = "ipc" => LiveObjectsKnown /\ CacheFresh /\ TriggersAgree
  /\ component = "websocket" => OpenConsCurrent

(* A widget reads its own telemetry only, the focus is where the user sees  *)
(* it, and a menu shows the state and has the hotkeys of its own items.     *)
BrowserSound ==
  /\ component = "telemetry" => TelemetryFaithful
  /\ component = "dialogs" => DialogTypeOK /\ FocusConfined
  /\ component = "menu" => MenuTypeOK /\ MenuConsistent

(* Garbage is purged, preferences are saved and take effect, and dialogs    *)
(* return the focus.                                                        *)
InterfaceSettles == GarbagePurged /\ PrefsSettle /\ FocusReturns
=============================================================================
