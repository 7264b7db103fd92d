------------------------------ MODULE JsonIpc ------------------------------
(***************************************************************************)
(* The connection between the user interface and the sound engine: remote  *)
(* objects and their garbage collection, triggers for notifications, and   *)
(* cached properties.                                                      *)
(*   client    JavaScript: src/jsonipc/jsonipc.js, src/ui/startup.js        *)
(*   ws        the web socket thread, which hands each message to the main  *)
(*             thread and waits: src/ase/websocket.cc, jsonapi.cc           *)
(*   main      src/jsonipc/jsonipc.hh, src/ase/jsonapi.cc, object.cc        *)
(* A JavaScript object stands for an id of the server's InstanceMap.  When *)
(* it is collected its WeakRef is empty at once, but the finalizer that    *)
(* reports the id runs later, as a task of its own.                        *)
(* The last part is the server's list of its connections.                  *)
(***************************************************************************)
EXTENDS Integers, Sequences, FiniteSets, SequencesExt

CONSTANTS
  Objects,      \* objects of the server, each has a property with notification
  Triggers,     \* ids of triggers the client may use
  MaxCalls,     \* bound on the calls that return objects
  MaxChanges    \* bound on changes of the property

ASSUME BoundsAssumption ==
  /\ MaxCalls \in Nat /\ MaxChanges \in Nat /\ IsFiniteSet(Triggers)
  /\ 0 \notin Objects   \* a null pointer is no object

VARIABLES
  \* client
  live,         \* ids of live objects, in Jsonipc_objects
  dead,         \* ids of collected objects whose finalizer has not run
  garbage,      \* jsonapi_finalization_garbage
  inflight,     \* a renew-gc call has no reply yet
  watch,        \* per trigger: "none", "on", "orphan" (object collected), "off"
  watched,      \* per trigger: the id whose property is cached
  cached,       \* per trigger: the cached value, -1 before it is fetched
  calls,        \* number of calls made
  late,         \* history: ids reported although a newer object was live
  \* connection
  toServer, toClient,
  opened,
  ws,           \* message in the web socket thread: <<>>, <<msg>> or <<msg, reply>>
  \* main thread
  wmap_,        \* id -> object
  idset_,       \* ids sent since renew-gc, <<>> when there is no collection
  triggers_,    \* triggers of the connection
  connections,  \* triggers with a connection to "notify:value"
  value

clientVars == <<live, dead, garbage, inflight, watch, watched, cached, calls, late>>
ipcServerVars == <<wmap_, idset_, triggers_, connections, value>>
ipcVars == <<clientVars, toServer, toClient, opened, ws, ipcServerVars>>

Msg(method, arg) == [method |-> method, arg |-> arg]

IpcInit ==
  /\ live = {} /\ dead = {} /\ garbage = {} /\ inflight = FALSE /\ calls = 0 /\ late = {}
  /\ watch = [t \in Triggers |-> "none"] /\ watched = [t \in Triggers |-> 0]
  /\ cached = [t \in Triggers |-> -1]
  /\ toServer = <<>> /\ toClient = <<>> /\ opened = TRUE /\ ws = <<>>
  /\ wmap_ = <<>> /\ idset_ = <<>> /\ triggers_ = {} /\ connections = {} /\ value = 0

-----------------------------------------------------------------------------
(* Client                                                                  *)

\* Jsonipc.send() of a method that returns some object.
Call ==
  /\ opened /\ calls < MaxCalls
  /\ calls' = calls + 1
  /\ toServer' = Append(toServer, Msg("call", 0))
  /\ UNCHANGED <<live, dead, garbage, inflight, watch, watched, cached, late, toClient, opened, ws,
                 ipcServerVars>>

\* get_reactive_prop(): on() creates a trigger and connects it, then fetch.
WatchRequests(id, t) ==
  <<Msg("create", t), Msg("js_trigger", <<id, t>>), Msg("get", <<id, t>>)>>

get_reactive_prop(id, t) ==
  /\ opened
  /\ id \in live
  /\ watch[t] = "none"
  /\ \A u \in Triggers : watch[u] = "on" => watched[u] # id
  /\ watch' = [watch EXCEPT ![t] = "on"]
  /\ watched' = [watched EXCEPT ![t] = id]
  /\ toServer' = toServer \o WatchRequests(id, t)
  /\ UNCHANGED <<live, dead, garbage, inflight, cached, calls, late, toClient, opened, ws, ipcServerVars>>

\* The JavaScript engine collects an object.
Collect(id) ==
  /\ id \in live
  /\ id \notin dead
  /\ live' = live \ {id}
  /\ dead' = dead \cup {id}
  /\ watch' = [t \in Triggers |-> IF watch[t] = "on" /\ watched[t] = id THEN "orphan" ELSE watch[t]]
  /\ UNCHANGED <<garbage, inflight, watched, cached, calls, late, toServer, toClient, opened, ws, ipcServerVars>>

Orphans(id) == {t \in Triggers : watch[t] = "orphan" /\ watched[t] = id}

\* Finalizers of a collected object: the $unwatchers remove its trigger, and
\* jsonapi_finalization_gc() reports the id.
jsonapi_finalization_gc(id) ==
  /\ opened
  /\ id \in dead
  /\ dead' = dead \ {id}
  /\ garbage' = garbage \cup {id}
  /\ late' = IF id \in live THEN late \cup {id} ELSE late
  /\ watch' = [t \in Triggers |-> IF t \in Orphans(id) THEN "off" ELSE watch[t]]
  /\ toServer' = toServer \o SetToSeq({Msg("remove", t) : t \in Orphans(id)})
                          \o IF inflight THEN <<>> ELSE <<Msg("renew", 0)>>
  /\ inflight' = TRUE
  /\ UNCHANGED <<live, watched, cached, calls, toClient, opened, ws, ipcServerVars>>

\* A reply with an object, fromJSON(): jsonapi_finalization_registration() of
\* a new one.
ReceiveObject(id) ==
  /\ live' = live \cup {id}
  /\ garbage' = IF id \in live THEN garbage ELSE garbage \ {id}
  /\ UNCHANGED <<dead, inflight, watch, watched, cached, calls, late, toServer>>

\* The reply to renew-gc: report the garbage of this moment.
ReceiveRenewed(start) ==
  /\ inflight' = FALSE
  /\ garbage' = IF start THEN {} ELSE garbage
  /\ toServer' = IF start THEN Append(toServer, Msg("report", garbage)) ELSE toServer
  /\ UNCHANGED <<live, dead, watch, watched, cached, calls, late>>

\* A notification: refetch_prop() unless the object is gone.
ReceiveNotify(t) ==
  /\ toServer' = IF watch[t] = "on" THEN Append(toServer, Msg("get", <<watched[t], t>>)) ELSE toServer
  /\ UNCHANGED clientVars

\* The result of a fetch; replies come in the order of the calls.
ReceiveValue(t, v) ==
  /\ cached' = [cached EXCEPT ![t] = IF watch[t] = "on" THEN v ELSE @]
  /\ UNCHANGED <<live, dead, garbage, inflight, watch, watched, calls, late, toServer>>

\* Other replies; "killed" finds no trigger, the client removed it before.
ReceiveOther == UNCHANGED <<clientVars, toServer>>

socket_message ==
  /\ opened
  /\ toClient # <<>>
  /\ toClient' = Tail(toClient)
  /\ LET msg == Head(toClient)
     IN  CASE msg.method = "object" -> ReceiveObject(msg.arg)
           [] msg.method = "renewed" -> ReceiveRenewed(msg.arg)
           [] msg.method = "notify" -> ReceiveNotify(msg.arg)
           [] msg.method = "value" -> ReceiveValue(msg.arg[1], msg.arg[2])
           [] OTHER -> ReceiveOther
  /\ UNCHANGED <<opened, ws, ipcServerVars>>

-----------------------------------------------------------------------------
(* Web socket thread                                                       *)

\* JsonapiConnection::message(): queue a job for the main loop, wait.
message ==
  /\ opened /\ ws = <<>>
  /\ toServer # <<>>
  /\ ws' = <<Head(toServer)>>
  /\ toServer' = Tail(toServer)
  /\ UNCHANGED <<clientVars, toClient, opened, ipcServerVars>>

\* The semaphore was posted: send the reply.
send_text ==
  /\ Len(ws) = 2
  /\ toClient' = Append(toClient, ws[2])
  /\ ws' = <<>>
  /\ UNCHANGED <<clientVars, toServer, opened, ipcServerVars>>

\* ws_closed(): the triggers are destroyed, the connection and its
\* InstanceMap go away.
ws_closed ==
  /\ opened /\ ws = <<>>
  /\ opened' = FALSE
  /\ toServer' = <<>> /\ toClient' = <<>>
  /\ triggers_' = {} /\ connections' = {} /\ wmap_' = <<>> /\ idset_' = <<>>
  /\ UNCHANGED <<clientVars, ws, value>>

-----------------------------------------------------------------------------
(* Main thread: dispatch_message() in handle_jsonipc()                     *)

Ids == {i \in DOMAIN wmap_ : wmap_[i] # 0}

Reply(method, arg) == ws' = Append(ws, Msg(method, arg))

\* scope_wrap_object(): the object's id, or the next of the counter.
WrapObject ==
  \E o \in Objects :
    LET known == {i \in Ids : wmap_[i] = o}
        thisid == IF known = {} THEN Len(wmap_) + 1 ELSE CHOOSE i \in known : TRUE
    IN  /\ wmap_' = IF known = {} THEN Append(wmap_, o) ELSE wmap_
        /\ idset_' = IF idset_ = <<>> THEN <<>> ELSE <<idset_[1] \cup {thisid}>>
        /\ Reply("object", thisid)
        /\ UNCHANGED <<toClient, triggers_, connections, value>>

\* InstanceMap::mark_unused(), a second collection is refused.
renew_gc ==
  /\ Reply("renewed", idset_ = <<>>)
  /\ idset_' = IF idset_ = <<>> THEN <<{}>> ELSE idset_
  /\ UNCHANGED <<toClient, wmap_, triggers_, connections, value>>

Delete(ids) == [i \in DOMAIN wmap_ |-> IF i \in ids THEN 0 ELSE wmap_[i]]

purge_unusedAll(unused) == wmap_' = Delete(unused) /\ idset_' = <<>>

\* What was sent since renew-gc is preserved.
purge_unused(unused) ==
  /\ wmap_' = Delete(unused \ UNION ToSet(idset_))
  /\ idset_' = <<>>

report_gc(unused) ==
  /\ purge_unused(unused)
  /\ Reply("purged", 0)
  /\ UNCHANGED <<toClient, triggers_, connections, value>>

trigger_create(t) ==
  /\ triggers_' = triggers_ \cup {t}
  /\ Reply("done", 0)
  /\ UNCHANGED <<toClient, wmap_, idset_, connections, value>>

\* Emittable::js_trigger(): a method of the object.
js_trigger(id, t) ==
  /\ connections' = IF id \in Ids /\ t \in triggers_ THEN connections \cup {t} ELSE connections
  /\ Reply(IF id \in Ids THEN "done" ELSE "error", 0)
  /\ UNCHANGED <<toClient, wmap_, idset_, triggers_, value>>

\* JsTrigger::destroy(): disconnect, tell the client, forget the trigger.
trigger_remove(t) ==
  /\ connections' = connections \ {t}
  /\ triggers_' = triggers_ \ {t}
  /\ toClient' = IF t \in triggers_ THEN Append(toClient, Msg("killed", t)) ELSE toClient
  /\ Reply("done", 0)
  /\ UNCHANGED <<wmap_, idset_, value>>

get_property(id, t) ==
  /\ IF id \in Ids THEN Reply("value", <<t, value>>) ELSE Reply("error", 0)
  /\ UNCHANGED <<toClient, ipcServerVars>>

dispatch_message ==
  /\ Len(ws) = 1
  /\ LET msg == Head(ws)
     IN  CASE msg.method = "call" -> WrapObject
           [] msg.method = "renew" -> renew_gc
           [] msg.method = "report" -> report_gc(msg.arg)
           [] msg.method = "create" -> trigger_create(msg.arg)
           [] msg.method = "js_trigger" -> js_trigger(msg.arg[1], msg.arg[2])
           [] msg.method = "remove" -> trigger_remove(msg.arg)
           [] OTHER -> get_property(msg.arg[1], msg.arg[2])
  /\ UNCHANGED <<clientVars, toServer, opened>>

\* The property changes, in a message or in another callback of the main
\* loop; emit_notify() calls each trigger, which sends at once.
emit_notify ==
  /\ value < MaxChanges
  /\ value' = value + 1
  /\ toClient' = IF opened THEN toClient \o SetToSeq({Msg("notify", t) : t \in connections}) ELSE toClient
  /\ UNCHANGED <<clientVars, toServer, opened, ws, wmap_, idset_, triggers_, connections>>

IpcNext ==
  \/ Call
  \/ \E id \in DOMAIN wmap_ : Collect(id) \/ jsonapi_finalization_gc(id)
  \/ \E id \in live, t \in Triggers : get_reactive_prop(id, t)
  \/ socket_message
  \/ message \/ send_text \/ ws_closed
  \/ dispatch_message \/ emit_notify

\* Threads run, messages are delivered, finalizers run in the end.
IpcFairness ==
  /\ WF_ipcVars(socket_message) /\ WF_ipcVars(message) /\ WF_ipcVars(send_text) /\ WF_ipcVars(dispatch_message)
  /\ \A id \in 1..MaxCalls : WF_ipcVars(jsonapi_finalization_gc(id))

IpcSpec == IpcInit /\ [][IpcNext]_ipcVars /\ IpcFairness

-----------------------------------------------------------------------------
(* Properties                                                              *)

\* renew-gc and report-gc: an id the server has sent is not purged while its
\* message is under way, nor while the client has a live object for it; ids
\* apart that were reported by a finalizer running after a newer object for
\* the same id was made.
LiveObjectsKnown ==
  opened => /\ live \ late \subseteq Ids
            /\ \A msg \in ToSet(toClient) \cup ToSet(ws) : msg.method = "object" => msg.arg \in Ids

IpcQuiet == opened /\ toServer = <<>> /\ toClient = <<>> /\ ws = <<>>

\* get_reactive_prop(): once all messages are handled a cached property has
\* the server's value, whatever notifications and replies crossed.
CacheFresh ==
  IpcQuiet => \A t \in Triggers : watch[t] = "on" /\ watched[t] \notin late => cached[t] = value

\* Jsonapi/Trigger/create and remove: then the server has exactly the triggers
\* the client has, and notifies no others.
TriggersAgree ==
  IpcQuiet => /\ triggers_ = {t \in Triggers : watch[t] \in {"on", "orphan"}}
              /\ connections \subseteq triggers_

\* A collected object's id is purged from the InstanceMap in the end, unless
\* the client gets it again.
GarbagePurged ==
  \A id \in 1..MaxCalls : (id \in dead) ~> (~opened \/ id \in live \/ id \notin Ids)
-----------------------------------------------------------------------------
(***************************************************************************)
(* The web socket server (src/ase/websocket.cc) with the connections of    *)
(* src/ase/jsonapi.cc, for any number of them: the asio thread runs the    *)
(* handlers of all connections one after the other, a message is executed  *)
(* by a main loop job the asio thread waits for; the main thread resets    *)
(* and shuts down the server and drops what is left on its way out of      *)
(* main().                                                                 *)
(* websocketpp is external: handlers run on the asio thread; close() of an *)
(* open connection leads to its close handler unless the server stops.     *)
(***************************************************************************)
CONSTANTS
  Conns,           \* connections
  Trusted,         \* the ones validate() accepts: local origin, right subprotocol
  MaxMessages      \* bound: messages sent by clients

ASSUME WebSocketAssumption ==
  Trusted \subseteq Conns /\ MaxMessages \in Nat

VARIABLES
  con,             \* "none", "accepted", "open", "closing" or "closed"
  accepted,          \* internals_.opened
  opencons,        \* opencons_
  hooks,           \* connections with triggers that were not destroyed
  inbox,           \* messages received for each connection, not yet handled
  asio,            \* connection whose message() waits for sem, "idle", "stop" or "joined"
  job,             \* main_jobs: the connection whose message is to be executed, or "none"
  executed, answered, \* messages executed and replies sent, per connection
  messages,
  server           \* main thread: "run", "quit", "join", "reset" or "done"
wsVars == <<con, accepted, opencons, hooks, inbox, asio, job, executed, answered, messages, server>>

WsInit ==
  /\ con = [c \in Conns |-> "none"] /\ accepted = [c \in Conns |-> FALSE] /\ opencons = <<>>
  /\ hooks = {} /\ inbox = [c \in Conns |-> 0] /\ asio = "idle" /\ job = "none"
  /\ executed = [c \in Conns |-> 0] /\ answered = [c \in Conns |-> 0]
  /\ messages = 0 /\ server = "run"

\* set_validate_handler: a rejected connection gets "forbidden"
validate(c) == c \in Trusted
Connect(c) ==
  /\ asio = "idle" /\ con[c] = "none"
  /\ con' = [con EXCEPT ![c] = IF validate(c) THEN "accepted" ELSE "closed"]
  /\ UNCHANGED <<accepted, opencons, hooks, inbox, asio, job, executed, answered, messages, server>>
ws_opened(c) ==
  /\ asio = "idle" /\ con[c] = "accepted"
  /\ con' = [con EXCEPT ![c] = "open"] /\ accepted' = [accepted EXCEPT ![c] = TRUE]
  /\ opencons' = Append(opencons, c) /\ hooks' = hooks \cup {c}
  /\ UNCHANGED <<inbox, asio, job, executed, answered, messages, server>>
\* a client sends; the message arrives whatever the threads do
ClientSend(c) ==
  /\ con[c] = "open" /\ messages < MaxMessages
  /\ messages' = messages + 1 /\ inbox' = [inbox EXCEPT ![c] = @ + 1]
  /\ UNCHANGED <<con, accepted, opencons, hooks, asio, job, executed, answered, server>>
\* JsonapiConnection::message: queues the job and waits for sem.post()
Message(c) ==
  /\ asio = "idle" /\ con[c] \in {"open", "closing"} /\ inbox[c] > 0
  /\ inbox' = [inbox EXCEPT ![c] = @ - 1]
  /\ asio' = c /\ job' = c
  /\ UNCHANGED <<con, accepted, opencons, hooks, executed, answered, messages, server>>
MainJob ==
  /\ server \in {"run", "quit"} /\ job # "none"
  /\ executed' = [executed EXCEPT ![job] = @ + 1] /\ job' = "none"
  /\ UNCHANGED <<con, accepted, opencons, hooks, inbox, asio, answered, messages, server>>
\* sem.wait() returns; send_text() fails when the connection was closed meanwhile
Replied(c) == IF con[c] = "open" THEN 1 ELSE 0
message_done(c) ==
  /\ asio = c /\ job = "none" /\ asio' = IF server = "join" THEN "stop" ELSE "idle"
  /\ answered' = [answered EXCEPT ![c] = @ + Replied(c)]
  /\ UNCHANGED <<con, accepted, opencons, hooks, inbox, job, executed, messages, server>>
\* the client goes away, or close() of reset() is carried out
Disconnect(c) ==
  /\ con[c] = "open" /\ con' = [con EXCEPT ![c] = "closing"]
  /\ UNCHANGED <<accepted, opencons, hooks, inbox, asio, job, executed, answered, messages, server>>
ClosedFlag(c) == [accepted EXCEPT ![c] = FALSE]
con_closed(c) ==
  /\ asio = "idle" /\ con[c] = "closing"
  /\ con' = [con EXCEPT ![c] = "closed"]
  /\ accepted' = ClosedFlag(c)
  /\ opencons' = RemoveFirst(opencons, c) /\ hooks' = hooks \ {c}     \* trigger_destroy_hooks()
  /\ inbox' = [inbox EXCEPT ![c] = 0]
  /\ UNCHANGED <<asio, job, executed, answered, messages, server>>

\* reset(): SIGUSR2, and the end of shutdown()
Closed == [c \in Conns |-> IF c \in Range(opencons) /\ con[c] = "open" THEN "closing" ELSE con[c]]
Reset ==
  /\ server = "run" /\ opencons # <<>> /\ con' = Closed
  /\ UNCHANGED <<accepted, opencons, hooks, inbox, asio, job, executed, answered, messages, server>>
\* main_loop->run() returns
QuitLoop ==
  /\ server = "run" /\ server' = "quit"
  /\ UNCHANGED <<con, accepted, opencons, hooks, inbox, asio, job, executed, answered, messages>>
\* shutdown(): wppserver_.stop() and join()
Shutdown ==
  /\ server = "quit"
  /\ server' = "join" /\ asio' = IF asio = "idle" THEN "stop" ELSE asio
  /\ UNCHANGED <<con, accepted, opencons, hooks, inbox, job, executed, answered, messages>>
Joined ==
  /\ server = "join" /\ asio = "stop"
  /\ asio' = "joined" /\ server' = "reset"
  /\ UNCHANGED <<con, accepted, opencons, hooks, inbox, job, executed, answered, messages>>
ShutdownReset ==
  /\ server = "reset" /\ server' = "done" /\ con' = Closed
  /\ UNCHANGED <<accepted, opencons, hooks, inbox, asio, job, executed, answered, messages>>

WsNext ==
  \/ \E c \in Conns : \/ Connect(c) \/ ws_opened(c) \/ ClientSend(c) \/ Message(c) \/ message_done(c)
                      \/ Disconnect(c) \/ con_closed(c)
  \/ MainJob \/ Reset \/ QuitLoop \/ Shutdown \/ Joined \/ ShutdownReset
WsSpec == WsInit /\ [][WsNext]_wsVars

-----------------------------------------------------------------------------
(* opencons_ lists every connection between its open and its close handler  *)
(* once, and a trigger is only left alive for those: what reset() closes is *)
(* what is open, and closed() ran for everything else.                      *)
OpenConsCurrent ==
  /\ IsInjective(opencons)
  /\ Range(opencons) = {c \in Conns : accepted[c]} /\ hooks = Range(opencons)
=============================================================================
