----------------------------- MODULE CloudService -----------------------------
(***************************************************************************)
(* The cloud service (cloud_service.c) on top of the MQTT engine: the      *)
(* 500 ms CLOUD_task that brings up WiFi, socket and MQTT session, its     *)
(* reset path, the one-shot timeouts of CLOUD_sched and wifi_sched, the    *)
(* socket state of bsdWINC.c and the WiFi callbacks of wifi_service.c and  *)
(* app.c.  The engine's handlers are MqttCore's actions, called in the     *)
(* order CLOUD_task calls them.                                            *)
(*                                                                         *)
(* APP_Tasks, the WINC driver's events and the CLI run in one loop, so a   *)
(* function called from it is one step; CLOUD_task on a connected socket   *)
(* is three (pc), so that timer interrupts can fall between its handlers.  *)
(***************************************************************************)
EXTENDS MqttCore

CONSTANTS
  Failures,     \* what may fail outside the engine, see FailureKinds
  MaxFailures   \* bound: how often in a behaviour

(* reInit's join, joining the access point, its loss, an answer to a DNS    *)
(* query, making the TCP connection, its loss, the registration of a timer; *)
(* and the commands "reconnect" and "wifi -set".                            *)
FailureKinds == {"reinit", "join", "ap", "dns", "connect", "tcp", "timer", "command",
                 "wifiset"}

ASSUME SubscribeAssumption == "subscribe" \in Requests
ASSUME FailuresAssumption == Failures \subseteq FailureKinds /\ MaxFailures \in Nat

VARIABLES
  pc,                \* where CLOUD_task is: "idle", "transmit", "finish"
  socketState,       \* the socket's socketState in bsdWINC.c
  recvPending,       \* a recv() is outstanding (bIsRecvPending)
  orphan,            \* history: the CONNECT reply of a socket that reInit forgot
  cloudInitialized,  \* reInit() has run since the last CLOUD_reset()
  params,            \* the bits set in shared_networking_params
  hostIp,            \* mqttHostIP is not 0
  resolving,         \* a DNS query is outstanding
  sendSubscribe,     \* a SUBSCRIBE is to be made on this session
  running,           \* timeouts whose handle names a running SYS_TIME object
  strays,            \* timeouts with running objects no handle names
  fired,             \* the TmrExpired flags an interrupt has set
  refused,           \* timeouts whose last registration found the pool empty
  overtaken,         \* history: "wifi -set" came while a reset was on its way
  wifi,              \* the WINC's association: "down", "joining", "up"
  leaving,           \* the WINC has yet to tell that it left the access point
  failures           \* history: failures so far

linkVars    == <<socketState, recvPending, orphan>>
serviceVars == <<cloudInitialized, params, hostIp, resolving, sendSubscribe>>
timerVars   == <<running, strays, refused>>
taskVars    == <<timerVars, fired, overtaken>>
wifiVars    == <<wifi, leaving, failures>>
cloudVars   == <<vars, pc, linkVars, serviceVars, taskVars, wifiVars>>

SocketStates == {"NOT_A_SOCKET", "SOCKET_CLOSED", "SOCKET_IN_PROGRESS", "SOCKET_CONNECTED"}

(* The bits of shared_networking_params this code reads.                    *)
ParamBits == {"haveAPConnection", "haveIpAddress", "haveHostIp", "haveMqttConnection",
              "cloudInitPending", "haveERROR", "amDisconnecting"}

Timeouts == {"mqttTimeout", "cloudReset", "wifiTimeout", "checkBack"}

-----------------------------------------------------------------------------
(* SYS_TIME, as CLOUD_task and wifi_service.c use it.  Registering again    *)
(* loses the handle of an object that still runs.                           *)

Fail(kind) == kind \in Failures /\ failures < MaxFailures /\ failures' = failures + 1

Overwrite(k) == strays' = IF k \in running THEN strays \cup {k} ELSE strays

Registered(k) ==
  /\ Overwrite(k)
  /\ running' = running \cup {k} /\ refused' = refused \ {k}

(* SYS_TIME_HANDLE_INVALID, which no caller looks at.                       *)
Refused(k) ==
  /\ Overwrite(k)
  /\ running' = running \ {k} /\ refused' = refused \cup {k}

Start(k) ==
  /\ \/ Registered(k) /\ UNCHANGED failures
     \/ Refused(k) /\ Fail("timer")
  /\ UNCHANGED <<fired, overtaken>>

(* The same where another failure has been counted.                         *)
StartAfterFailure(k) == Registered(k) \/ ("timer" \in Failures /\ Refused(k))

(* SYS_TIME_TimerStop and SYS_TIME_TimerDestroy on the handles.             *)
Stop(ks) == running' = running \ ks /\ UNCHANGED <<strays, refused, fired>>

(* A single-shot object of timeout k runs out; "strays" does not count them. *)
Elapse(k) ==
  /\ \/ k \in running /\ running' = running \ {k} /\ UNCHANGED strays
     \/ k \in strays /\ strays' \in {strays, strays \ {k}} /\ UNCHANGED running
  /\ UNCHANGED <<refused, overtaken>>

(* Nobody stops the other two, and then it makes no difference how long     *)
(* their interrupt waits to be served: it is one step with their task.      *)
Stoppable == {"mqttTimeout", "cloudReset"}

(* mqttTimeoutTaskcb and cloudResetTaskcb.                                  *)
TimeoutCallback(k) ==
  /\ ~halted
  /\ Elapse(k)
  /\ fired' = fired \cup {k}
  /\ UNCHANGED <<vars, pc, linkVars, serviceVars, wifiVars>>

LastStray(k) == k \in strays /\ TimeoutCallback(k) /\ k \notin strays'

-----------------------------------------------------------------------------
(* Helpers.                                                                 *)

Idle == pc = "idle" /\ ~halted

Have(bits) == bits \subseteq params

(* CLOUD_reset: CLOUD_disconnect ends a connected session, the socket stays *)
(* open.                                                                    *)
CloudReset ==
  /\ cloudInitialized' = FALSE
  /\ IF mqttState = "CONNECTED" THEN Disconnect ELSE UNCHANGED vars

(* What the driver keeps of a socket: a slot, and for a connected one the   *)
(* connection.  A socket that is connected by an orphan has neither.        *)
HoldsSocket == socketState \in {"SOCKET_CLOSED", "SOCKET_IN_PROGRESS"} \/ sock

(* Fault: the outstanding recv() survives its socket.                       *)
SocketKeepsRecv ==
  /\ IF TimedOut \/ (sock /\ ~sock') THEN socketState' = "NOT_A_SOCKET"
                                     ELSE UNCHANGED socketState
  /\ UNCHANGED <<recvPending, orphan>>

(* BSD_close, by an engine step that may have closed its connection: a      *)
(* response timeout does so even where there is none.                       *)
SocketFollows ==
  IF TimedOut \/ (sock /\ ~sock')
  THEN socketState' = "NOT_A_SOCKET" /\ recvPending' = FALSE /\ UNCHANGED orphan
  ELSE UNCHANGED linkVars

-----------------------------------------------------------------------------
(* CLOUD_task without a socket.                                             *)

StartReset ==
  /\ Idle /\ socketState = "NOT_A_SOCKET"
  /\ ~cloudInitialized /\ "cloudInitPending" \notin params
  /\ params' = params \cup {"cloudInitPending"}
  /\ Start("cloudReset")
  /\ UNCHANGED <<vars, pc, linkVars, cloudInitialized, hostIp, resolving, sendSubscribe,
                 wifi, leaving>>

(* Fault: a requested reset does not keep CLOUD_task from going on.         *)
OnlineUninitialized ==
  socketState = "NOT_A_SOCKET" /\ Have({"haveAPConnection", "haveIpAddress"})

Online == socketState = "NOT_A_SOCKET" /\ cloudInitialized
            /\ Have({"haveAPConnection", "haveIpAddress"})

(* gethostbyname, again every ten seconds while no answer comes.            *)
AskHost ==
  /\ Idle /\ Online /\ ~Have({"haveHostIp"})
  /\ resolving' = TRUE
  /\ UNCHANGED <<vars, pc, linkVars, cloudInitialized, params, hostIp, sendSubscribe,
                 taskVars, wifiVars>>

(* The engine still believes itself connected: the socket was lost.         *)
ResetStale ==
  /\ Idle /\ Online /\ Have({"haveHostIp"}) /\ mqttState = "CONNECTED"
  /\ CloudReset
  /\ UNCHANGED <<pc, linkVars, params, hostIp, resolving, sendSubscribe, taskVars, wifiVars>>

(* Fault: the engine's state is not looked at.                              *)
CreateSocketUnchecked ==
  /\ Idle /\ Online /\ Have({"haveHostIp"})
  /\ socketState' = "SOCKET_CLOSED" /\ orphan' = "none"
  /\ UNCHANGED <<vars, pc, recvPending, serviceVars, taskVars, wifiVars>>

(* BSD_socket.  The new socket has another number than the last one, so     *)
(* nobody takes an orphan any more (Sockets).                               *)
CreateSocket ==
  /\ Idle /\ Online /\ Have({"haveHostIp"}) /\ mqttState # "CONNECTED"
  /\ socketState' = "SOCKET_CLOSED" /\ orphan' = "none"
  /\ UNCHANGED <<vars, pc, recvPending, serviceVars, taskVars, wifiVars>>

(* connectMQTTSocket: the connect starts, or setting an option fails and    *)
(* the socket is closed.  Without a host address nothing happens.           *)
ConnectSocket ==
  /\ Idle /\ socketState = "SOCKET_CLOSED" /\ hostIp
  /\ \/ socketState' = "SOCKET_IN_PROGRESS" /\ UNCHANGED <<params, failures>>
     \/ socketState' = "NOT_A_SOCKET" /\ params' = params \cup {"haveERROR"} /\ Fail("connect")
  /\ UNCHANGED <<vars, pc, recvPending, orphan, cloudInitialized, hostIp, resolving,
                 sendSubscribe, taskVars, wifi, leaving>>

-----------------------------------------------------------------------------
(* CLOUD_task on a connected socket.                                        *)

(* connectMQTT; the 30 s timeout is registered whatever its handle names.   *)
ConnectMqtt ==
  /\ Idle /\ socketState = "SOCKET_CONNECTED" /\ mqttState = "DISCONNECTED"
  /\ CreateConnectPacket
  /\ Start("mqttTimeout")
  /\ sendSubscribe' = TRUE
  /\ UNCHANGED <<pc, linkVars, cloudInitialized, params, hostIp, resolving, wifi, leaving>>

(* MQTT_ReceptionHandler finds nothing to do.                               *)
NothingReceived ==
  /\ ~TimedOut
  /\ rxbuff # <<>> => mqttState # "WAITFORCONNACK"
  /\ rxbuff # <<>> /\ mqttState = "CONNECTED" =>
       Head(rxbuff).type \notin rxFlags \cup {"publish", "puback"}
  /\ UNCHANGED vars

(* A PUBLISH that ends the session is the provisioning service's            *)
(* assignment: iot_provisioning_completed names the new host and resets.    *)
Assigned == /\ mqttState = "CONNECTED" /\ mqttState' = "DISCONNECTED"
            /\ Received /\ Head(rxbuff).type = "publish"

Receive ==
  /\ Idle /\ socketState = "SOCKET_CONNECTED" /\ mqttState # "DISCONNECTED"
  /\ ReceptionHandler \/ NothingReceived
  /\ IF Assigned
       THEN /\ cloudInitialized' = FALSE
            /\ params' = params \cup {"haveHostIp"}
            /\ hostIp' = FALSE
       ELSE UNCHANGED <<cloudInitialized, params, hostIp>>
  /\ SocketFollows
  /\ pc' = "transmit"
  /\ UNCHANGED <<resolving, sendSubscribe, taskVars, wifiVars>>

(* MQTT_TransmissionHandler finds nothing to do.                            *)
NothingToSend ==
  /\ \/ mqttState \in {"CONNECTING", "DISCONNECTED"} /\ "connect" \notin txFlags
     \/ mqttState = "WAITFORCONNACK"
     \/ /\ mqttState = "CONNECTED"
        /\ \/ txFlags = {}
           \/ Selected("publish") /\ pending # NoPacket
           \/ Selected("pingreq") /\ "pingreq" \notin occured
  /\ UNCHANGED vars

Transmit ==
  /\ pc = "transmit" /\ ~halted
  /\ TransmissionHandler \/ AssertPublishFound \/ NothingToSend
  /\ pc' = "finish"
  /\ UNCHANGED <<linkVars, serviceVars, taskVars, wifiVars>>

(* CLOUD_subscribe: MQTT_CreateSubscribePacket refuses while an older       *)
(* SUBACK is outstanding.                                                   *)
Subscribe ==
  \/ CreateRequestPacket("subscribe") /\ sendSubscribe' = FALSE
  \/ "suback" \in rxFlags /\ UNCHANGED <<vars, sendSubscribe>>

(* Fault: the session is not reported to the timeouts.                      *)
FinishUnreported ==
  /\ pc = "finish" /\ ~halted
  /\ recvPending' = (recvPending \/ sock)
  /\ IF mqttState = "CONNECTED"
       THEN /\ Stop({"mqttTimeout", "cloudReset"}) /\ UNCHANGED overtaken
            /\ IF sendSubscribe THEN Subscribe ELSE UNCHANGED <<vars, sendSubscribe>>
       ELSE UNCHANGED <<vars, taskVars, sendSubscribe>>
  /\ pc' = "idle"
  /\ UNCHANGED <<params, socketState, orphan, cloudInitialized, hostIp, resolving, wifiVars>>

(* BSD_recv, which needs a slot in use, and the actions of a connected      *)
(* session.                                                                 *)
Finish ==
  /\ pc = "finish" /\ ~halted
  /\ recvPending' = (recvPending \/ sock)
  /\ IF mqttState = "CONNECTED"
       THEN /\ params' = params \cup {"haveMqttConnection"}
            /\ Stop({"mqttTimeout", "cloudReset"})
            /\ overtaken' = (overtaken /\ "cloudReset" \in strays \cup fired)
            /\ IF sendSubscribe THEN Subscribe ELSE UNCHANGED <<vars, sendSubscribe>>
       ELSE UNCHANGED <<vars, params, taskVars, sendSubscribe>>
  /\ pc' = "idle"
  /\ UNCHANGED <<socketState, orphan, cloudInitialized, hostIp, resolving, wifiVars>>

CloudTask ==
  \/ StartReset
  \/ AskHost
  \/ ResetStale
  \/ CreateSocket
  \/ ConnectSocket
  \/ ConnectMqtt
  \/ Receive

-----------------------------------------------------------------------------
(* CLOUD_sched and wifi_sched.                                              *)

Serve(k) == Idle /\ k \in fired /\ fired' = fired \ {k}

ResetUnless(spared) ==
  IF spared THEN UNCHANGED <<vars, cloudInitialized>> ELSE CloudReset

(* Fault: an error spares the connection instead of ending it.              *)
WifiTimeoutTaskErrorSpares ==
  /\ Idle /\ Elapse("wifiTimeout")
  /\ ResetUnless(params \cap {"haveAPConnection", "haveIpAddress", "haveERROR"} # {})
  /\ UNCHANGED <<pc, linkVars, params, hostIp, resolving, sendSubscribe, fired, wifiVars>>

(* wifiTimeoutTask spares a device that is on its way onto the network.     *)
WifiTimeoutTask ==
  /\ Idle /\ Elapse("wifiTimeout")
  /\ ResetUnless(/\ params \cap {"haveAPConnection", "haveIpAddress"} # {}
                 /\ "haveERROR" \notin params)
  /\ UNCHANGED <<pc, linkVars, params, hostIp, resolving, sendSubscribe, fired, wifiVars>>

MqttTimeoutTask ==
  /\ Serve("mqttTimeout")
  /\ ResetUnless("haveMqttConnection" \in params)
  /\ UNCHANGED <<pc, linkVars, params, hostIp, resolving, sendSubscribe, timerVars,
                 overtaken, wifiVars>>

(* reInit, whatever the socket is doing: the socket layer is taken down and *)
(* up again without a word to the module, the engine starts anew.  The      *)
(* answer to a connect that was on its way finds an entry for its socket.   *)
ReInit ==
  /\ ClientInitialize
  /\ socketState' = "NOT_A_SOCKET" /\ recvPending' = FALSE
  /\ orphan' = IF socketState = "SOCKET_IN_PROGRESS" THEN "owed" ELSE orphan
  /\ UNCHANGED <<pc, hostIp, resolving, sendSubscribe>>

(* Its end: the module is asked to join the access point, or cannot be.     *)
Joins     == params' = {} /\ wifi' = "joining"
JoinFails == params' = {"haveERROR"} /\ UNCHANGED timerVars

(* Fault: a failed reInit leaves the request pending.                       *)
ResetTaskKeepsPending ==
  /\ Serve("cloudReset") /\ ReInit
  /\ \/ /\ Joins /\ cloudInitialized' = TRUE
        /\ Registered("wifiTimeout") /\ UNCHANGED failures
     \/ /\ params' = {"haveERROR", "cloudInitPending"} /\ UNCHANGED timerVars
        /\ cloudInitialized' = FALSE
        /\ Fail("reinit") /\ UNCHANGED wifi
  /\ UNCHANGED <<overtaken, leaving>>

(* Fault: the bits of the last attempt are not cleared.                     *)
ResetTaskKeepsParams ==
  /\ Serve("cloudReset") /\ ReInit
  /\ cloudInitialized' = TRUE
  /\ params' = params \ {"cloudInitPending"}
  /\ wifi' = "joining"
  /\ Registered("wifiTimeout")
  /\ UNCHANGED <<overtaken, leaving, failures>>

(* cloudResetTask keeps reInit's result.                                    *)
ResetTask ==
  /\ Serve("cloudReset") /\ ReInit
  /\ \/ /\ Joins /\ cloudInitialized' = TRUE
        /\ \/ Registered("wifiTimeout") /\ UNCHANGED failures
           \/ Refused("wifiTimeout") /\ Fail("timer")
     \/ /\ JoinFails /\ cloudInitialized' = FALSE
        /\ Fail("reinit") /\ UNCHANGED wifi
  /\ overtaken' = (overtaken /\ "cloudReset" \in running \cup strays)
  /\ UNCHANGED leaving

CheckBackTask ==
  /\ Idle /\ Elapse("checkBack")
  /\ params' = (params \ {"haveAPConnection", "amDisconnecting"}) \cup {"haveERROR"}
  /\ UNCHANGED <<vars, pc, linkVars, cloudInitialized, hostIp, resolving, sendSubscribe,
                 fired, wifiVars>>

MqttSched ==
  /\ Idle /\ Sched
  /\ UNCHANGED <<pc, linkVars, serviceVars, taskVars, wifiVars>>

-----------------------------------------------------------------------------
(* Events of the WINC module, and of the world behind it.                   *)

(* Joining an access point takes longer than the 50 ms of checkBackTask.    *)
Settled == Idle /\ "checkBack" \notin running

(* WiFi_ConStateCb with M2M_WIFI_CONNECTED.                                 *)
ApJoined ==
  /\ Settled /\ wifi = "joining" /\ ~leaving
  /\ wifi' = "up"
  /\ params' = params \cup {"haveAPConnection"}
  /\ UNCHANGED <<vars, pc, linkVars, cloudInitialized, hostIp, resolving, sendSubscribe,
                 taskVars, leaving, failures>>

(* WiFi_ConStateCb with M2M_WIFI_DISCONNECTED marks amDisconnecting first,   *)
(* and then does not call APP_WiFiConnectionStateChanged.                   *)
Disconnected ==
  /\ Settled
  /\ params' = params \cup {"amDisconnecting"}
  /\ UNCHANGED <<vars, pc, linkVars, cloudInitialized, hostIp, resolving, sendSubscribe>>

(* Joining has failed, or the access point is lost.                         *)
ApLost ==
  /\ Disconnected /\ ~leaving
  /\ \/ wifi = "joining" /\ Fail("join")
     \/ wifi = "up" /\ Fail("ap")
  /\ wifi' = "down"
  /\ StartAfterFailure("checkBack")
  /\ UNCHANGED <<fired, overtaken, leaving>>

(* What m2m_wifi_disconnect asked for.                                      *)
ApLeft ==
  /\ Disconnected /\ leaving
  /\ leaving' = FALSE
  /\ Start("checkBack")
  /\ UNCHANGED wifi

(* APP_DHCPAddressEventCb.                                                  *)
DhcpBound ==
  /\ Idle /\ wifi = "up" /\ "haveIpAddress" \notin params
  /\ params' = (params \cup {"haveIpAddress"}) \ {"haveERROR"}
  /\ UNCHANGED <<vars, pc, linkVars, cloudInitialized, hostIp, resolving, sendSubscribe,
                 taskVars, wifiVars>>

(* dnsHandler; an answer without an address changes nothing.                *)
HostResolved ==
  /\ Idle /\ resolving
  /\ resolving' = FALSE
  /\ \/ hostIp' = TRUE /\ params' = params \cup {"haveHostIp"} /\ UNCHANGED failures
     \/ Fail("dns") /\ UNCHANGED <<hostIp, params>>
  /\ UNCHANGED <<vars, pc, linkVars, cloudInitialized, sendSubscribe, taskVars, wifi, leaving>>

(* SOCKET_MSG_CONNECT; it does not look at the engine's state.              *)
SocketConnected ==
  /\ Idle /\ socketState = "SOCKET_IN_PROGRESS"
  /\ socketState' = "SOCKET_CONNECTED"
  /\ sock' = TRUE
  /\ UNCHANGED <<engineVars, listVars, broker, awaited, halted, pc, recvPending, orphan,
                 serviceVars, taskVars, wifiVars>>

(* SOCKET_MSG_CONNECT for a socket reInit forgot: a good one marks the      *)
(* entry connected, although the driver has no socket there.                *)
OrphanAnswered ==
  /\ Idle /\ orphan = "owed"
  /\ \/ orphan' = "taken" /\ socketState' = "SOCKET_CONNECTED"
     \/ orphan' = "none" /\ UNCHANGED socketState
  /\ UNCHANGED <<vars, pc, recvPending, serviceVars, taskVars, wifiVars>>

ConnectFailed ==
  /\ Idle /\ socketState = "SOCKET_IN_PROGRESS"
  /\ socketState' = "NOT_A_SOCKET"
  /\ Fail("connect")
  /\ UNCHANGED <<vars, pc, recvPending, orphan, serviceVars, taskVars, wifi, leaving>>

(* SOCKET_MSG_RECV, in answer to the outstanding recv(): data ...           *)
DataReceived ==
  /\ Idle /\ recvPending
  /\ GetReceivedData
  /\ recvPending' = FALSE
  /\ UNCHANGED <<pc, socketState, orphan, serviceVars, taskVars, wifiVars>>

(* ... or an error: the connection is lost, or the broker has closed one    *)
(* that carries no session.                                                 *)
ConnectionGone ==
  /\ Idle /\ recvPending
  /\ LoseSocket
  /\ SocketFollows
  /\ UNCHANGED <<pc, serviceVars, taskVars, wifi, leaving>>

ConnectionLost == ConnectionGone /\ Fail("tcp")
BrokerCloses   == broker.session # "active" /\ broker.wire = <<>> /\ ConnectionGone
                    /\ UNCHANGED failures

BrokerSends ==
  /\ Idle /\ BrokerPublish
  /\ UNCHANGED <<pc, linkVars, serviceVars, taskVars, wifiVars>>

EngineTimer ==
  /\ ~halted
  /\ \E k \in Elapsing : TimerCallback(k)
  /\ UNCHANGED <<pc, linkVars, serviceVars, taskVars, wifiVars>>

-----------------------------------------------------------------------------
(* Other callers of the engine in the main loop.                            *)

(* send_telemetry_message and the answers to the CLI and the twin.          *)
Publish ==
  /\ Idle
  /\ \E qos \in {0, 1} : CreatePublishPacket(qos)
  /\ UNCHANGED <<pc, linkVars, serviceVars, taskVars, wifiVars>>

(* The "reconnect" command.                                                 *)
ReconnectCommand ==
  /\ Idle /\ Fail("command")
  /\ Disconnect
  /\ UNCHANGED <<pc, linkVars, serviceVars, taskVars, wifi, leaving>>

(* "wifi -set": MQTT_Close for a connected session, m2m_wifi_disconnect and *)
(* reInit, in any state of the socket and whatever reset is on its way.     *)
(* Nobody keeps reInit's result.                                            *)
WifiSetCommand ==
  /\ Idle /\ Fail("wifiset") /\ ReInit
  /\ \/ Joins /\ StartAfterFailure("wifiTimeout")
     \/ JoinFails /\ "reinit" \in Failures /\ wifi' = "down"
  /\ leaving' \in {leaving \/ wifi = "up", TRUE}
  /\ overtaken' = (overtaken \/ "cloudReset" \in running \cup strays \cup fired)
  /\ UNCHANGED <<cloudInitialized, fired>>

-----------------------------------------------------------------------------
(* The state APP_STATE_WDRV_OPEN leaves: host named, WiFi asked to rejoin.  *)
CloudInit ==
  /\ Init
  /\ pc = "idle"
  /\ socketState = "NOT_A_SOCKET" /\ recvPending = FALSE /\ orphan = "none"
  /\ cloudInitialized = FALSE
  /\ params = {"haveHostIp"} /\ hostIp = FALSE /\ resolving = FALSE
  /\ sendSubscribe = TRUE
  /\ running = {} /\ strays = {} /\ fired = {} /\ refused = {} /\ overtaken = FALSE
  /\ wifi = "joining" /\ leaving = FALSE /\ failures = 0

CloudNext ==
  \/ CloudTask
  \/ Transmit
  \/ Finish
  \/ WifiTimeoutTask
  \/ MqttTimeoutTask
  \/ ResetTask
  \/ CheckBackTask
  \/ MqttSched
  \/ \E k \in Stoppable : TimeoutCallback(k)
  \/ EngineTimer
  \/ ApJoined
  \/ ApLost
  \/ ApLeft
  \/ DhcpBound
  \/ HostResolved
  \/ SocketConnected
  \/ OrphanAnswered
  \/ ConnectFailed
  \/ DataReceived
  \/ ConnectionLost
  \/ BrokerCloses
  \/ BrokerSends
  \/ Publish
  \/ ReconnectCommand
  \/ WifiSetCommand

(* A CONNECT reaches the broker: one in a session ends it, another is       *)
(* accepted.                                                                *)
ConnectHeard ==
  /\ Transmit /\ broker' # broker
  /\ broker.session = "none" => broker'.session = "active"

(* The main loop and the timers run, and the network answers: strong        *)
(* fairness where CLOUD_task, at work on a connected socket, lets the       *)
(* others in between its runs only.  An access point tried again and again  *)
(* lets the device join before its five seconds are over; a broker to which *)
(* CONNECT is sent again and again accepts one, and it closes a connection  *)
(* that carries no session.  Strays are finitely many.                      *)
Fairness ==
  /\ WF_cloudVars(CloudTask \/ Transmit \/ Finish)
  /\ WF_cloudVars(WifiTimeoutTask) /\ WF_cloudVars(CheckBackTask) /\ WF_cloudVars(ResetTask)
  /\ \A k \in Stoppable : WF_cloudVars(TimeoutCallback(k))
  /\ WF_cloudVars(LastStray("mqttTimeout"))
  /\ SF_cloudVars(ApJoined /\ cloudInitialized) /\ WF_cloudVars(DhcpBound)
  /\ WF_cloudVars(HostResolved) /\ WF_cloudVars(SocketConnected)
  /\ SF_cloudVars(MqttTimeoutTask) /\ SF_cloudVars(DataReceived \/ BrokerCloses)
  /\ SF_cloudVars(ConnectHeard)

CloudSpec     == CloudInit /\ [][CloudNext]_cloudVars
FairCloudSpec == CloudSpec /\ Fairness

-----------------------------------------------------------------------------
(* Properties.                                                              *)

(* Every variable holds a value the code can store in it.                   *)
CloudTypeOK ==
  /\ pc \in {"idle", "transmit", "finish"}
  /\ socketState \in SocketStates /\ recvPending \in BOOLEAN
  /\ cloudInitialized \in BOOLEAN /\ params \subseteq ParamBits
  /\ hostIp \in BOOLEAN /\ resolving \in BOOLEAN /\ sendSubscribe \in BOOLEAN
  /\ running \subseteq Timeouts /\ strays \subseteq Timeouts /\ fired \subseteq Timeouts
  /\ wifi \in {"down", "joining", "up"} /\ failures \in 0..MaxFailures
  /\ orphan \in {"none", "owed", "taken"} /\ refused \subseteq Timeouts
  /\ overtaken \in BOOLEAN /\ leaving \in BOOLEAN
  /\ recvPending => sock
  /\ sock => socketState = "SOCKET_CONNECTED"
  /\ socketState = "SOCKET_CONNECTED" /\ ~sock => orphan = "taken"

(* A reset once requested is forgotten in one case only: while              *)
(* cloudInitPending keeps CLOUD_task from requesting another, the timer of  *)
(* the first runs or has fired, or SYS_TIME had none left for it            *)
(* (cloud_service.c:364-367 does not look), although CLOUD_task stops that  *)
(* timer on every connected tick and a "wifi -set" may have come between.   *)
ResetScheduled ==
  "cloudInitPending" \in params => "cloudReset" \in running \cup fired \cup refused

(* The reset timer runs reInit on a socket in use, whose WINC socket it     *)
(* leaks and whose late events are taken for the next socket's, only where  *)
(* "wifi -set" overtook the reset (iot_cli.c:271): reInit then cleared      *)
(* cloudInitPending, CLOUD_task requested a second reset, and the later     *)
(* timer finds the first one's work.                                        *)
ResetOnClosedSocket ==
  "cloudReset" \in running \cup strays \cup fired /\ ~overtaken =>
    ~HoldsSocket /\ ~cloudInitialized

(* A socket is never made without the host's address: connectMQTTSocket     *)
(* would refuse it forever without closing it.                              *)
SocketHasAddress == socketState = "SOCKET_CLOSED" => hostIp

(* Between two runs of CLOUD_task a connected engine is a reported session: *)
(* no MQTT timeout, current or left over from an earlier attempt, resets    *)
(* it.                                                                      *)
SessionReported ==
  pc = "idle" /\ mqttState = "CONNECTED" => "haveMqttConnection" \in params

(* CLOUD_task drives the engine within the rules its model assumes: every   *)
(* step of the service is a step of the engine or leaves it alone.          *)
ImplementsEngine == Spec

(* What the code does not come back from: the flag of a response timeout    *)
(* closes every later connection (mqtt_core.c:1357), or SYS_TIME had no     *)
(* object for the timer that would try again.                               *)
Stranded ==
  \/ TimedOut
  \/ refused \cap {"mqttTimeout", "cloudReset", "wifiTimeout"} # {}

(* After boot and after every reInit, whatever of joining, DNS, socket and  *)
(* CONNECT fails on the way, a session is established in the end, unless    *)
(* the device is stranded.                                                  *)
Recovers ==
  "haveMqttConnection" \notin params ~>
    (mqttState = "CONNECTED" /\ broker.session = "active") \/ Stranded

(* "Restart the WIFI module if we get disconnected from the WiFi Access     *)
(* Point (AP)": the loss of the access point leads to a reset.              *)
WifiLossResets == (wifi = "down" /\ "amDisconnecting" \in params) ~> ~cloudInitialized

=============================================================================
