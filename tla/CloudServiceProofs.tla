-------------------------- MODULE CloudServiceProofs --------------------------
(***************************************************************************)
(* Proofs about CloudService, for every pool of timers, every set and      *)
(* number of failures and every bound of the engine's model: the service   *)
(* drives the engine within the engine's rules, and its own invariants.    *)
(***************************************************************************)
EXTENDS CloudService, TLAPS

(***************************************************************************)
(* What the engine's handlers do to the two variables the service looks    *)
(* at: its state and its connection.                                       *)
(***************************************************************************)
LEMMA ReceptionEffect ==
  ASSUME ReceptionHandler
  PROVE  /\ \/ sock' = sock /\ ~TimedOut
            \/ sock' = FALSE /\ mqttState' = "DISCONNECTED"
         /\ mqttState' \in {mqttState, "CONNECTED", "DISCONNECTED"}
         /\ mqttState' = "CONNECTED" => mqttState \in {"WAITFORCONNACK", "CONNECTED"}
<1>1. CASE TimeoutClose
  BY <1>1 DEF TimeoutClose, CloseSocket
<1>2. CASE ReceiveConnack
  BY <1>2 DEF ReceiveConnack, Received, netVars
<1>3. CASE RefuseConnack
  BY <1>3 DEF RefuseConnack, CloseSocket
<1>4. CASE ReceivePingresp
  BY <1>4 DEF ReceivePingresp, Received
<1>5. CASE ReceiveSuback
  BY <1>5 DEF ReceiveSuback, ConsumeAck, Received
<1>6. CASE ReceiveUnsuback
  BY <1>6 DEF ReceiveUnsuback, ConsumeAck, Received
<1>7. CASE ReceivePublish
  BY <1>7 DEF ReceivePublish, Disconnect, Received, netVars
<1>8. CASE ReceivePuback
  BY <1>8 DEF ReceivePuback, Received
<1>. QED BY <1>1, <1>2, <1>3, <1>4, <1>5, <1>6, <1>7, <1>8 DEF ReceptionHandler

LEMMA TransmissionEffect ==
  ASSUME TransmissionHandler \/ AssertPublishFound \/ NothingToSend
  PROVE  sock' = sock /\ (mqttState' = mqttState \/ (mqttState' = "WAITFORCONNACK" /\ sock))
<1>1. ASSUME NEW ok \in BOOLEAN, ok => sock, SendConnect(ok) PROVE sock' = sock /\
        (mqttState' = mqttState \/ (mqttState' = "WAITFORCONNACK" /\ sock))
  BY <1>1 DEF SendConnect
<1>2. ASSUME NEW ok \in BOOLEAN, SendPublish(ok) PROVE sock' = sock /\ mqttState' = mqttState
  BY <1>2 DEF SendPublish
<1>3. ASSUME NEW ok \in BOOLEAN, NEW r \in Requests, SendRequest(r, ok)
      PROVE  sock' = sock /\ mqttState' = mqttState
  BY <1>3 DEF SendRequest
<1>4. ASSUME NEW ok \in BOOLEAN, SendPingreq(ok) PROVE sock' = sock /\ mqttState' = mqttState
  BY <1>4 DEF SendPingreq
<1>5. AssertPublishFound \/ NothingToSend => sock' = sock /\ mqttState' = mqttState
  BY DEF AssertPublishFound, NothingToSend, vars, engineVars, netVars
<1>. QED BY <1>1, <1>2, <1>3, <1>4, <1>5 DEF TransmissionHandler

LEMMA CloudResetEffect ==
  ASSUME CloudReset
  PROVE  sock' = sock /\ mqttState' # "CONNECTED" /\ cloudInitialized' = FALSE
BY DEF CloudReset, Disconnect, vars, engineVars, netVars

LEMMA ResetUnlessEffect ==
  ASSUME NEW spared, ResetUnless(spared)
  PROVE  /\ sock' = sock
         /\ mqttState' = mqttState \/ mqttState' # "CONNECTED"
         /\ cloudInitialized' = cloudInitialized \/ cloudInitialized' = FALSE
BY CloudResetEffect DEF ResetUnless, vars, engineVars, netVars

LEMMA CloudResetStays ==
  ASSUME CloudReset, mqttState \in {"DISCONNECTED", "CONNECTING"}
  PROVE  mqttState' = mqttState
BY DEF CloudReset, vars, engineVars

LEMMA ResetUnlessStays ==
  ASSUME NEW spared, ResetUnless(spared), mqttState \in {"DISCONNECTED", "CONNECTING"}
  PROVE  mqttState' = mqttState
BY CloudResetStays DEF ResetUnless, vars, engineVars

(***************************************************************************)
(* What the service's own building blocks do.                              *)
(***************************************************************************)
LEMMA StartEffect ==
  ASSUME NEW k \in Timeouts, Start(k) \/ StartAfterFailure(k)
  PROVE  /\ strays' = (IF k \in running THEN strays \cup {k} ELSE strays)
         /\ \/ running' = running \cup {k} /\ refused' = refused \ {k}
            \/ running' = running \ {k} /\ refused' = refused \cup {k}
BY DEF Start, StartAfterFailure, Registered, Refused, Overwrite

LEMMA ReInitEffect ==
  ASSUME ReInit
  PROVE  /\ sock' = FALSE /\ mqttState' = "DISCONNECTED"
         /\ socketState' = "NOT_A_SOCKET" /\ recvPending' = FALSE
         /\ orphan' = (IF socketState = "SOCKET_IN_PROGRESS" THEN "owed" ELSE orphan)
         /\ UNCHANGED <<pc, hostIp, resolving, sendSubscribe>>
BY DEF ReInit, ClientInitialize, CloseSocket

(***************************************************************************)
(* The inductive invariant.  The socket's state follows the engine's       *)
(* connection, but for a connection an orphaned CONNECT reply pretends, on *)
(* which the engine gets no further than a CONNECT it cannot send; no      *)
(* connected engine meets a socket still to be connected; CLOUD_task is    *)
(* between its handlers only on a connected socket or one the engine has   *)
(* just closed.                                                            *)
(***************************************************************************)
Linked ==
  /\ recvPending => sock
  /\ sock => socketState = "SOCKET_CONNECTED"
  /\ socketState = "SOCKET_CONNECTED" /\ ~sock =>
       orphan = "taken" /\ mqttState \in {"DISCONNECTED", "CONNECTING"}
  /\ orphan = "owed" =>
       socketState = "NOT_A_SOCKET" /\ mqttState = "DISCONNECTED" /\ pc = "idle"
  /\ socketState \in {"SOCKET_CLOSED", "SOCKET_IN_PROGRESS"} => mqttState # "CONNECTED"
  /\ pc \in {"idle", "transmit", "finish"}
  /\ pc # "idle" =>
       socketState = "SOCKET_CONNECTED"
         \/ (socketState = "NOT_A_SOCKET" /\ mqttState # "CONNECTED")

(***************************************************************************)
(* The one reset that cloudInitPending stands for.  Unless "wifi -set"     *)
(* overtook it, there is no other.                                         *)
(***************************************************************************)
ResetIn(ks) == "cloudReset" \in ks

OneReset ==
  /\ "cloudInitPending" \in params =>
       ResetIn(running \cup fired \cup refused) /\ ~HoldsSocket /\ ~cloudInitialized
  /\ ~overtaken /\ ResetIn(running \cup strays \cup fired) =>
       /\ "cloudInitPending" \in params
       /\ ~ResetIn(strays) /\ ~(ResetIn(running) /\ ResetIn(fired))

Addressed ==
  /\ SocketHasAddress
  /\ cloudInitialized /\ "haveHostIp" \in params => hostIp

LEMMA InitLinked == CloudInit => Linked
BY DEF CloudInit, Init, Linked

(* reInit from a main loop that is not inside CLOUD_task.                   *)
LEMMA LinkedReInit == ASSUME Linked, ReInit, pc = "idle" PROVE Linked'
BY ReInitEffect DEF Linked

LEMMA LinkedStep == Linked /\ [CloudNext]_cloudVars => Linked'
<1>. SUFFICES ASSUME Linked, [CloudNext]_cloudVars PROVE Linked'
  OBVIOUS
<1>1. CASE UNCHANGED cloudVars
  BY <1>1 DEF Linked, cloudVars, vars, engineVars, netVars, linkVars
<1>2. CASE StartReset \/ AskHost
  BY <1>2 DEF StartReset, AskHost, Linked, vars, engineVars, netVars, linkVars
<1>3. CASE ResetStale
  BY <1>3, CloudResetEffect DEF ResetStale, Online, Linked, Idle, linkVars
<1>4. CASE CreateSocket
  BY <1>4 DEF CreateSocket, Online, Idle, Linked, vars, engineVars, netVars
<1>5. CASE ConnectSocket
  BY <1>5 DEF ConnectSocket, Idle, Linked, vars, engineVars, netVars
<1>6. CASE ConnectMqtt
  BY <1>6 DEF ConnectMqtt, CreateConnectPacket, Idle, Linked, netVars, linkVars
<1>7. CASE Receive
  <2>1. /\ \/ sock' = sock /\ ~TimedOut
           \/ sock' = FALSE /\ mqttState' = "DISCONNECTED"
        /\ mqttState' \in {mqttState, "CONNECTED", "DISCONNECTED"}
        /\ mqttState' = "CONNECTED" => mqttState \in {"WAITFORCONNACK", "CONNECTED"}
    BY <1>7, ReceptionEffect DEF Receive, NothingReceived, vars, engineVars, netVars
  <2>2. socketState = "SOCKET_CONNECTED" /\ pc' = "transmit" /\ SocketFollows /\ pc = "idle"
    BY <1>7 DEF Receive, Idle
  <2>3. orphan # "owed" /\ UNCHANGED orphan
    BY <2>2 DEF Linked, SocketFollows, linkVars
  <2>4. CASE TimedOut \/ (sock /\ ~sock')
    BY <2>1, <2>2, <2>3, <2>4 DEF SocketFollows, Linked
  <2>5. CASE ~(TimedOut \/ (sock /\ ~sock'))
    <3>1. UNCHANGED linkVars
      BY <2>2, <2>5 DEF SocketFollows
    <3>. QED BY <2>1, <2>2, <2>3, <2>5, <3>1 DEF Linked, linkVars
  <2>. QED BY <2>4, <2>5
<1>8. CASE Transmit
  BY <1>8, TransmissionEffect DEF Transmit, Linked, linkVars
<1>9. CASE Finish
  <2>1. sock' = sock /\ mqttState' = mqttState
    BY <1>9 DEF Finish, Subscribe, CreateRequestPacket, vars, engineVars, netVars
  <2>. QED BY <1>9, <2>1 DEF Finish, Linked
<1>10. CASE WifiTimeoutTask
  BY <1>10, ResetUnlessEffect, ResetUnlessStays DEF WifiTimeoutTask, Idle, Linked, linkVars
<1>11. CASE MqttTimeoutTask
  BY <1>11, ResetUnlessEffect, ResetUnlessStays DEF MqttTimeoutTask, Serve, Idle, Linked,
                                                    linkVars
<1>12. CASE ResetTask \/ WifiSetCommand
  BY <1>12, LinkedReInit DEF ResetTask, WifiSetCommand, Serve, Idle
<1>13. CASE CheckBackTask
  BY <1>13 DEF CheckBackTask, Linked, vars, engineVars, netVars, linkVars
<1>14. CASE MqttSched
  BY <1>14 DEF MqttSched, Sched, Linked, netVars, linkVars
<1>15. ASSUME NEW k \in Stoppable, TimeoutCallback(k) PROVE Linked'
  BY <1>15 DEF TimeoutCallback, Linked, vars, engineVars, netVars, linkVars
<1>16. CASE EngineTimer
  BY <1>16 DEF EngineTimer, TimerCallback, Linked, netVars, linkVars
<1>17. CASE ApJoined \/ ApLost \/ ApLeft \/ DhcpBound \/ HostResolved
  BY <1>17 DEF ApJoined, ApLost, ApLeft, Disconnected, DhcpBound, HostResolved, Linked, vars,
               engineVars, netVars, linkVars
<1>18. CASE SocketConnected
  BY <1>18 DEF SocketConnected, Idle, Linked, engineVars
<1>19. CASE ConnectFailed
  BY <1>19 DEF ConnectFailed, Idle, Linked, vars, engineVars, netVars
<1>20. CASE DataReceived
  BY <1>20 DEF DataReceived, GetReceivedData, Linked
<1>21. CASE ConnectionLost \/ BrokerCloses
  BY <1>21 DEF ConnectionLost, BrokerCloses, ConnectionGone, LoseSocket, CloseSocket,
               SocketFollows, Idle, Linked, engineVars
<1>22. CASE BrokerSends
  BY <1>22 DEF BrokerSends, BrokerPublish, Linked, engineVars, linkVars
<1>23. CASE Publish
  BY <1>23 DEF Publish, CreatePublishPacket, Linked, netVars, linkVars
<1>24. CASE ReconnectCommand
  BY <1>24 DEF ReconnectCommand, Disconnect, Idle, Linked, linkVars
<1>25. CASE OrphanAnswered
  BY <1>25 DEF OrphanAnswered, Idle, Linked, vars, engineVars, netVars
<1>. QED BY <1>1, <1>2, <1>3, <1>4, <1>5, <1>6, <1>7, <1>8, <1>9, <1>10, <1>11, <1>12,
            <1>13, <1>14, <1>15, <1>16, <1>17, <1>18, <1>19, <1>20, <1>21, <1>22, <1>23,
            <1>24, <1>25
         DEF CloudNext, CloudTask

LEMMA LinkedCorrect == CloudSpec => []Linked
BY InitLinked, LinkedStep, PTL DEF CloudSpec

-----------------------------------------------------------------------------
(***************************************************************************)
(* The service's steps as the engine sees them: the engine's own, with the *)
(* guards Spec asks for, or stutters.                                      *)
(***************************************************************************)
LEMMA ResetIsEngineStep ==
  ASSUME ~halted, CloudReset
  PROVE  [Next]_vars
BY DEF CloudReset, Next

LEMMA EngineStep == Linked /\ [CloudNext]_cloudVars => [Next]_vars
<1>. SUFFICES ASSUME Linked, CloudNext PROVE [Next]_vars
  BY DEF cloudVars, vars
<1>1. CASE StartReset \/ AskHost \/ CreateSocket \/ ConnectSocket
  BY <1>1 DEF StartReset, AskHost, CreateSocket, ConnectSocket
<1>2. CASE ResetStale
  BY <1>2, ResetIsEngineStep DEF ResetStale, Idle
<1>3. CASE ConnectMqtt
  BY <1>3 DEF ConnectMqtt, Idle, Next
<1>4. CASE Receive
  BY <1>4 DEF Receive, NothingReceived, Idle, Next
<1>5. CASE Transmit
  BY <1>5 DEF Transmit, NothingToSend, Next
<1>6. CASE Finish
  BY <1>6, SubscribeAssumption DEF Finish, Subscribe, Next
<1>7. CASE WifiTimeoutTask \/ MqttTimeoutTask
  BY <1>7, ResetIsEngineStep DEF WifiTimeoutTask, MqttTimeoutTask, ResetUnless, Serve, Idle
<1>8. CASE ResetTask \/ WifiSetCommand
  BY <1>8 DEF ResetTask, WifiSetCommand, ReInit, Serve, Idle, Next
<1>9. CASE CheckBackTask \/ ApJoined \/ ApLost \/ ApLeft \/ DhcpBound \/ HostResolved
             \/ ConnectFailed \/ OrphanAnswered
  BY <1>9 DEF CheckBackTask, ApJoined, ApLost, ApLeft, Disconnected, DhcpBound, HostResolved,
              ConnectFailed, OrphanAnswered
<1>10. CASE MqttSched \/ EngineTimer
  BY <1>10 DEF MqttSched, EngineTimer, Idle, Next
<1>11. ASSUME NEW k \in Stoppable, TimeoutCallback(k) PROVE [Next]_vars
  BY <1>11 DEF TimeoutCallback
<1>12. CASE SocketConnected
  <2>1. ~sock /\ mqttState # "CONNECTED"
    BY <1>12 DEF SocketConnected, Linked
  <2>. QED BY <1>12, <2>1 DEF SocketConnected, OpenSocket, Idle, Next
<1>13. CASE DataReceived \/ ConnectionLost \/ BrokerCloses \/ BrokerSends
  BY <1>13 DEF DataReceived, ConnectionLost, BrokerCloses, ConnectionGone, BrokerSends, Idle,
               Next
<1>14. CASE Publish \/ ReconnectCommand
  BY <1>14 DEF Publish, ReconnectCommand, Idle, Next
<1>. QED BY <1>1, <1>2, <1>3, <1>4, <1>5, <1>6, <1>7, <1>8, <1>9, <1>10, <1>11, <1>12,
            <1>13, <1>14
         DEF CloudNext, CloudTask

(* CLOUD_task, its timeouts and the WINC's events drive the engine by its   *)
(* rules only, so whatever MqttCoreProofs shows of the engine under its     *)
(* most general caller holds of it under the cloud service.                 *)
THEOREM ServiceImplementsEngine == CloudSpec => ImplementsEngine
<1>1. CloudInit => Init
  BY DEF CloudInit
<1>. QED BY <1>1, LinkedCorrect, EngineStep, PTL DEF CloudSpec, ImplementsEngine, Spec

-----------------------------------------------------------------------------
(***************************************************************************)
(* The reset: one at a time, asked for and run without a socket.           *)
(***************************************************************************)
LEMMA InitOneReset == CloudInit => OneReset
BY DEF CloudInit, OneReset, ResetIn

LEMMA OneResetStep == Linked /\ OneReset /\ [CloudNext]_cloudVars => OneReset'
<1>. SUFFICES ASSUME Linked, OneReset, [CloudNext]_cloudVars PROVE OneReset'
  OBVIOUS
<1>. USE DEF OneReset, ResetIn, HoldsSocket
<1>1. CASE UNCHANGED <<params, running, strays, fired, refused, overtaken, socketState, sock,
                       cloudInitialized>>
  BY <1>1
<1>2. CASE StartReset
  BY <1>2, StartEffect DEF StartReset, Start, Linked, Timeouts, vars, netVars, linkVars
<1>3. CASE ResetStale
  BY <1>3, CloudResetEffect DEF ResetStale, linkVars, taskVars, timerVars
<1>4. CASE CreateSocket
  BY <1>4 DEF CreateSocket, Online, serviceVars, taskVars, timerVars, vars, netVars
<1>5. CASE ConnectSocket
  BY <1>5 DEF ConnectSocket, taskVars, timerVars, vars, netVars
<1>6. CASE ConnectMqtt
  BY <1>6, StartEffect DEF ConnectMqtt, Start, CreateConnectPacket, Timeouts, linkVars, netVars
<1>7. CASE Receive
  <2>1. sock' => sock
    BY <1>7, ReceptionEffect DEF Receive, NothingReceived, vars, netVars
  <2>. QED BY <1>7, <2>1 DEF Receive, SocketFollows, linkVars, taskVars, timerVars
<1>8. CASE Transmit
  BY <1>1, <1>8, TransmissionEffect DEF Transmit, linkVars, serviceVars, taskVars, timerVars
<1>9. CASE Finish
  <2>1. mqttState = "CONNECTED" => "cloudInitPending" \notin params
    BY <1>9 DEF Finish, Linked
  <2>2. sock' = sock /\ UNCHANGED <<socketState, cloudInitialized>>
    BY <1>9 DEF Finish, Subscribe, CreateRequestPacket, vars, netVars
  <2>3. CASE mqttState = "CONNECTED"
    <3>1. "cloudInitPending" \notin params'
      BY <1>9, <2>1, <2>3 DEF Finish
    <3>2. /\ running' = running \ {"mqttTimeout", "cloudReset"}
          /\ UNCHANGED <<strays, fired>>
          /\ overtaken' = (overtaken /\ ResetIn(strays \cup fired))
      BY <1>9, <2>3 DEF Finish, Stop
    <3>. QED BY <2>1, <2>3, <3>1, <3>2
  <2>4. CASE mqttState # "CONNECTED"
    BY <1>9, <2>2, <2>4 DEF Finish, taskVars, timerVars
  <2>. QED BY <2>3, <2>4
<1>10. CASE WifiTimeoutTask
  BY <1>10, ResetUnlessEffect DEF WifiTimeoutTask, Elapse, linkVars
<1>11. CASE MqttTimeoutTask
  BY <1>11, ResetUnlessEffect DEF MqttTimeoutTask, Serve, linkVars, timerVars
<1>12. CASE ResetTask
  BY <1>12, ReInitEffect
     DEF ResetTask, Serve, Joins, JoinFails, Registered, Refused, Overwrite, timerVars
<1>13. CASE WifiSetCommand
  <2>1. "cloudInitPending" \notin params'
    BY <1>13 DEF WifiSetCommand, Joins, JoinFails
  <2>2. fired' = fired
    BY <1>13 DEF WifiSetCommand
  <2>3. overtaken' \/ ~ResetIn(running' \cup strays' \cup fired')
    BY <1>13, <2>2, StartEffect DEF WifiSetCommand, JoinFails, Timeouts, timerVars
  <2>. QED BY <2>1, <2>3
<1>14. CASE CheckBackTask
  BY <1>14 DEF CheckBackTask, Elapse, linkVars, vars, netVars
<1>15. ASSUME NEW k \in Stoppable, TimeoutCallback(k) PROVE OneReset'
  BY <1>15 DEF TimeoutCallback, Elapse, Stoppable, linkVars, serviceVars, vars, netVars
<1>16. CASE ApJoined \/ DhcpBound \/ HostResolved
  BY <1>16 DEF ApJoined, DhcpBound, HostResolved, linkVars, taskVars, timerVars, vars, netVars
<1>17. CASE ApLost \/ ApLeft
  <2>1. Start("checkBack") \/ StartAfterFailure("checkBack")
    BY <1>17 DEF ApLost, ApLeft
  <2>2. UNCHANGED <<fired, overtaken>>
    BY <1>17 DEF ApLost, ApLeft, Start
  <2>3. Disconnected
    BY <1>17 DEF ApLost, ApLeft
  <2>. QED BY <2>1, <2>2, <2>3, StartEffect DEF Disconnected, Timeouts, linkVars, vars, netVars
<1>18. CASE SocketConnected
  BY <1>18 DEF SocketConnected, serviceVars, taskVars, timerVars
<1>19. CASE OrphanAnswered
  BY <1>19 DEF OrphanAnswered, serviceVars, taskVars, timerVars, vars, netVars
<1>20. CASE ConnectFailed
  BY <1>20 DEF ConnectFailed, serviceVars, taskVars, timerVars, vars, netVars
<1>21. CASE ConnectionLost \/ BrokerCloses
  BY <1>21 DEF ConnectionLost, BrokerCloses, ConnectionGone, LoseSocket, CloseSocket,
               SocketFollows, linkVars, serviceVars, taskVars, timerVars
<1>22. CASE AskHost \/ UNCHANGED cloudVars
  BY <1>1, <1>22 DEF AskHost, cloudVars, linkVars, serviceVars, taskVars, timerVars, vars,
               netVars
<1>23. CASE MqttSched \/ EngineTimer \/ DataReceived \/ BrokerSends
  BY <1>1, <1>23 DEF MqttSched, Sched, EngineTimer, TimerCallback, DataReceived,
               GetReceivedData, BrokerSends, BrokerPublish, linkVars, serviceVars, taskVars,
               timerVars, netVars
<1>24. CASE Publish \/ ReconnectCommand
  BY <1>1, <1>24 DEF Publish, CreatePublishPacket, ReconnectCommand, Disconnect, linkVars,
               serviceVars, taskVars, timerVars, netVars
<1>. QED BY <1>2, <1>3, <1>4, <1>5, <1>6, <1>7, <1>8, <1>9, <1>10, <1>11, <1>12, <1>13,
            <1>14, <1>15, <1>16, <1>17, <1>18, <1>19, <1>20, <1>21, <1>22, <1>23, <1>24
         DEF CloudNext, CloudTask

(* While cloudInitPending keeps CLOUD_task from asking for a reset, the one *)
(* it stands for is on its way.                                             *)
THEOREM ResetScheduledCorrect == CloudSpec => []ResetScheduled
<1>1. OneReset => ResetScheduled
  BY DEF OneReset, ResetIn, ResetScheduled
<1>. QED BY <1>1, InitOneReset, OneResetStep, LinkedCorrect, PTL DEF CloudSpec

(* reInit runs only while there is no socket it could leak.                 *)
THEOREM ResetOnClosedSocketCorrect == CloudSpec => []ResetOnClosedSocket
<1>1. OneReset => ResetOnClosedSocket
  BY DEF OneReset, ResetIn, ResetOnClosedSocket
<1>. QED BY <1>1, InitOneReset, OneResetStep, LinkedCorrect, PTL DEF CloudSpec

-----------------------------------------------------------------------------
(***************************************************************************)
(* The host's address, the session's report and the types.                 *)
(***************************************************************************)
LEMMA AddressedStep == Linked /\ Addressed /\ [CloudNext]_cloudVars => Addressed'
<1>. SUFFICES ASSUME Linked, Addressed, [CloudNext]_cloudVars PROVE Addressed'
  OBVIOUS
<1>. USE DEF Addressed, SocketHasAddress
<1>1. CASE UNCHANGED <<params, socketState, cloudInitialized, hostIp>>
  BY <1>1
<1>2. CASE StartReset \/ ConnectSocket
  BY <1>2 DEF StartReset, ConnectSocket, linkVars
<1>3. CASE ResetStale
  BY <1>3, CloudResetEffect DEF ResetStale, linkVars
<1>4. CASE CreateSocket
  BY <1>4 DEF CreateSocket, Online, Have, serviceVars
<1>5. CASE Receive
  BY <1>5 DEF Receive, SocketFollows, linkVars
<1>6. CASE Finish
  BY <1>6 DEF Finish
<1>7. CASE WifiTimeoutTask
  BY <1>7, ResetUnlessEffect DEF WifiTimeoutTask, linkVars
<1>8. CASE MqttTimeoutTask
  BY <1>8, ResetUnlessEffect DEF MqttTimeoutTask, linkVars
<1>9. CASE ResetTask \/ WifiSetCommand
  BY <1>9, ReInitEffect DEF ResetTask, WifiSetCommand, Joins, JoinFails
<1>10. CASE CheckBackTask \/ ApJoined \/ ApLost \/ ApLeft \/ DhcpBound \/ HostResolved
  BY <1>10 DEF CheckBackTask, ApJoined, ApLost, ApLeft, Disconnected, DhcpBound, HostResolved,
               linkVars
<1>11. CASE SocketConnected \/ OrphanAnswered \/ ConnectFailed
  BY <1>11 DEF SocketConnected, OrphanAnswered, ConnectFailed, serviceVars
<1>12. CASE ConnectionLost \/ BrokerCloses
  BY <1>12 DEF ConnectionLost, BrokerCloses, ConnectionGone, SocketFollows, linkVars,
               serviceVars
<1>13. ASSUME NEW k \in Stoppable, TimeoutCallback(k) PROVE Addressed'
  BY <1>13 DEF TimeoutCallback, linkVars, serviceVars
<1>14. CASE AskHost \/ ConnectMqtt \/ Transmit \/ MqttSched \/ EngineTimer \/ DataReceived
              \/ BrokerSends \/ Publish \/ ReconnectCommand \/ UNCHANGED cloudVars
  BY <1>1, <1>14 DEF AskHost, ConnectMqtt, Transmit, MqttSched, EngineTimer, DataReceived,
               BrokerSends, Publish, ReconnectCommand, cloudVars, linkVars, serviceVars
<1>. QED BY <1>2, <1>3, <1>4, <1>5, <1>6, <1>7, <1>8, <1>9, <1>10, <1>11, <1>12, <1>13,
            <1>14
         DEF CloudNext, CloudTask

(* connectMQTTSocket never meets a socket without the address to connect it *)
(* to: no answer of DNS is lost between reInit and the next socket.         *)
THEOREM SocketHasAddressCorrect == CloudSpec => []SocketHasAddress
<1>1. CloudInit => Addressed
  BY DEF CloudInit, Addressed, SocketHasAddress
<1>2. Addressed => SocketHasAddress
  BY DEF Addressed
<1>. QED BY <1>1, <1>2, AddressedStep, LinkedCorrect, PTL DEF CloudSpec

LEMMA ReportedStep == SessionReported /\ [CloudNext]_cloudVars => SessionReported'
<1>. SUFFICES ASSUME SessionReported, [CloudNext]_cloudVars PROVE SessionReported'
  OBVIOUS
<1>. USE DEF SessionReported, vars, engineVars
<1>1. CASE UNCHANGED <<mqttState, pc, params>>
  BY <1>1
<1>2. CASE StartReset \/ AskHost \/ CreateSocket \/ ConnectSocket
  BY <1>2 DEF StartReset, AskHost, CreateSocket, ConnectSocket, serviceVars
<1>3. CASE ResetStale
  BY <1>3, CloudResetEffect DEF ResetStale
<1>4. CASE ConnectMqtt
  BY <1>4 DEF ConnectMqtt, CreateConnectPacket
<1>5. CASE Receive \/ Transmit
  BY <1>5 DEF Receive, Transmit
<1>6. CASE Finish
  <2>1. mqttState' = mqttState
    BY <1>6 DEF Finish, Subscribe, CreateRequestPacket
  <2>. QED BY <1>6, <2>1 DEF Finish
<1>7. CASE WifiTimeoutTask
  BY <1>7, ResetUnlessEffect DEF WifiTimeoutTask, Idle
<1>8. CASE MqttTimeoutTask
  BY <1>8, ResetUnlessEffect DEF MqttTimeoutTask, Serve, Idle
<1>9. CASE ResetTask \/ WifiSetCommand
  BY <1>9, ReInitEffect DEF ResetTask, WifiSetCommand
<1>10. CASE CheckBackTask \/ ApJoined \/ ApLost \/ ApLeft \/ DhcpBound \/ HostResolved
  BY <1>10 DEF CheckBackTask, ApJoined, ApLost, ApLeft, Disconnected, DhcpBound, HostResolved
<1>11. CASE SocketConnected \/ OrphanAnswered \/ ConnectFailed \/ DataReceived
  BY <1>1, <1>11 DEF SocketConnected, OrphanAnswered, ConnectFailed, DataReceived,
               GetReceivedData, serviceVars
<1>12. CASE ConnectionLost \/ BrokerCloses \/ BrokerSends
  BY <1>1, <1>12 DEF ConnectionLost, BrokerCloses, ConnectionGone, LoseSocket, BrokerSends,
               BrokerPublish, serviceVars
<1>13. CASE Publish
  BY <1>1, <1>13 DEF Publish, CreatePublishPacket, serviceVars
<1>14. CASE ReconnectCommand
  BY <1>14 DEF ReconnectCommand, Disconnect
<1>15. CASE MqttSched \/ EngineTimer
  BY <1>1, <1>15 DEF MqttSched, Sched, EngineTimer, TimerCallback, serviceVars
<1>16. ASSUME NEW k \in Stoppable, TimeoutCallback(k) PROVE SessionReported'
  BY <1>1, <1>16 DEF TimeoutCallback, serviceVars
<1>17. CASE UNCHANGED cloudVars
  BY <1>1, <1>17 DEF cloudVars, serviceVars
<1>. QED BY <1>2, <1>3, <1>4, <1>5, <1>6, <1>7, <1>8, <1>9, <1>10, <1>11, <1>12, <1>13,
            <1>14, <1>15, <1>16, <1>17
         DEF CloudNext, CloudTask

(* A session survives the MQTT timeout of the attempt that made it, and     *)
(* those of the attempts before.                                            *)
THEOREM SessionReportedCorrect == CloudSpec => []SessionReported
<1>1. CloudInit => SessionReported
  BY DEF CloudInit, Init, SessionReported
<1>. QED BY <1>1, ReportedStep, PTL DEF CloudSpec

-----------------------------------------------------------------------------
(* The types CloudTypeOK states, without what Linked says of the socket.    *)
ServiceTypes ==
  /\ params \subseteq ParamBits
  /\ socketState \in SocketStates /\ recvPending \in BOOLEAN
  /\ cloudInitialized \in BOOLEAN
  /\ hostIp \in BOOLEAN /\ resolving \in BOOLEAN /\ sendSubscribe \in BOOLEAN
  /\ running \subseteq Timeouts /\ strays \subseteq Timeouts /\ fired \subseteq Timeouts
  /\ wifi \in {"down", "joining", "up"} /\ failures \in 0..MaxFailures
  /\ orphan \in {"none", "owed", "taken"} /\ refused \subseteq Timeouts
  /\ overtaken \in BOOLEAN /\ leaving \in BOOLEAN

LEMMA FailType ==
  ASSUME failures \in 0..MaxFailures, NEW kind, Fail(kind)
  PROVE  failures' \in 0..MaxFailures
BY FailuresAssumption DEF Fail

LEMMA StartTypes ==
  ASSUME ServiceTypes, NEW k \in Timeouts, Start(k) \/ StartAfterFailure(k)
  PROVE  running' \subseteq Timeouts /\ strays' \subseteq Timeouts /\ refused' \subseteq Timeouts
BY StartEffect DEF ServiceTypes

LEMMA StartFailures ==
  ASSUME failures \in 0..MaxFailures, NEW k, Start(k)
  PROVE  failures' \in 0..MaxFailures
BY FailType DEF Start

LEMMA TypesStep == ServiceTypes /\ [CloudNext]_cloudVars => ServiceTypes'
<1>. SUFFICES ASSUME ServiceTypes, [CloudNext]_cloudVars PROVE ServiceTypes'
  OBVIOUS
<1>. USE DEF ServiceTypes, serviceVars, timerVars, taskVars, wifiVars, linkVars
<1>1. CASE StartReset
  <2>1. Start("cloudReset") /\ params' = params \cup {"cloudInitPending"}
    BY <1>1 DEF StartReset
  <2>2. "cloudReset" \in Timeouts /\ "cloudInitPending" \in ParamBits
    BY DEF Timeouts, ParamBits
  <2>. QED BY <1>1, <2>1, <2>2, StartTypes, StartFailures DEF StartReset, Start
<1>2. CASE AskHost
  BY <1>2 DEF AskHost
<1>3. CASE ResetStale
  BY <1>3, CloudResetEffect DEF ResetStale
<1>4. CASE CreateSocket
  BY <1>4 DEF CreateSocket, SocketStates
<1>5. CASE ConnectSocket
  BY <1>5, FailType DEF ConnectSocket, SocketStates, ParamBits
<1>6. CASE ConnectMqtt
  BY <1>6, StartTypes, StartFailures DEF ConnectMqtt, Start, Timeouts
<1>7. CASE Receive
  BY <1>7 DEF Receive, SocketFollows, SocketStates, ParamBits
<1>8. CASE Transmit
  BY <1>8 DEF Transmit
<1>9. CASE Finish
  <2>1. recvPending' \in BOOLEAN /\ sendSubscribe' \in BOOLEAN
    BY <1>9 DEF Finish, Subscribe
  <2>2. params' \subseteq ParamBits /\ running' \subseteq Timeouts
    BY <1>9 DEF Finish, Stop, ParamBits
  <2>. QED BY <1>9, <2>1, <2>2 DEF Finish, Stop
<1>10. CASE WifiTimeoutTask
  BY <1>10, ResetUnlessEffect DEF WifiTimeoutTask, Elapse
<1>11. CASE MqttTimeoutTask
  BY <1>11, ResetUnlessEffect DEF MqttTimeoutTask, Serve
<1>12. CASE ResetTask
  <2>1. failures' \in 0..MaxFailures /\ cloudInitialized' \in BOOLEAN
    BY <1>12, FailType DEF ResetTask
  <2>2. wifi' \in {"down", "joining", "up"} /\ params' \subseteq ParamBits
    BY <1>12 DEF ResetTask, Joins, JoinFails, ParamBits
  <2>3. /\ running' \subseteq Timeouts /\ strays' \subseteq Timeouts
        /\ refused' \subseteq Timeouts /\ fired' \subseteq Timeouts
    BY <1>12 DEF ResetTask, Serve, Registered, Refused, Overwrite, JoinFails, Timeouts
  <2>4. overtaken' \in BOOLEAN /\ leaving' = leaving /\ ReInit
    BY <1>12 DEF ResetTask
  <2>5. /\ orphan' \in {"none", "owed", "taken"} /\ socketState' \in SocketStates
        /\ recvPending' \in BOOLEAN /\ UNCHANGED <<hostIp, resolving, sendSubscribe>>
    BY <2>4, ReInitEffect DEF SocketStates
  <2>. QED BY <2>1, <2>2, <2>3, <2>4, <2>5
<1>13. CASE CheckBackTask
  BY <1>13 DEF CheckBackTask, Elapse, ParamBits
<1>14. ASSUME NEW k \in Stoppable, TimeoutCallback(k) PROVE ServiceTypes'
  <2>1. k \in Timeouts
    BY DEF Stoppable, Timeouts
  <2>. QED BY <1>14, <2>1 DEF TimeoutCallback, Elapse
<1>15. CASE ApJoined \/ DhcpBound
  BY <1>15 DEF ApJoined, DhcpBound, ParamBits
<1>16. CASE ApLost
  <2>1. failures' \in 0..MaxFailures
    BY <1>16, FailType DEF ApLost
  <2>. QED BY <1>16, <2>1, StartTypes DEF ApLost, Disconnected, ParamBits, Timeouts
<1>17. CASE HostResolved
  BY <1>17, FailType DEF HostResolved, ParamBits
<1>18. CASE SocketConnected
  BY <1>18 DEF SocketConnected, SocketStates
<1>19. CASE ConnectFailed
  BY <1>19, FailType DEF ConnectFailed, SocketStates
<1>20. CASE DataReceived
  BY <1>20 DEF DataReceived
<1>21. CASE ConnectionLost \/ BrokerCloses
  <2>1. failures' \in 0..MaxFailures
    BY <1>21, FailType DEF ConnectionLost, BrokerCloses
  <2>. QED BY <1>21, <2>1 DEF ConnectionLost, BrokerCloses, ConnectionGone, SocketFollows,
              SocketStates
<1>22. CASE ReconnectCommand
  BY <1>22, FailType DEF ReconnectCommand
<1>23. CASE MqttSched \/ EngineTimer \/ BrokerSends \/ Publish \/ UNCHANGED cloudVars
  BY <1>23 DEF MqttSched, EngineTimer, BrokerSends, Publish, cloudVars
<1>24. CASE ApLeft
  <2>1. "checkBack" \in Timeouts /\ "amDisconnecting" \in ParamBits
    BY DEF Timeouts, ParamBits
  <2>. QED BY <1>24, <2>1, StartTypes, StartFailures DEF ApLeft, Disconnected, Start
<1>25. CASE OrphanAnswered
  BY <1>25 DEF OrphanAnswered, SocketStates
<1>26. CASE WifiSetCommand
  <2>1. failures' \in 0..MaxFailures
    BY <1>26, FailType DEF WifiSetCommand
  <2>2. wifi' \in {"down", "joining", "up"} /\ params' \subseteq ParamBits
    BY <1>26 DEF WifiSetCommand, Joins, JoinFails, ParamBits
  <2>3. running' \subseteq Timeouts /\ strays' \subseteq Timeouts /\ refused' \subseteq Timeouts
    BY <1>26, StartTypes DEF WifiSetCommand, JoinFails, Timeouts
  <2>4. /\ overtaken' \in BOOLEAN /\ leaving' \in BOOLEAN /\ ReInit
        /\ fired' = fired /\ cloudInitialized' = cloudInitialized
    BY <1>26 DEF WifiSetCommand
  <2>5. /\ orphan' \in {"none", "owed", "taken"} /\ socketState' \in SocketStates
        /\ recvPending' \in BOOLEAN /\ UNCHANGED <<hostIp, resolving, sendSubscribe>>
    BY <2>4, ReInitEffect DEF SocketStates
  <2>. QED BY <2>1, <2>2, <2>3, <2>4, <2>5
<1>. QED BY <1>1, <1>2, <1>3, <1>4, <1>5, <1>6, <1>7, <1>8, <1>9, <1>10, <1>11, <1>12,
            <1>13, <1>14, <1>15, <1>16, <1>17, <1>18, <1>19, <1>20, <1>21, <1>22, <1>23,
            <1>24, <1>25, <1>26
         DEF CloudNext, CloudTask

(* Every variable of the service holds a value the code can store in it,    *)
(* and the socket's state follows the engine's connection.                  *)
THEOREM CloudTypeCorrect == CloudSpec => []CloudTypeOK
<1>1. CloudInit => ServiceTypes
  <2>1. ASSUME CloudInit PROVE failures \in 0..MaxFailures
    BY <2>1, FailuresAssumption DEF CloudInit
  <2>2. ASSUME CloudInit PROVE params \subseteq ParamBits
    BY <2>2 DEF CloudInit, ParamBits
  <2>. QED BY <2>1, <2>2 DEF CloudInit, ServiceTypes, SocketStates
<1>2. ServiceTypes /\ Linked => CloudTypeOK
  BY DEF ServiceTypes, Linked, CloudTypeOK
<1>. QED BY <1>1, <1>2, TypesStep, LinkedCorrect, PTL DEF CloudSpec

=============================================================================
