------------------------------- MODULE MqttCore -------------------------------
(***************************************************************************)
(* The MQTT client engine of mqtt_core.c and mqtt_comm_layer.c: its        *)
(* connection state, the transmission and reception flags, the list of     *)
(* PUBLISH packets, the packet waiting for its PUBACK, the receive buffer  *)
(* and the five SYS_TIME timeouts, under the most general caller: the      *)
(* handlers may be called, timers may fire, data may arrive and the socket *)
(* may close in any order.  CloudService.tla adds the main loop that calls *)
(* the handlers in the firmware's order.                                   *)
(*                                                                         *)
(* The far end is a conforming broker on one TCP connection at a time; it  *)
(* answers in order, or never, and several answers may arrive as one       *)
(* segment.                                                                *)
(***************************************************************************)
EXTENDS Integers, Sequences, FiniteSets

CONSTANTS
  Requests,     \* the request packets in use: "subscribe", "unsubscribe"
  Elapsing,     \* the timeouts that may elapse
  TimerSlots,   \* SYS_TIME timer objects left to the engine
  MaxPublish,   \* bound: PUBLISH packets created in a behaviour
  MaxWire       \* bound: broker packets in flight

ASSUME RequestsAssumption == Requests \subseteq {"subscribe", "unsubscribe"}
ASSUME ElapsingAssumption ==
         Elapsing \subseteq {"connack", "pingreq", "pingresp", "suback", "unsuback"}
ASSUME SlotsAssumption    == TimerSlots \in Nat
ASSUME BoundsAssumption   == MaxPublish \in Nat /\ MaxWire \in Nat

VARIABLES
  mqttState,    \* mqttCurrentState
  txFlags,      \* the bits set in mqttTxFlags
  rxFlags,      \* the bits set in mqttRxFlags
  publishList,  \* txPublishPacketHead and what its next pointers reach
  pending,      \* txPublishPacketPending
  rxbuff,       \* the packets in the RX exchange buffer, the next to read first
  occured,      \* the ...TimeoutOccured flags that are set
  expired,      \* the ...TmrExpired flags a timer interrupt has set
  timers,       \* the SYS_TIME objects of each timeout
  halted,       \* an assert() has failed
  sock,         \* the TCP connection is up
  broker,       \* the broker's side of this connection
  awaited,      \* history: answers outstanding to what this connection sent
  created,      \* history: PUBLISH packets created
  lastSent      \* history: number of the last PUBLISH put on a connection

engineVars == <<mqttState, txFlags, rxFlags, rxbuff, occured, expired, timers>>
listVars   == <<publishList, pending, created, lastSent>>
netVars    == <<sock, broker, awaited>>
vars       == <<engineVars, listVars, netVars, halted>>

-----------------------------------------------------------------------------
(* Data.                                                                    *)

States     == {"DISCONNECTED", "CONNECTING", "WAITFORCONNACK", "CONNECTED"}
TimerKinds == {"connack", "pingreq", "pingresp", "suback", "unsuback"}

(* The bits of newTxDataFlags this program sets, by their value: the        *)
(* transmission handler serves the lowest.  SENDDISCONNECT is never set.    *)
TxBit == [connect |-> 1, publish |-> 4, subscribe |-> 8, unsubscribe |-> 16,
          pingreq |-> 32]
TxKinds == DOMAIN TxBit

(* The answer to each request, which names its rx flag and its timeout.     *)
AckOf   == [subscribe |-> "suback", unsubscribe |-> "unsuback"]
RxKinds == {"suback", "unsuback", "pingresp", "puback"}

(* The timeouts whose occurrence closes the connection.                     *)
ResponseTimeouts == {"pingresp", "suback", "unsuback"}

(* A PUBLISH packet: its number in order of creation stands for its topic,  *)
(* payload and packet identifier.                                           *)
Packets  == [n : Nat, qos : {0, 1}]
NoPacket == [n |-> 0, qos |-> 0]

(* What the broker sends.  "val" is 1 for an accepting CONNACK, SUBACK or   *)
(* UNSUBACK and 0 for a refusing one, and the packet's number in a PUBACK.  *)
RxTypes   == RxKinds \cup {"connack", "publish"}
RxPackets == [type : RxTypes, val : Nat]
Rx(type, val) == [type |-> type, val |-> val]

-----------------------------------------------------------------------------
(* SYS_TIME objects.  Each timeout has one handle variable; registering a   *)
(* timer overwrites it, so an object still running behind the old value is  *)
(* a stray that nobody can stop.                                            *)

NoTimer == [handle |-> "none", stray |-> 0]

InUse(t, k) == t[k].stray + (IF t[k].handle = "live" THEN 1 ELSE 0)

LiveTimers(t) == InUse(t, "connack") + InUse(t, "pingreq") + InUse(t, "pingresp")
                 + InUse(t, "suback") + InUse(t, "unsuback")

(* SYS_TIME_CallbackRegisterMS: the handle is SYS_TIME_HANDLE_INVALID when  *)
(* the pool has no object left.                                             *)
Register(t, k) ==
  [t EXCEPT ![k] = [handle |-> IF LiveTimers(t) < TimerSlots THEN "live" ELSE "failed",
                    stray  |-> InUse(t, k)]]

(* stopDestroyTimer: it gets the handle by value; one that has fired is     *)
(* stale and SYS_TIME ignores it.                                           *)
StopDestroy(t, k) ==
  [t EXCEPT ![k].handle = IF @ = "live" THEN "none" ELSE @]

Restart(t, k) == Register(StopDestroy(t, k), k)

-----------------------------------------------------------------------------
(* The broker.  It serves one session per TCP connection: the first CONNECT *)
(* opens it, a second CONNECT or a DISCONNECT ends it, and what arrives     *)
(* outside a session is not answered.                                       *)

NoBroker == [session |-> "none", wire |-> <<>>]

Answer(b, p) ==
  IF b.session = "active" /\ Len(b.wire) < MaxWire
    THEN [b EXCEPT !.wire = Append(@, p)] ELSE b

(* A CONNECT is accepted or refused.                                        *)
AnswerConnect(b, val) ==
  IF b.session = "none"
    THEN [session |-> IF val = 1 THEN "active" ELSE "over",
          wire    |-> Append(b.wire, Rx("connack", val))]
    ELSE [b EXCEPT !.session = "over"]

(* BSD_close or the loss of the connection: what was in flight is lost.     *)
CloseSocket ==
  /\ sock' = FALSE
  /\ broker' = NoBroker
  /\ awaited' = {}

-----------------------------------------------------------------------------
(* Calls that create packets.                                               *)

(* MQTT_CreateConnectPacket.  Only the flags are cleared: the list, the     *)
(* pending packet, the rx flags and the timeouts stay.  connectMQTT calls   *)
(* it between sessions; the model allows it in any state.  (dps_retry_task  *)
(* would call it in a session, but never gets there: SysTime,               *)
(* CallbackDelayHangs.)                                                     *)
CreateConnectPacket ==
  /\ mqttState' = "CONNECTING"
  /\ txFlags' = {"connect"}
  /\ UNCHANGED <<rxFlags, rxbuff, occured, expired, timers, listVars, netVars, halted>>

(* MQTT_AddPublishPacketToList on a packet MQTT_CreatePublishPacket made.   *)
AddPublishPacket(qos) ==
  /\ created < MaxPublish
  /\ created' = created + 1
  /\ publishList' = Append(publishList, [n |-> created + 1, qos |-> qos])
  /\ UNCHANGED <<pending, lastSent>>

(* MQTT_CreatePublishPacket; a failing malloc() changes nothing.            *)
CreatePublishPacket(qos) ==
  /\ mqttState = "CONNECTED"
  /\ AddPublishPacket(qos)
  /\ txFlags' = txFlags \cup {"publish"}
  /\ UNCHANGED <<mqttState, rxFlags, rxbuff, occured, expired, timers, netVars, halted>>

(* Fault: the outstanding acknowledgement is not looked at.                 *)
CreateRequestUnchecked(r) ==
  /\ mqttState = "CONNECTED"
  /\ txFlags' = txFlags \cup {r}
  /\ UNCHANGED <<mqttState, rxFlags, rxbuff, occured, expired, timers, listVars,
                 netVars, halted>>

(* MQTT_CreateSubscribePacket and MQTT_CreateUnsubscribePacket.             *)
CreateRequestPacket(r) ==
  /\ mqttState = "CONNECTED"
  /\ AckOf[r] \notin rxFlags
  /\ txFlags' = txFlags \cup {r}
  /\ UNCHANGED <<mqttState, rxFlags, rxbuff, occured, expired, timers, listVars,
                 netVars, halted>>

-----------------------------------------------------------------------------
(* MQTT_TransmissionHandler.  "ok" is MQTT_Send's result, which can be true *)
(* only on a connected socket and may be false on one (no buffer left).     *)

Selected(f) == f \in txFlags /\ \A g \in txFlags : TxBit[f] <= TxBit[g]

(* Fault: the CONNECT flag is not cleared after the send.                   *)
SendConnectKeepsFlag(ok) ==
  /\ mqttState \in {"CONNECTING", "DISCONNECTED"} /\ "connect" \in txFlags /\ ok
  /\ rxbuff' = <<>>
  /\ mqttState' = "WAITFORCONNACK"
  /\ timers' = Register(timers, "connack")
  /\ \E val \in {0, 1} : broker' = AnswerConnect(broker, val)
  /\ UNCHANGED <<txFlags, occured, rxFlags, expired, listVars, sock, awaited, halted>>

SendConnect(ok) ==
  /\ mqttState \in {"CONNECTING", "DISCONNECTED"}
  /\ "connect" \in txFlags
  /\ rxbuff' = <<>>
  /\ IF ok
       THEN /\ mqttState' = "WAITFORCONNACK"
            /\ txFlags' = txFlags \ {"connect"}
            /\ occured' = occured \ {"connack"}
            /\ timers' = Register(timers, "connack")
            /\ \E val \in {0, 1} : broker' = AnswerConnect(broker, val)
       ELSE UNCHANGED <<mqttState, txFlags, occured, timers, broker>>
  /\ UNCHANGED <<rxFlags, expired, listVars, sock, awaited, halted>>

(* Fault: the packet waiting for its PUBACK is not looked at.               *)
PublishTurnUnchecked == mqttState = "CONNECTED" /\ Selected("publish")

(* While a QoS 1 packet waits for its PUBACK nothing is published.          *)
PublishTurn == mqttState = "CONNECTED" /\ Selected("publish") /\ pending = NoPacket

(* mqttSendPublish found no packet: assert(false).                          *)
AssertPublishFound ==
  /\ PublishTurn
  /\ publishList = <<>>
  /\ halted' = TRUE
  /\ UNCHANGED <<engineVars, listVars, netVars>>

(* The packet leaves the list whether or not it could be sent; the flag is  *)
(* cleared when the list is empty and the send succeeded.                   *)
SendPublish(ok) ==
  /\ PublishTurn
  /\ publishList # <<>>
  /\ LET packet == Head(publishList)
         acked  == ok /\ packet.qos = 1
     IN /\ publishList' = Tail(publishList)
        /\ txFlags' = IF ok /\ Tail(publishList) = <<>> THEN txFlags \ {"publish"}
                                                        ELSE txFlags
        /\ pending' = IF acked THEN packet ELSE NoPacket
        /\ rxFlags' = IF acked THEN rxFlags \cup {"puback"} ELSE rxFlags
        /\ awaited' = IF acked THEN awaited \cup {"puback"} ELSE awaited
        /\ lastSent' = IF ok THEN packet.n ELSE lastSent
        /\ broker' = IF acked THEN Answer(broker, Rx("puback", packet.n)) ELSE broker
  /\ rxbuff' = <<>>
  /\ timers' = Restart(timers, "pingreq")
  /\ UNCHANGED <<mqttState, occured, expired, created, sock, halted>>

(* mqttSendSubscribe and mqttSendUnsubscribe.                               *)
SendRequest(r, ok) ==
  /\ mqttState = "CONNECTED" /\ Selected(r)
  /\ rxbuff' = <<>>
  /\ IF ok
       THEN /\ txFlags' = txFlags \ {r}
            /\ rxFlags' = rxFlags \cup {AckOf[r]}
            /\ occured' = occured \ {AckOf[r]}
            /\ timers' = Register(Register(StopDestroy(timers, "pingreq"), AckOf[r]),
                                  "pingreq")
            /\ awaited' = awaited \cup {AckOf[r]}
            /\ \E val \in {0, 1} : broker' = Answer(broker, Rx(AckOf[r], val))
       ELSE /\ timers' = Restart(timers, "pingreq")
            /\ UNCHANGED <<txFlags, rxFlags, occured, awaited, broker>>
  /\ UNCHANGED <<mqttState, expired, listVars, sock, halted>>

(* mqttSendPingreq.  The PINGRESP timer is periodic, and a failed send has  *)
(* used up the keep-alive timeout.                                          *)
SendPingreq(ok) ==
  /\ mqttState = "CONNECTED" /\ Selected("pingreq")
  /\ "pingreq" \in occured
  /\ occured' = occured \ {"pingreq"}
  /\ rxbuff' = <<>>
  /\ IF ok
       THEN /\ txFlags' = txFlags \ {"pingreq"}
            /\ rxFlags' = rxFlags \cup {"pingresp"}
            /\ timers' = Register(timers, "pingresp")
            /\ awaited' = awaited \cup {"pingresp"}
            /\ broker' = Answer(broker, Rx("pingresp", 0))
       ELSE UNCHANGED <<txFlags, rxFlags, timers, awaited, broker>>
  /\ UNCHANGED <<mqttState, expired, listVars, sock, halted>>

TransmissionHandler ==
  \E ok \in BOOLEAN :
    /\ ok => sock
    /\ \/ SendConnect(ok)
       \/ SendPublish(ok)
       \/ \E r \in Requests : SendRequest(r, ok)
       \/ SendPingreq(ok)

-----------------------------------------------------------------------------
(* MQTT_Disconnect, called by CLOUD_disconnect and the "reconnect" command. *)
(* The socket stays open.                                                   *)

Disconnect ==
  /\ mqttState \in {"CONNECTED", "WAITFORCONNACK"}
  /\ mqttState' = "DISCONNECTED"
  /\ rxbuff' = <<>>
  /\ timers' = StopDestroy(timers, "pingreq")
  /\ \E ok \in BOOLEAN :
       /\ ok => sock
       /\ txFlags' = IF ok THEN {} ELSE txFlags
       /\ broker' = IF ok THEN [broker EXCEPT !.session = "over"] ELSE broker
  /\ UNCHANGED <<rxFlags, occured, expired, listVars, sock, awaited, halted>>

-----------------------------------------------------------------------------
(* MQTT_ReceptionHandler.                                                   *)

TimedOut == occured \cap ResponseTimeouts # {}

Received == rxbuff # <<>> /\ ~TimedOut

(* A response timeout ends the connection, whatever the state; the handler  *)
(* then finds the state DISCONNECTED and processes nothing.                 *)
TimeoutClose ==
  /\ TimedOut
  /\ mqttState' = "DISCONNECTED"
  /\ CloseSocket
  /\ UNCHANGED <<txFlags, rxFlags, rxbuff, occured, expired, timers, listVars, halted>>

(* mqttProcessConnack reads the four bytes of the CONNACK and no more.      *)
ReceiveConnack ==
  /\ mqttState = "WAITFORCONNACK" /\ Received
  /\ "connack" \notin occured
  /\ Head(rxbuff).type = "connack"
  /\ rxbuff' = Tail(rxbuff)
  /\ IF Head(rxbuff).val = 1
       THEN /\ mqttState' = "CONNECTED"
            /\ txFlags' = txFlags \cup {"pingreq"}
            /\ timers' = Register(StopDestroy(timers, "connack"), "pingreq")
       ELSE /\ mqttState' = "DISCONNECTED"
            /\ timers' = StopDestroy(timers, "connack")
            /\ UNCHANGED txFlags
  /\ UNCHANGED <<rxFlags, occured, expired, listVars, netVars, halted>>

(* Anything else while waiting, or anything after the CONNACK timeout.      *)
RefuseConnack ==
  /\ mqttState = "WAITFORCONNACK" /\ Received
  /\ "connack" \in occured \/ Head(rxbuff).type # "connack"
  /\ mqttState' = "DISCONNECTED"
  /\ timers' = IF "connack" \in occured THEN timers ELSE StopDestroy(timers, "connack")
  /\ CloseSocket
  /\ UNCHANGED <<txFlags, rxFlags, rxbuff, occured, expired, listVars, halted>>

(* Fault: no next PINGREQ is readied.                                       *)
ReceivePingrespOnly ==
  /\ mqttState = "CONNECTED" /\ Received
  /\ Head(rxbuff).type = "pingresp" /\ "pingresp" \in rxFlags
  /\ rxbuff' = <<>>
  /\ timers' = StopDestroy(timers, "pingresp")
  /\ awaited' = awaited \ {"pingresp"}
  /\ UNCHANGED <<mqttState, txFlags, rxFlags, occured, expired, listVars, sock, broker,
                 halted>>

(* mqttProcessPingresp: the rx flag stays set.                              *)
ReceivePingresp ==
  /\ mqttState = "CONNECTED" /\ Received
  /\ Head(rxbuff).type = "pingresp" /\ "pingresp" \in rxFlags
  /\ rxbuff' = <<>>
  /\ txFlags' = txFlags \cup {"pingreq"}
  /\ timers' = StopDestroy(timers, "pingresp")
  /\ awaited' = awaited \ {"pingresp"}
  /\ UNCHANGED <<mqttState, rxFlags, occured, expired, listVars, sock, broker, halted>>

(* What mqttProcessSuback and mqttProcessUnsuback share.                    *)
ConsumeAck(ack) ==
  /\ mqttState = "CONNECTED" /\ Received
  /\ Head(rxbuff).type = ack /\ ack \in rxFlags
  /\ rxbuff' = <<>>
  /\ rxFlags' = rxFlags \ {ack}
  /\ timers' = StopDestroy(timers, ack)
  /\ awaited' = awaited \ {ack}
  /\ UNCHANGED <<occured, expired, sock, broker, halted>>

(* A granted SUBSCRIBE calls MQTT_CLIENT_connected, which may queue the     *)
(* QoS 0 twin request.                                                      *)
ReceiveSuback ==
  /\ ConsumeAck("suback")
  /\ \/ /\ Head(rxbuff).val = 1
        /\ mqttState' = mqttState
        /\ \/ AddPublishPacket(0) /\ txFlags' = txFlags \cup {"publish"}
           \/ UNCHANGED <<listVars, txFlags>>
     \/ /\ Head(rxbuff).val = 0
        /\ mqttState' = "DISCONNECTED"
        /\ UNCHANGED <<listVars, txFlags>>

ReceiveUnsuback ==
  /\ ConsumeAck("unsuback")
  /\ mqttState' = IF Head(rxbuff).val = 1 THEN "CONNECTED" ELSE "DISCONNECTED"
  /\ UNCHANGED <<listVars, txFlags>>

(* mqttProcessPublish hands the data to the subscriber's callback, which    *)
(* may do nothing, publish an answer, or (an assignment from the            *)
(* provisioning service) disconnect.                                        *)
ReceivePublish ==
  /\ mqttState = "CONNECTED" /\ Received
  /\ Head(rxbuff).type = "publish"
  /\ \/ Disconnect
     \/ /\ rxbuff' = <<>>
        /\ \/ UNCHANGED <<listVars, txFlags>>
           \/ \E qos \in {0, 1} : AddPublishPacket(qos) /\ txFlags' = txFlags \cup {"publish"}
        /\ UNCHANGED <<mqttState, rxFlags, occured, expired, timers, netVars, halted>>

(* Fault: the packet is freed but its PUBACK still awaited.                 *)
ReceivePubackKeepsFlag ==
  /\ mqttState = "CONNECTED" /\ Received /\ Head(rxbuff).type = "puback"
  /\ pending # NoPacket /\ pending.n = Head(rxbuff).val
  /\ rxbuff' = Tail(rxbuff)
  /\ pending' = NoPacket
  /\ awaited' = awaited \ {"puback"}
  /\ UNCHANGED <<mqttState, txFlags, rxFlags, occured, expired, timers, publishList,
                 created, lastSent, sock, broker, halted>>

(* mqttProcessPuback reads the packet and leaves what follows it.           *)
ReceivePuback ==
  /\ mqttState = "CONNECTED" /\ Received
  /\ Head(rxbuff).type = "puback"
  /\ rxbuff' = Tail(rxbuff)
  /\ IF pending # NoPacket /\ pending.n = Head(rxbuff).val
       THEN /\ pending' = NoPacket
            /\ rxFlags' = rxFlags \ {"puback"}
            /\ awaited' = awaited \ {"puback"}
       ELSE UNCHANGED <<pending, rxFlags, awaited>>
  /\ UNCHANGED <<mqttState, txFlags, occured, expired, timers, publishList, created,
                 lastSent, sock, broker, halted>>

ReceptionHandler ==
  \/ TimeoutClose
  \/ ReceiveConnack
  \/ RefuseConnack
  \/ ReceivePingresp
  \/ ReceiveSuback
  \/ ReceiveUnsuback
  \/ ReceivePublish
  \/ ReceivePuback

-----------------------------------------------------------------------------
(* Timer interrupts and MQTT_sched.                                         *)

(* Fault: an object is freed that does not run.                             *)
TimerCallbackFreesTwice(k) ==
  /\ expired' = expired \cup {k}
  /\ timers' = [timers EXCEPT ![k].stray = @ - 1]
  /\ UNCHANGED <<mqttState, txFlags, rxFlags, rxbuff, occured, listVars, netVars, halted>>

(* A SYS_TIME callback of timeout k: the object behind the handle, or a     *)
(* stray one.  A single-shot object is freed, the PINGRESP one runs on.     *)
TimerCallback(k) ==
  /\ expired' = expired \cup {k}
  /\ \/ /\ timers[k].handle = "live"
        /\ timers' = IF k = "pingresp" THEN timers ELSE [timers EXCEPT ![k].handle = "none"]
     \/ /\ timers[k].stray > 0
        /\ timers' = IF k = "pingresp" THEN timers
                                       ELSE [timers EXCEPT ![k].stray = @ - 1]
  /\ UNCHANGED <<mqttState, txFlags, rxFlags, rxbuff, occured, listVars, netVars, halted>>

(* Fault: the keep-alive timeout registers no next object.                  *)
SchedOneKeepAlive ==
  /\ expired # {}
  /\ expired' = {}
  /\ occured' = occured \cup expired
  /\ UNCHANGED <<timers, mqttState, txFlags, rxFlags, rxbuff, listVars, netVars, halted>>

(* Fault: the SUBACK timeout is acknowledged and not marked.                *)
SchedMissesSuback ==
  /\ expired # {}
  /\ expired' = {}
  /\ occured' = occured \cup (expired \ {"suback"})
  /\ timers' = IF "pingreq" \in expired THEN Register(timers, "pingreq") ELSE timers
  /\ UNCHANGED <<mqttState, txFlags, rxFlags, rxbuff, listVars, netVars, halted>>

(* MQTT_sched marks what has expired; the keep-alive timeout registers its  *)
(* next object without looking at the one the handle names.                 *)
Sched ==
  /\ expired # {}
  /\ expired' = {}
  /\ occured' = occured \cup expired
  /\ timers' = IF "pingreq" \in expired THEN Register(timers, "pingreq") ELSE timers
  /\ UNCHANGED <<mqttState, txFlags, rxFlags, rxbuff, listVars, netVars, halted>>

-----------------------------------------------------------------------------
(* The socket layer and the network.                                        *)

(* A TCP connection for the engine is up.  CLOUD_task opens none while the  *)
(* engine believes itself connected.                                        *)
OpenSocket ==
  /\ ~sock /\ mqttState # "CONNECTED"
  /\ sock' = TRUE
  /\ UNCHANGED <<engineVars, listVars, broker, awaited, halted>>

(* BSD_SocketHandler is told of an error or of the peer's close.            *)
LoseSocket ==
  /\ sock
  /\ CloseSocket
  /\ UNCHANGED <<engineVars, listVars, halted>>

(* MQTT_GetReceivedData: one segment of the broker's stream replaces what   *)
(* the buffer held.                                                         *)
GetReceivedData ==
  /\ sock
  /\ \E n \in 1..Len(broker.wire) :
       /\ rxbuff' = SubSeq(broker.wire, 1, n)
       /\ broker' = [broker EXCEPT !.wire = SubSeq(@, n + 1, Len(@))]
  /\ UNCHANGED <<mqttState, txFlags, rxFlags, occured, expired, timers, listVars, sock,
                 awaited, halted>>

BrokerPublish ==
  /\ broker.session = "active" /\ Len(broker.wire) < MaxWire
  /\ broker' = Answer(broker, Rx("publish", 0))
  /\ UNCHANGED <<engineVars, listVars, sock, awaited, halted>>

(* MQTT_ClientInitialize, after reInit() has taken the socket layer down.   *)
ClientInitialize ==
  /\ mqttState' = "DISCONNECTED"
  /\ rxbuff' = <<>>
  /\ CloseSocket
  /\ UNCHANGED <<txFlags, rxFlags, occured, expired, timers, listVars, halted>>

-----------------------------------------------------------------------------
Init ==
  /\ mqttState = "DISCONNECTED"
  /\ txFlags = {} /\ rxFlags = {}
  /\ publishList = <<>> /\ pending = NoPacket
  /\ rxbuff = <<>>
  /\ occured = {} /\ expired = {}
  /\ timers = [k \in TimerKinds |-> NoTimer]
  /\ halted = FALSE
  /\ sock = FALSE /\ broker = NoBroker /\ awaited = {}
  /\ created = 0 /\ lastSent = 0

Next ==
  /\ ~halted
  /\ \/ CreateConnectPacket
     \/ \E qos \in {0, 1} : CreatePublishPacket(qos)
     \/ \E r \in Requests : CreateRequestPacket(r)
     \/ TransmissionHandler
     \/ AssertPublishFound
     \/ ReceptionHandler
     \/ Disconnect
     \/ \E k \in Elapsing : TimerCallback(k)
     \/ Sched
     \/ OpenSocket
     \/ LoseSocket
     \/ GetReceivedData
     \/ BrokerPublish
     \/ ClientInitialize

Spec == Init /\ [][Next]_vars

-----------------------------------------------------------------------------
(* Properties.                                                              *)

TimerState == [handle : {"none", "live", "failed"}, stray : Nat]

(* Every variable holds a value the code can store in it.                   *)
TypeOK ==
  /\ mqttState \in States
  /\ txFlags \subseteq TxKinds /\ rxFlags \subseteq RxKinds
  /\ publishList \in Seq(Packets) /\ pending \in Packets
  /\ rxbuff \in Seq(RxPackets)
  /\ occured \subseteq TimerKinds /\ expired \subseteq TimerKinds
  /\ timers \in [TimerKinds -> TimerState]
  /\ halted \in BOOLEAN /\ sock \in BOOLEAN
  /\ broker \in [session : {"none", "active", "over"}, wire : Seq(RxPackets)]
  /\ awaited \subseteq RxKinds
  /\ created \in Nat /\ lastSent \in Nat

(* The engine waits for a PUBACK exactly while it holds the QoS 1 packet it *)
(* is for: no PUBACK flag without a packet to free, no packet kept without  *)
(* one to wait for (mqttSendPublish, mqttProcessPuback).                    *)
PubackHasPacket ==
  /\ "puback" \in rxFlags <=> pending # NoPacket
  /\ pending # NoPacket => pending.qos = 1

(* One SUBSCRIBE (UNSUBSCRIBE) at a time: none is queued while the previous *)
(* one's acknowledgement is outstanding, so an acknowledgement is always    *)
(* compared with the packet it answers.                                     *)
OneRequestAtATime == \A r \in Requests : ~(r \in txFlags /\ AckOf[r] \in rxFlags)

(* The timeout k will still occur: an object runs or its interrupt has not  *)
(* been served.  "failed" is the pool's refusal, which the code only logs.  *)
Running(k) ==
  \/ timers[k].handle \in {"live", "failed"}
  \/ timers[k].stray > 0
  \/ k \in expired

Armed(k) == Running(k) \/ k \in occured

(* The engine never waits for a CONNACK or for the answer to a request      *)
(* without a timeout, whatever flags were cleared and timers stopped or     *)
(* lost since the wait began (MQTT_TransmissionHandler, mqttSendSubscribe,  *)
(* mqttSendUnsubscribe, MQTT_sched).                                        *)
WaitsAreTimed ==
  /\ mqttState = "WAITFORCONNACK" => Armed("connack")
  /\ \A r \in Requests : AckOf[r] \in rxFlags => Armed(AckOf[r])

(* A connected engine keeps the connection alive: the next keep-alive       *)
(* timeout is always on its way, across every stop and restart of its timer *)
(* by a send, an interrupt or a reconnection.                               *)
KeepAliveArmed == mqttState = "CONNECTED" => Running("pingreq")

(* On a live connection the keep-alive exchange is never lost between two   *)
(* steps: a PINGREQ stands ready for the next keep-alive timeout, or the    *)
(* PINGRESP to the last one is still owed and its timeout will be noticed.  *)
LinkSupervised ==
  mqttState = "CONNECTED" /\ sock =>
    "pingreq" \in txFlags \/ ("pingresp" \in awaited /\ Armed("pingresp"))

(* A CONNECT is never queued behind a live session, where the transmission  *)
(* handler would block every other packet on its flag, nor while the answer *)
(* to the last one is awaited.                                              *)
ConnectNotQueued == mqttState \in {"CONNECTED", "WAITFORCONNACK"} => "connect" \notin txFlags

(* The engine implements PublishChannel: whatever connections come and go,  *)
(* and whichever sends fail, PUBLISH packets leave in the order of their    *)
(* creation, at most once each, and one at a time while a PUBACK is owed    *)
(* (MQTT_AddPublishPacketToList, mqttSendPublish, mqttProcessPuback).       *)
Channel == INSTANCE PublishChannel
             WITH accepted <- created, sent <- lastSent, inflight <- pending.n

ImplementsPublishChannel == Channel!Spec

(* The assertion of mqttSendPublish: the PUBLISH flag is never set on an    *)
(* empty list when the handler takes a packet.                              *)
AssertHolds == ~halted

(* A response timeout that is about to close a connection is about an       *)
(* answer this connection still owes.                                       *)
TimeoutMeansUnanswered == sock => occured \cap ResponseTimeouts \subseteq awaited

=============================================================================
