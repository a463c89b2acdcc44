---------------------------- MODULE MqttCoreProofs ----------------------------
(***************************************************************************)
(* Proofs about MqttCore, for every value of its constants: any number of  *)
(* PUBLISH packets, any pool of timers, any subset of elapsing timeouts.   *)
(***************************************************************************)
EXTENDS MqttCore, SequenceTheorems, TLAPS

Timers == [TimerKinds -> TimerState]

(***************************************************************************)
(* What the timer operators do to a table of timers: they touch only the   *)
(* timeout they are called for, and a registered timeout has a handle.     *)
(***************************************************************************)
LEMMA InUseNat ==
  ASSUME NEW t \in Timers, NEW k \in TimerKinds
  PROVE  InUse(t, k) \in Nat
BY DEF Timers, TimerState, InUse

LEMMA RegisterEffect ==
  ASSUME NEW t \in Timers, NEW k \in TimerKinds
  PROVE  /\ Register(t, k) \in Timers
         /\ Register(t, k)[k].handle \in {"live", "failed"}
         /\ \A j \in TimerKinds \ {k} : Register(t, k)[j] = t[j]
<1>1. InUse(t, k) \in Nat
  BY InUseNat
<1>. DEFINE h == IF LiveTimers(t) < TimerSlots THEN "live" ELSE "failed"
<1>2. h \in {"live", "failed"}
  OBVIOUS
<1>3. Register(t, k) = [t EXCEPT ![k] = [handle |-> h, stray |-> InUse(t, k)]]
  BY DEF Register
<1>. HIDE DEF h
<1>. QED BY <1>1, <1>2, <1>3 DEF Timers, TimerState

LEMMA StopDestroyEffect ==
  ASSUME NEW t \in Timers, NEW k \in TimerKinds
  PROVE  /\ StopDestroy(t, k) \in Timers
         /\ StopDestroy(t, k)[k].stray = t[k].stray
         /\ \A j \in TimerKinds \ {k} : StopDestroy(t, k)[j] = t[j]
BY DEF Timers, TimerState, StopDestroy

LEMMA RestartEffect ==
  ASSUME NEW t \in Timers, NEW k \in TimerKinds
  PROVE  /\ Restart(t, k) \in Timers
         /\ Restart(t, k)[k].handle \in {"live", "failed"}
         /\ \A j \in TimerKinds \ {k} : Restart(t, k)[j] = t[j]
BY StopDestroyEffect, RegisterEffect DEF Restart

(***************************************************************************)
(* The broker's answers keep its state well formed.                        *)
(***************************************************************************)
Brokers == [session : {"none", "active", "over"}, wire : Seq(RxPackets)]

LEMMA AnswerType ==
  ASSUME NEW b \in Brokers, NEW p \in RxPackets
  PROVE  Answer(b, p) \in Brokers
BY DEF Brokers, Answer

LEMMA AnswerConnectType ==
  ASSUME NEW b \in Brokers, NEW val \in {0, 1}
  PROVE  AnswerConnect(b, val) \in Brokers
<1>1. Rx("connack", val) \in RxPackets
  BY DEF Rx, RxPackets, RxTypes
<1>2. Append(b.wire, Rx("connack", val)) \in Seq(RxPackets)
  BY <1>1 DEF Brokers
<1>. QED BY <1>2 DEF Brokers, AnswerConnect

(***************************************************************************)
(* Type correctness.                                                       *)
(***************************************************************************)
LEMMA InitType == Init => TypeOK
<1>. SUFFICES ASSUME Init PROVE TypeOK
  OBVIOUS
<1>1. publishList \in Seq(Packets) /\ rxbuff \in Seq(RxPackets)
  BY EmptySeq DEF Init
<1>2. broker \in Brokers
  BY EmptySeq DEF Init, NoBroker, Brokers
<1>3. timers \in Timers
  BY DEF Init, Timers, TimerState, NoTimer
<1>4. pending \in Packets
  BY DEF Init, Packets, NoPacket
<1>. QED BY <1>1, <1>2, <1>3, <1>4 DEF Init, TypeOK, States, Timers, Brokers

LEMMA CloseSocketType ==
  ASSUME CloseSocket
  PROVE  sock' \in BOOLEAN /\ broker' \in Brokers /\ awaited' \subseteq RxKinds
BY EmptySeq DEF CloseSocket, NoBroker, Brokers

LEMMA AddPublishPacketType ==
  ASSUME TypeOK, NEW qos \in {0, 1}, AddPublishPacket(qos)
  PROVE  /\ publishList' \in Seq(Packets) /\ pending' \in Packets
         /\ created' \in Nat /\ lastSent' \in Nat
<1>1. [n |-> created + 1, qos |-> qos] \in Packets
  BY DEF TypeOK, Packets
<1>. QED BY <1>1 DEF TypeOK, AddPublishPacket

LEMMA DisconnectType == ASSUME TypeOK, Disconnect PROVE TypeOK'
<1>1. timers' \in Timers
  BY StopDestroyEffect DEF TypeOK, Disconnect, Timers, TimerKinds
<1>2. [broker EXCEPT !.session = "over"] \in Brokers
  BY DEF TypeOK, Brokers
<1>3. broker' \in Brokers
  BY <1>2 DEF TypeOK, Disconnect, Brokers
<1>. QED BY <1>1, <1>3 DEF TypeOK, Disconnect, States, Timers, Brokers, listVars

LEMMA SendConnectType ==
  ASSUME TypeOK, NEW ok \in BOOLEAN, SendConnect(ok) PROVE TypeOK'
<1>1. timers' \in Timers
  BY RegisterEffect DEF TypeOK, SendConnect, Timers, TimerKinds
<1>2. broker' \in Brokers
  BY AnswerConnectType DEF TypeOK, SendConnect, Brokers
<1>. QED BY <1>1, <1>2 DEF TypeOK, SendConnect, States, Timers, Brokers, listVars

LEMMA SendPublishType ==
  ASSUME TypeOK, NEW ok \in BOOLEAN, SendPublish(ok) PROVE TypeOK'
<1>1. timers' \in Timers
  BY RestartEffect DEF TypeOK, SendPublish, Timers, TimerKinds
<1>2. Head(publishList) \in Packets /\ Tail(publishList) \in Seq(Packets)
  BY DEF TypeOK, SendPublish
<1>3. Rx("puback", Head(publishList).n) \in RxPackets
  BY <1>2 DEF Rx, RxPackets, RxTypes, RxKinds, Packets
<1>4. broker' \in Brokers
  BY <1>3, AnswerType DEF TypeOK, SendPublish, Brokers
<1>5. pending' \in Packets /\ lastSent' \in Nat
  BY <1>2 DEF TypeOK, SendPublish, Packets, NoPacket
<1>6. txFlags' \subseteq TxKinds /\ rxFlags' \subseteq RxKinds /\ awaited' \subseteq RxKinds
  BY DEF TypeOK, SendPublish, RxKinds
<1>. QED BY <1>1, <1>2, <1>4, <1>5, <1>6 DEF TypeOK, SendPublish, Timers, Brokers

LEMMA SendRequestType ==
  ASSUME TypeOK, NEW r \in Requests, NEW ok \in BOOLEAN, SendRequest(r, ok)
  PROVE  TypeOK'
<1>1. AckOf[r] \in {"suback", "unsuback"}
  BY RequestsAssumption DEF AckOf
<1>2. timers' \in Timers
  <2>. DEFINE stopped    == StopDestroy(timers, "pingreq")
              registered == Register(stopped, AckOf[r])
  <2>1. stopped \in Timers
    BY StopDestroyEffect DEF TypeOK, Timers, TimerKinds
  <2>2. registered \in Timers
    BY <1>1, <2>1, RegisterEffect DEF TimerKinds
  <2>3. Register(registered, "pingreq") \in Timers
    BY <2>2, RegisterEffect DEF TimerKinds
  <2>4. Restart(timers, "pingreq") \in Timers
    BY RestartEffect DEF TypeOK, Timers, TimerKinds
  <2>. QED BY <2>3, <2>4 DEF SendRequest
<1>3. \A val \in {0, 1} : Rx(AckOf[r], val) \in RxPackets
  BY <1>1 DEF Rx, RxPackets, RxTypes, RxKinds
<1>4. broker' \in Brokers
  <2>. broker \in Brokers
    BY DEF TypeOK, Brokers
  <2>1. CASE ok
    BY <2>1, <1>3, AnswerType DEF SendRequest
  <2>2. CASE ~ok
    BY <2>2 DEF SendRequest
  <2>. QED BY <2>1, <2>2
<1>5. rxFlags' \subseteq RxKinds /\ awaited' \subseteq RxKinds
  BY <1>1 DEF TypeOK, SendRequest, RxKinds
<1>. QED BY <1>2, <1>4, <1>5 DEF TypeOK, SendRequest, Timers, Brokers, listVars

LEMMA SendPingreqType ==
  ASSUME TypeOK, NEW ok \in BOOLEAN, SendPingreq(ok) PROVE TypeOK'
<1>1. timers' \in Timers
  BY RegisterEffect DEF TypeOK, SendPingreq, Timers, TimerKinds
<1>2. Rx("pingresp", 0) \in RxPackets
  BY DEF Rx, RxPackets, RxTypes, RxKinds
<1>3. broker' \in Brokers
  BY <1>2, AnswerType DEF TypeOK, SendPingreq, Brokers
<1>4. rxFlags' \subseteq RxKinds /\ awaited' \subseteq RxKinds
  BY DEF TypeOK, SendPingreq, RxKinds
<1>. QED BY <1>1, <1>3, <1>4 DEF TypeOK, SendPingreq, Timers, Brokers, listVars

LEMMA ReceivedType ==
  ASSUME TypeOK, Received
  PROVE  Head(rxbuff) \in RxPackets /\ Tail(rxbuff) \in Seq(RxPackets)
BY HeadTailProperties DEF TypeOK, Received

LEMMA ReceiveConnackType == ASSUME TypeOK, ReceiveConnack PROVE TypeOK'
<1>1. timers' \in Timers
  <2>1. StopDestroy(timers, "connack") \in Timers
    BY StopDestroyEffect DEF TypeOK, Timers, TimerKinds
  <2>2. Register(StopDestroy(timers, "connack"), "pingreq") \in Timers
    BY <2>1, RegisterEffect DEF TimerKinds
  <2>. QED BY <2>1, <2>2 DEF ReceiveConnack
<1>2. rxbuff' \in Seq(RxPackets)
  BY ReceivedType DEF ReceiveConnack
<1>3. txFlags' \subseteq TxKinds
  BY DEF TypeOK, ReceiveConnack, TxKinds, TxBit
<1>. QED BY <1>1, <1>2, <1>3
         DEF TypeOK, ReceiveConnack, States, Timers, listVars, netVars

LEMMA RefuseConnackType == ASSUME TypeOK, RefuseConnack PROVE TypeOK'
<1>1. timers' \in Timers
  BY StopDestroyEffect DEF TypeOK, RefuseConnack, Timers, TimerKinds
<1>2. sock' \in BOOLEAN /\ broker' \in Brokers /\ awaited' \subseteq RxKinds
  BY CloseSocketType DEF RefuseConnack
<1>. QED BY <1>1, <1>2 DEF TypeOK, RefuseConnack, States, Timers, Brokers, listVars

LEMMA ReceivePingrespType == ASSUME TypeOK, ReceivePingresp PROVE TypeOK'
<1>1. timers' \in Timers
  BY StopDestroyEffect DEF TypeOK, ReceivePingresp, Timers, TimerKinds
<1>2. rxbuff' \in Seq(RxPackets)
  BY EmptySeq DEF ReceivePingresp
<1>3. txFlags' \subseteq TxKinds
  BY DEF TypeOK, ReceivePingresp, TxKinds, TxBit
<1>. QED BY <1>1, <1>2, <1>3 DEF TypeOK, ReceivePingresp, Timers, listVars

LEMMA ConsumeAckType ==
  ASSUME TypeOK, NEW ack \in {"suback", "unsuback"}, ConsumeAck(ack)
  PROVE  /\ rxFlags' \subseteq RxKinds /\ rxbuff' \in Seq(RxPackets)
         /\ occured' \subseteq TimerKinds /\ expired' \subseteq TimerKinds
         /\ timers' \in Timers
         /\ halted' \in BOOLEAN /\ sock' \in BOOLEAN /\ broker' \in Brokers
         /\ awaited' \subseteq RxKinds
<1>1. timers' \in Timers
  BY StopDestroyEffect DEF TypeOK, ConsumeAck, Timers, TimerKinds
<1>2. rxbuff' \in Seq(RxPackets)
  BY EmptySeq DEF ConsumeAck
<1>. QED BY <1>1, <1>2 DEF TypeOK, ConsumeAck, Brokers

LEMMA ReceiveSubackType == ASSUME TypeOK, ReceiveSuback PROVE TypeOK'
<1>1. ConsumeAck("suback")
  BY DEF ReceiveSuback
<1>2. /\ publishList' \in Seq(Packets) /\ pending' \in Packets
      /\ created' \in Nat /\ lastSent' \in Nat
  BY AddPublishPacketType DEF TypeOK, ReceiveSuback, listVars
<1>3. mqttState' \in States /\ txFlags' \subseteq TxKinds
  BY DEF TypeOK, ReceiveSuback, States, TxKinds, TxBit
<1>. QED BY <1>1, <1>2, <1>3, ConsumeAckType DEF TypeOK, Timers, Brokers

LEMMA ReceiveUnsubackType == ASSUME TypeOK, ReceiveUnsuback PROVE TypeOK'
<1>1. ConsumeAck("unsuback")
  BY DEF ReceiveUnsuback
<1>2. mqttState' \in States
  BY DEF ReceiveUnsuback, States
<1>. QED BY <1>1, <1>2, ConsumeAckType
         DEF TypeOK, ReceiveUnsuback, Timers, Brokers, listVars

LEMMA ReceivePublishType == ASSUME TypeOK, ReceivePublish PROVE TypeOK'
<1>1. CASE Disconnect
  BY <1>1, DisconnectType
<1>2. CASE ~Disconnect
  <2>1. /\ publishList' \in Seq(Packets) /\ pending' \in Packets
        /\ created' \in Nat /\ lastSent' \in Nat
    BY <1>2, AddPublishPacketType DEF TypeOK, ReceivePublish, listVars
  <2>2. rxbuff' \in Seq(RxPackets)
    BY <1>2, EmptySeq DEF ReceivePublish
  <2>3. txFlags' \subseteq TxKinds
    BY <1>2 DEF TypeOK, ReceivePublish, TxKinds, TxBit
  <2>. QED BY <1>2, <2>1, <2>2, <2>3 DEF TypeOK, ReceivePublish, netVars
<1>. QED BY <1>1, <1>2

LEMMA ReceivePubackType == ASSUME TypeOK, ReceivePuback PROVE TypeOK'
<1>1. rxbuff' \in Seq(RxPackets)
  BY ReceivedType DEF ReceivePuback
<1>2. pending' \in Packets
  BY DEF TypeOK, ReceivePuback, NoPacket, Packets
<1>. QED BY <1>1, <1>2 DEF TypeOK, ReceivePuback

LEMMA TimerCallbackType ==
  ASSUME TypeOK, NEW k \in Elapsing, TimerCallback(k) PROVE TypeOK'
<1>1. k \in TimerKinds
  BY ElapsingAssumption DEF TimerKinds
<1>2. timers \in Timers /\ timers[k].stray \in Nat
  BY <1>1 DEF TypeOK, Timers, TimerState
<1>3. [timers EXCEPT ![k].handle = "none"] \in Timers
  BY <1>1, <1>2 DEF Timers, TimerState
<1>4. timers[k].stray > 0 => [timers EXCEPT ![k].stray = @ - 1] \in Timers
  BY <1>1, <1>2 DEF Timers, TimerState
<1>5. timers' \in Timers
  BY <1>2, <1>3, <1>4 DEF TimerCallback
<1>. QED BY <1>1, <1>5 DEF TypeOK, TimerCallback, Timers, listVars, netVars

LEMMA SchedType == ASSUME TypeOK, Sched PROVE TypeOK'
<1>1. timers' \in Timers
  BY RegisterEffect DEF TypeOK, Sched, Timers, TimerKinds
<1>. QED BY <1>1 DEF TypeOK, Sched, Timers, listVars, netVars

LEMMA GetReceivedDataType == ASSUME TypeOK, GetReceivedData PROVE TypeOK'
<1>1. PICK n \in 1..Len(broker.wire) :
        /\ rxbuff' = SubSeq(broker.wire, 1, n)
        /\ broker' = [broker EXCEPT !.wire = SubSeq(@, n + 1, Len(@))]
  BY DEF GetReceivedData
<1>2. broker.wire \in Seq(RxPackets)
  BY DEF TypeOK
<1>3. /\ SubSeq(broker.wire, 1, n) \in Seq(RxPackets)
      /\ SubSeq(broker.wire, n + 1, Len(broker.wire)) \in Seq(RxPackets)
  BY <1>2, SubSeqProperties, LenProperties
<1>. QED BY <1>1, <1>3 DEF TypeOK, GetReceivedData, listVars

LEMMA ClientInitializeType == ASSUME TypeOK, ClientInitialize PROVE TypeOK'
<1>1. rxbuff' \in Seq(RxPackets)
  BY EmptySeq DEF ClientInitialize
<1>. QED BY <1>1, CloseSocketType
         DEF TypeOK, ClientInitialize, States, Brokers, listVars

LEMMA BrokerPublishType == ASSUME TypeOK, BrokerPublish PROVE TypeOK'
<1>1. Rx("publish", 0) \in RxPackets
  BY DEF Rx, RxPackets, RxTypes
<1>2. broker' \in Brokers
  BY <1>1, AnswerType DEF TypeOK, BrokerPublish, Brokers
<1>. QED BY <1>2 DEF TypeOK, BrokerPublish, Brokers, engineVars, listVars

(***************************************************************************)
(* Every step preserves the types: one step for each action of Next.       *)
(***************************************************************************)
LEMMA StepType == TypeOK /\ [Next]_vars => TypeOK'
<1>. SUFFICES ASSUME TypeOK, [Next]_vars PROVE TypeOK'
  OBVIOUS
<1>1. CASE UNCHANGED vars
  BY <1>1 DEF TypeOK, vars, engineVars, listVars, netVars
<1>2. ASSUME CreateConnectPacket PROVE TypeOK'
  BY <1>2 DEF TypeOK, CreateConnectPacket, States, TxKinds, TxBit, listVars, netVars
<1>3. ASSUME NEW qos \in {0, 1}, CreatePublishPacket(qos) PROVE TypeOK'
  BY <1>3, AddPublishPacketType DEF TypeOK, CreatePublishPacket, TxKinds, TxBit, netVars
<1>4. ASSUME NEW r \in Requests, CreateRequestPacket(r) PROVE TypeOK'
  BY <1>4, RequestsAssumption
  DEF TypeOK, CreateRequestPacket, TxKinds, TxBit, listVars, netVars
<1>5. ASSUME TransmissionHandler PROVE TypeOK'
  BY <1>5, SendConnectType, SendPublishType, SendRequestType, SendPingreqType
  DEF TransmissionHandler
<1>6. ASSUME AssertPublishFound PROVE TypeOK'
  BY <1>6 DEF TypeOK, AssertPublishFound, engineVars, listVars, netVars
<1>7. ASSUME TimeoutClose PROVE TypeOK'
  BY <1>7, CloseSocketType DEF TypeOK, TimeoutClose, States, Brokers, listVars
<1>8. ASSUME ReceptionHandler PROVE TypeOK'
  BY <1>7, <1>8, ReceiveConnackType, RefuseConnackType, ReceivePingrespType,
     ReceiveSubackType, ReceiveUnsubackType, ReceivePublishType, ReceivePubackType
  DEF ReceptionHandler
<1>9. ASSUME OpenSocket PROVE TypeOK'
  BY <1>9 DEF TypeOK, OpenSocket, engineVars, listVars
<1>10. ASSUME LoseSocket PROVE TypeOK'
  BY <1>10, CloseSocketType DEF TypeOK, LoseSocket, Brokers, engineVars, listVars
<1>. QED BY <1>1, <1>2, <1>3, <1>4, <1>5, <1>6, <1>8, <1>9, <1>10, DisconnectType,
            TimerCallbackType, SchedType, GetReceivedDataType, BrokerPublishType,
            ClientInitializeType
         DEF Next

(* Every variable always holds a value the code can store in it.            *)
THEOREM TypeCorrect == Spec => []TypeOK
BY InitType, StepType, PTL DEF Spec

(***************************************************************************)
(* A packet waits for a PUBACK exactly while the flag says so.  The        *)
(* invariant is inductive on top of the types: only SendPublish and        *)
(* ReceivePuback touch either side.                                        *)
(***************************************************************************)
LEMMA PubackStep == TypeOK /\ PubackHasPacket /\ [Next]_vars => PubackHasPacket'
<1>. SUFFICES ASSUME TypeOK, PubackHasPacket, [Next]_vars PROVE PubackHasPacket'
  OBVIOUS
<1>. USE DEF PubackHasPacket
<1>1. CASE UNCHANGED <<rxFlags, pending>>
  BY <1>1
<1>2. ASSUME NEW ok \in BOOLEAN, SendPublish(ok) PROVE PubackHasPacket'
  <2>1. Head(publishList) \in Packets /\ pending = NoPacket
    BY <1>2 DEF TypeOK, SendPublish, PublishTurn
  <2>. DEFINE acked == ok /\ Head(publishList).qos = 1
  <2>2. CASE acked
    <3>1. pending' = Head(publishList) /\ "puback" \in rxFlags'
      BY <1>2, <2>2 DEF SendPublish
    <3>. QED BY <2>1, <2>2, <3>1 DEF NoPacket, Packets
  <2>3. CASE ~acked
    BY <1>2, <2>1, <2>3 DEF SendPublish
  <2>. QED BY <2>2, <2>3
<1>3. ASSUME NEW r \in Requests, NEW ok \in BOOLEAN, SendRequest(r, ok)
      PROVE  PubackHasPacket'
  BY <1>3, RequestsAssumption DEF SendRequest, AckOf, listVars
<1>4. ASSUME NEW ack \in {"suback", "unsuback"}, ConsumeAck(ack), pending' = pending
      PROVE  PubackHasPacket'
  BY <1>4 DEF ConsumeAck
<1>5. ASSUME ReceivePublish PROVE PubackHasPacket'
  BY <1>1, <1>5 DEF ReceivePublish, Disconnect, AddPublishPacket, listVars
<1>6. ASSUME ReceiveSuback PROVE PubackHasPacket'
  BY <1>4, <1>6 DEF ReceiveSuback, AddPublishPacket, listVars
<1>7. ASSUME ReceiveUnsuback PROVE PubackHasPacket'
  BY <1>4, <1>7 DEF ReceiveUnsuback, listVars
<1>8. ASSUME ReceivePuback PROVE PubackHasPacket'
  BY <1>8 DEF ReceivePuback
<1>9. ASSUME NEW ok \in BOOLEAN, SendPingreq(ok) PROVE PubackHasPacket'
  BY <1>9 DEF SendPingreq, listVars
<1>10. ASSUME TransmissionHandler PROVE PubackHasPacket'
  BY <1>1, <1>2, <1>3, <1>9, <1>10 DEF TransmissionHandler, SendConnect, listVars
<1>11. ASSUME ReceptionHandler PROVE PubackHasPacket'
  BY <1>1, <1>5, <1>6, <1>7, <1>8, <1>11
  DEF ReceptionHandler, TimeoutClose, ReceiveConnack, RefuseConnack, ReceivePingresp,
      listVars
<1>. QED BY <1>1, <1>10, <1>11
         DEF Next, CreateConnectPacket, CreatePublishPacket, AddPublishPacket,
             CreateRequestPacket, AssertPublishFound, Disconnect, TimerCallback, Sched,
             OpenSocket, LoseSocket, GetReceivedData, BrokerPublish, ClientInitialize,
             vars, engineVars, listVars

(* The PUBACK flag and the packet it is for come and go together.           *)
THEOREM PubackCorrect == Spec => []PubackHasPacket
<1>1. Init => PubackHasPacket
  BY DEF Init, PubackHasPacket
<1>. QED BY <1>1, PubackStep, TypeCorrect, PTL DEF Spec

(***************************************************************************)
(* One SUBSCRIBE and one UNSUBSCRIBE at a time.                            *)
(***************************************************************************)
LEMMA AckOfInjective ==
  \A r, q \in Requests : AckOf[r] \in {"suback", "unsuback"} /\ (AckOf[r] = AckOf[q] => r = q)
BY RequestsAssumption DEF AckOf

LEMMA OneRequestStep ==
  TypeOK /\ OneRequestAtATime /\ [Next]_vars => OneRequestAtATime'
<1>. SUFFICES ASSUME TypeOK, OneRequestAtATime, [Next]_vars, NEW q \in Requests
              PROVE  ~(q \in txFlags' /\ AckOf[q] \in rxFlags')
  BY DEF OneRequestAtATime
<1>. DEFINE Goal == ~(q \in txFlags' /\ AckOf[q] \in rxFlags')
<1>0. ~(q \in txFlags /\ AckOf[q] \in rxFlags) /\ q \in {"subscribe", "unsubscribe"}
  BY RequestsAssumption DEF OneRequestAtATime
<1>1. ASSUME q \in txFlags' => q \in txFlags,
             AckOf[q] \in rxFlags' => AckOf[q] \in rxFlags
      PROVE  Goal
  BY <1>0, <1>1
<1>2. ASSUME NEW r \in Requests, CreateRequestPacket(r) PROVE Goal
  BY <1>0, <1>2 DEF CreateRequestPacket
<1>3. ASSUME NEW r \in Requests, NEW ok \in BOOLEAN, SendRequest(r, ok) PROVE Goal
  BY <1>0, <1>3, AckOfInjective DEF SendRequest
<1>4. ASSUME NEW ok \in BOOLEAN, SendPublish(ok) PROVE Goal
  BY <1>0, <1>4, AckOfInjective DEF SendPublish
<1>5. ASSUME NEW ok \in BOOLEAN, SendPingreq(ok) PROVE Goal
  BY <1>0, <1>5, AckOfInjective DEF SendPingreq
<1>6. ASSUME NEW ok \in BOOLEAN, SendConnect(ok) PROVE Goal
  BY <1>0, <1>6 DEF SendConnect
<1>7. ASSUME Disconnect PROVE Goal
  BY <1>0, <1>7 DEF Disconnect
<1>8. ASSUME ReceptionHandler PROVE Goal
  BY <1>0, <1>7, <1>8
  DEF ReceptionHandler, TimeoutClose, ReceiveConnack, RefuseConnack, ReceivePingresp,
      ReceiveSuback, ReceiveUnsuback, ConsumeAck, ReceivePublish, ReceivePuback
<1>9. ASSUME TransmissionHandler PROVE Goal
  BY <1>3, <1>4, <1>5, <1>6, <1>9 DEF TransmissionHandler
<1>. QED BY <1>0, <1>2, <1>7, <1>8, <1>9
         DEF Next, CreateConnectPacket, CreatePublishPacket, AssertPublishFound,
             TimerCallback, Sched, OpenSocket, LoseSocket, GetReceivedData,
             BrokerPublish, ClientInitialize, vars, engineVars

(* No request is queued while the last one's acknowledgement is awaited.    *)
THEOREM OneRequestCorrect == Spec => []OneRequestAtATime
<1>1. Init => OneRequestAtATime
  BY DEF Init, OneRequestAtATime
<1>. QED BY <1>1, OneRequestStep, TypeCorrect, PTL DEF Spec

(***************************************************************************)
(* No CONNECT is queued behind a connection or behind an earlier CONNECT.  *)
(***************************************************************************)
LEMMA ConnectStep == ConnectNotQueued /\ [Next]_vars => ConnectNotQueued'
<1>. SUFFICES ASSUME ConnectNotQueued, [Next]_vars PROVE ConnectNotQueued'
  OBVIOUS
<1>. USE DEF ConnectNotQueued
<1>1. "connect" \notin Requests
  BY RequestsAssumption
<1>2. ASSUME TransmissionHandler PROVE ConnectNotQueued'
  BY <1>2 DEF TransmissionHandler, SendConnect, SendPublish, PublishTurn, SendRequest,
              SendPingreq
<1>3. ASSUME ReceptionHandler PROVE ConnectNotQueued'
  BY <1>3 DEF ReceptionHandler, TimeoutClose, ReceiveConnack, RefuseConnack,
              ReceivePingresp, ReceiveSuback, ReceiveUnsuback, ConsumeAck,
              ReceivePublish, Disconnect, ReceivePuback
<1>. QED BY <1>1, <1>2, <1>3
         DEF Next, CreateConnectPacket, CreatePublishPacket, CreateRequestPacket,
             AssertPublishFound, Disconnect, TimerCallback, Sched, OpenSocket, LoseSocket,
             GetReceivedData, BrokerPublish, ClientInitialize, vars, engineVars

(* A CONNECT never blocks the packets of a live session.                    *)
THEOREM ConnectCorrect == Spec => []ConnectNotQueued
<1>1. Init => ConnectNotQueued
  BY DEF Init, ConnectNotQueued
<1>. QED BY <1>1, ConnectStep, PTL DEF Spec

(***************************************************************************)
(* Timeouts.  A timeout runs on through every step that neither restarts   *)
(* its timer nor serves its interrupt.                                     *)
(***************************************************************************)
LEMMA RegisteredRuns ==
  ASSUME NEW t \in Timers, NEW k \in TimerKinds, timers' = Register(t, k)
  PROVE  Running(k)'
BY RegisterEffect DEF Running

LEMMA KeepsRunning ==
  ASSUME NEW k, Running(k), timers'[k] = timers[k], expired \subseteq expired'
  PROVE  Running(k)'
BY DEF Running

(* An interrupt does not end a timeout, it moves it to the expired flags.   *)
LEMMA InterruptRuns ==
  ASSUME TypeOK, NEW j \in Elapsing, TimerCallback(j), NEW k \in TimerKinds, Running(k)
  PROVE  Running(k)'
<1>1. CASE j = k
  BY <1>1 DEF TimerCallback, Running
<1>2. CASE j # k
  <2>1. timers'[k] = timers[k]
    BY <1>2 DEF TypeOK, TimerCallback
  <2>. QED BY <2>1, KeepsRunning DEF TimerCallback
<1>. QED BY <1>1, <1>2

LEMMA KeepAliveStep ==
  TypeOK /\ KeepAliveArmed /\ [Next]_vars => KeepAliveArmed'
<1>. SUFFICES ASSUME TypeOK, KeepAliveArmed, [Next]_vars, mqttState' = "CONNECTED"
              PROVE  Running("pingreq")'
  BY DEF KeepAliveArmed
<1>. USE DEF KeepAliveArmed
<1>0. timers \in Timers /\ "pingreq" \in TimerKinds
  BY DEF TypeOK, Timers, TimerKinds
<1>1. ASSUME mqttState = "CONNECTED", timers'["pingreq"] = timers["pingreq"],
             expired \subseteq expired'
      PROVE  Running("pingreq")'
  BY <1>1, KeepsRunning
<1>2. ASSUME NEW ok \in BOOLEAN, SendPublish(ok) PROVE Running("pingreq")'
  BY <1>0, <1>2, StopDestroyEffect, RegisteredRuns DEF SendPublish, Restart
<1>3. ASSUME NEW r \in Requests, NEW ok \in BOOLEAN, SendRequest(r, ok)
      PROVE  Running("pingreq")'
  <2>. DEFINE stopped == StopDestroy(timers, "pingreq")
  <2>1. stopped \in Timers
    BY <1>0, StopDestroyEffect
  <2>2. Register(stopped, AckOf[r]) \in Timers
    BY <2>1, AckOfInjective, RegisterEffect DEF TimerKinds
  <2>. QED BY <1>0, <1>3, <2>1, <2>2, RegisteredRuns DEF SendRequest, Restart
<1>4. ASSUME NEW ok \in BOOLEAN, SendPingreq(ok) PROVE Running("pingreq")'
  BY <1>0, <1>1, <1>4, RegisterEffect DEF SendPingreq, TimerKinds
<1>5. ASSUME TransmissionHandler PROVE Running("pingreq")'
  BY <1>2, <1>3, <1>4, <1>5 DEF TransmissionHandler, SendConnect
<1>6. ASSUME ReceiveConnack PROVE Running("pingreq")'
  BY <1>0, <1>6, StopDestroyEffect, RegisteredRuns DEF ReceiveConnack, TimerKinds
<1>7. ASSUME ReceivePingresp PROVE Running("pingreq")'
  BY <1>0, <1>1, <1>7, StopDestroyEffect DEF ReceivePingresp, TimerKinds
<1>8. ASSUME NEW ack \in {"suback", "unsuback"}, ConsumeAck(ack)
      PROVE  Running("pingreq")'
  BY <1>0, <1>1, <1>8, StopDestroyEffect DEF ConsumeAck, TimerKinds
<1>9. ASSUME ReceptionHandler PROVE Running("pingreq")'
  BY <1>1, <1>6, <1>7, <1>8, <1>9
  DEF ReceptionHandler, TimeoutClose, RefuseConnack, ReceiveSuback, ReceiveUnsuback,
      ReceivePublish, Disconnect, ReceivePuback
<1>10. ASSUME NEW k \in Elapsing, TimerCallback(k) PROVE Running("pingreq")'
  BY <1>0, <1>10, InterruptRuns DEF TimerCallback
<1>11. ASSUME Sched PROVE Running("pingreq")'
  <2>1. CASE "pingreq" \in expired
    BY <1>0, <1>11, <2>1, RegisteredRuns DEF Sched
  <2>2. CASE "pingreq" \notin expired
    BY <1>11, <2>2 DEF Sched, Running
  <2>. QED BY <2>1, <2>2
<1>. QED BY <1>1, <1>5, <1>9, <1>10, <1>11
         DEF Next, CreateConnectPacket, CreatePublishPacket, CreateRequestPacket,
             AssertPublishFound, Disconnect, OpenSocket, LoseSocket, GetReceivedData,
             BrokerPublish, ClientInitialize, vars, engineVars

(* The keep-alive timeout of a connected engine is always on its way.       *)
THEOREM KeepAliveCorrect == Spec => []KeepAliveArmed
<1>1. Init => KeepAliveArmed
  BY DEF Init, KeepAliveArmed
<1>. QED BY <1>1, KeepAliveStep, TypeCorrect, PTL DEF Spec

(***************************************************************************)
(* The waits that a timeout bounds: for a CONNACK, for the acknowledgement *)
(* of a request, and, on a live connection without a PINGREQ at hand, for  *)
(* the PINGRESP.                                                           *)
(***************************************************************************)
WaitKinds == {"connack", "suback", "unsuback", "pingresp"}

Waiting(k) ==
  \/ k = "connack" /\ mqttState = "WAITFORCONNACK"
  \/ k \in {"suback", "unsuback"} /\ k \in rxFlags
  \/ k = "pingresp" /\ mqttState = "CONNECTED" /\ sock /\ "pingreq" \notin txFlags

LEMMA KeepsArmed ==
  ASSUME NEW k, Armed(k), timers'[k] = timers[k], expired \subseteq expired',
         k \in occured => k \in occured'
  PROVE  Armed(k)'
BY DEF Armed, Running

(* MQTT_sched loses no timeout.                                             *)
LEMMA SchedArmed ==
  ASSUME TypeOK, Sched, NEW k \in TimerKinds, Armed(k)
  PROVE  Armed(k)'
<1>1. CASE k \in expired \cup occured
  BY <1>1 DEF Sched, Armed
<1>2. CASE k \notin expired \cup occured
  <2>1. timers'[k] = timers[k]
    BY <1>2, RegisterEffect DEF TypeOK, Timers, TimerKinds, Sched
  <2>. QED BY <1>2, <2>1 DEF Armed, Running
<1>. QED BY <1>1, <1>2

(* A wait that starts is timed, and one that goes on stays timed.           *)
LEMMA WaitStep ==
  ASSUME TypeOK, [Next]_vars, NEW k \in WaitKinds,
         Waiting(k) => Armed(k), Waiting(k)'
  PROVE  Armed(k)'
<1>0. timers \in Timers /\ k \in TimerKinds \ {"pingreq"}
  BY DEF TypeOK, Timers, TimerKinds, WaitKinds
<1>1. ASSUME Waiting(k), timers'[k] = timers[k], expired \subseteq expired',
             occured \subseteq occured'
      PROVE  Armed(k)'
  BY <1>1, KeepsArmed
<1>2. ASSUME NEW ok \in BOOLEAN, SendConnect(ok) PROVE Armed(k)'
  <2>1. CASE ok /\ k = "connack"
    BY <1>0, <1>2, <2>1, RegisteredRuns DEF SendConnect, Armed
  <2>2. CASE ok /\ k # "connack"
    <3>1. timers'[k] = timers[k]
      BY <1>0, <1>2, <2>2, RegisterEffect DEF SendConnect, TimerKinds
    <3>. QED BY <1>2, <2>2, <3>1, KeepsArmed DEF SendConnect, Waiting
  <2>3. CASE ~ok
    BY <1>1, <1>2, <2>3 DEF SendConnect, Waiting
  <2>. QED BY <2>1, <2>2, <2>3
<1>3. ASSUME NEW ok \in BOOLEAN, SendPublish(ok) PROVE Armed(k)'
  <2>1. timers'[k] = timers[k]
    BY <1>0, <1>3, RestartEffect DEF SendPublish, TimerKinds
  <2>. QED BY <1>1, <1>3, <2>1 DEF SendPublish, Waiting
<1>4. ASSUME NEW r \in Requests, NEW ok \in BOOLEAN, SendRequest(r, ok)
      PROVE  Armed(k)'
  <2>. DEFINE stopped    == StopDestroy(timers, "pingreq")
              registered == Register(stopped, AckOf[r])
  <2>1. stopped \in Timers /\ stopped[k] = timers[k]
    BY <1>0, StopDestroyEffect DEF TimerKinds
  <2>2. AckOf[r] \in TimerKinds \ {"pingreq"} /\ AckOf[r] # "connack"
    BY AckOfInjective DEF TimerKinds
  <2>3. CASE ~ok
    <3>1. timers'[k] = timers[k]
      BY <1>0, <1>4, <2>3, RestartEffect DEF SendRequest, TimerKinds
    <3>. QED BY <1>1, <1>4, <2>3, <3>1 DEF SendRequest, Waiting
  <2>4. CASE ok
    <3>1. registered \in Timers /\ registered[AckOf[r]].handle \in {"live", "failed"}
      BY <2>1, <2>2, RegisterEffect
    <3>2. timers'[k] = registered[k]
      BY <1>0, <1>4, <2>4, <3>1, RegisterEffect DEF SendRequest, TimerKinds
    <3>3. CASE k = AckOf[r]
      BY <3>1, <3>2, <3>3 DEF Armed, Running
    <3>4. CASE k # AckOf[r]
      <4>1. timers'[k] = timers[k]
        BY <1>0, <2>1, <2>2, <3>2, <3>4, RegisterEffect
      <4>2. Waiting(k)
        BY <1>4, <2>4, <3>4, RequestsAssumption DEF SendRequest, Waiting
      <4>. QED BY <1>4, <2>4, <3>4, <4>1, <4>2, KeepsArmed DEF SendRequest
    <3>. QED BY <3>3, <3>4
  <2>. QED BY <2>3, <2>4
<1>5. ASSUME NEW ok \in BOOLEAN, SendPingreq(ok) PROVE Armed(k)'
  <2>1. CASE ok /\ k = "pingresp"
    BY <1>0, <1>5, <2>1, RegisteredRuns DEF SendPingreq, Armed
  <2>2. CASE ~(ok /\ k = "pingresp")
    <3>1. timers'[k] = timers[k]
      BY <1>0, <1>5, <2>2, RegisterEffect DEF SendPingreq, TimerKinds
    <3>. QED BY <1>0, <1>5, <2>2, <3>1, KeepsArmed DEF SendPingreq, Waiting
  <2>. QED BY <2>1, <2>2
<1>6. ASSUME TransmissionHandler PROVE Armed(k)'
  BY <1>2, <1>3, <1>4, <1>5, <1>6 DEF TransmissionHandler
<1>7. ASSUME Disconnect PROVE Armed(k)'
  <2>1. timers'[k] = timers[k]
    BY <1>0, <1>7, StopDestroyEffect DEF Disconnect, TimerKinds
  <2>. QED BY <1>1, <1>7, <2>1 DEF Disconnect, Waiting
<1>8. ASSUME ReceiveConnack PROVE Armed(k)'
  <2>. DEFINE stopped == StopDestroy(timers, "connack")
  <2>1. k # "connack" /\ Waiting(k)
    BY <1>8 DEF ReceiveConnack, Waiting
  <2>2. stopped \in Timers /\ stopped[k] = timers[k]
    BY <1>0, <2>1, StopDestroyEffect DEF TimerKinds
  <2>3. timers'[k] = timers[k]
    BY <1>0, <1>8, <2>2, RegisterEffect DEF ReceiveConnack, TimerKinds
  <2>. QED BY <1>1, <1>8, <2>1, <2>3 DEF ReceiveConnack
<1>9. ASSUME RefuseConnack PROVE Armed(k)'
  <2>1. k # "connack" /\ Waiting(k)
    BY <1>9 DEF RefuseConnack, Waiting
  <2>2. timers'[k] = timers[k]
    BY <1>0, <1>9, <2>1, StopDestroyEffect DEF RefuseConnack, TimerKinds
  <2>. QED BY <1>1, <1>9, <2>1, <2>2 DEF RefuseConnack
<1>10. ASSUME ReceivePingresp PROVE Armed(k)'
  <2>1. k # "pingresp" /\ Waiting(k)
    BY <1>10 DEF ReceivePingresp, Waiting
  <2>2. timers'[k] = timers[k]
    BY <1>0, <1>10, <2>1, StopDestroyEffect DEF ReceivePingresp, TimerKinds
  <2>. QED BY <1>1, <1>10, <2>1, <2>2 DEF ReceivePingresp
<1>11. ASSUME NEW ack \in {"suback", "unsuback"}, ConsumeAck(ack),
              mqttState' # "WAITFORCONNACK",
              "pingreq" \in txFlags => "pingreq" \in txFlags'
       PROVE  Armed(k)'
  <2>1. k # ack /\ Waiting(k)
    BY <1>11 DEF ConsumeAck, Waiting
  <2>2. timers'[k] = timers[k]
    BY <1>0, <1>11, <2>1, StopDestroyEffect DEF ConsumeAck, TimerKinds
  <2>. QED BY <1>1, <1>11, <2>1, <2>2 DEF ConsumeAck
<1>12. ASSUME ReceptionHandler PROVE Armed(k)'
  <2>1. CASE TimeoutClose
    BY <1>1, <2>1 DEF TimeoutClose, CloseSocket, Waiting
  <2>2. CASE ReceiveSuback
    BY <1>11, <2>2 DEF ReceiveSuback, ConsumeAck
  <2>3. CASE ReceiveUnsuback
    BY <1>11, <2>3 DEF ReceiveUnsuback
  <2>4. CASE ReceivePublish
    BY <1>1, <1>7, <2>4 DEF ReceivePublish, Waiting, netVars
  <2>5. CASE ReceivePuback
    BY <1>1, <2>5 DEF ReceivePuback, Waiting
  <2>. QED BY <1>8, <1>9, <1>10, <1>12, <2>1, <2>2, <2>3, <2>4, <2>5 DEF ReceptionHandler
<1>13. ASSUME NEW j \in Elapsing, TimerCallback(j) PROVE Armed(k)'
  <2>1. Waiting(k)
    BY <1>13 DEF TimerCallback, Waiting, netVars
  <2>. QED BY <1>0, <1>13, <2>1, InterruptRuns DEF TimerCallback, Armed
<1>14. ASSUME Sched PROVE Armed(k)'
  BY <1>0, <1>14, SchedArmed DEF Sched, Waiting, netVars
<1>. QED BY <1>1, <1>6, <1>7, <1>12, <1>13, <1>14, RequestsAssumption
         DEF Next, CreateConnectPacket, CreatePublishPacket, CreateRequestPacket,
             AssertPublishFound, OpenSocket, LoseSocket, CloseSocket, GetReceivedData,
             BrokerPublish, ClientInitialize, Waiting, vars, engineVars, netVars

LEMMA WaitsStep == TypeOK /\ WaitsAreTimed /\ [Next]_vars => WaitsAreTimed'
<1>. SUFFICES ASSUME TypeOK, WaitsAreTimed, [Next]_vars PROVE WaitsAreTimed'
  OBVIOUS
<1>1. (mqttState = "WAITFORCONNACK" => Armed("connack"))'
  BY WaitStep DEF WaitsAreTimed, Waiting, WaitKinds
<1>2. \A r \in Requests : (AckOf[r] \in rxFlags => Armed(AckOf[r]))'
  BY WaitStep, AckOfInjective DEF WaitsAreTimed, Waiting, WaitKinds
<1>. QED BY <1>1, <1>2 DEF WaitsAreTimed

(* The engine never waits for a CONNACK, a SUBACK or an UNSUBACK without a  *)
(* timeout.                                                                 *)
THEOREM WaitsCorrect == Spec => []WaitsAreTimed
<1>1. Init => WaitsAreTimed
  BY DEF Init, WaitsAreTimed
<1>. QED BY <1>1, WaitsStep, TypeCorrect, PTL DEF Spec

(***************************************************************************)
(* The keep-alive exchange.  PingOwed is the half of LinkSupervised that   *)
(* does not speak of timers.                                               *)
(***************************************************************************)
PingOwed ==
  mqttState = "CONNECTED" /\ sock => "pingreq" \in txFlags \/ "pingresp" \in awaited

LEMMA PingOwedStep == PingOwed /\ [Next]_vars => PingOwed'
<1>. SUFFICES ASSUME PingOwed, [Next]_vars PROVE PingOwed'
  OBVIOUS
<1>. USE DEF PingOwed
<1>1. ASSUME TransmissionHandler PROVE PingOwed'
  BY <1>1, RequestsAssumption
  DEF TransmissionHandler, SendConnect, SendPublish, PublishTurn, SendRequest, SendPingreq
<1>2. ASSUME NEW ack \in {"suback", "unsuback"}, ConsumeAck(ack),
             "pingreq" \in txFlags => "pingreq" \in txFlags'
      PROVE  PingOwed'
  BY <1>2 DEF ConsumeAck
<1>3. ASSUME ReceptionHandler PROVE PingOwed'
  <2>1. CASE ReceiveSuback \/ ReceiveUnsuback
    BY <1>2, <2>1 DEF ReceiveSuback, ReceiveUnsuback
  <2>2. CASE ReceivePublish
    BY <2>2 DEF ReceivePublish, Disconnect, netVars
  <2>. QED BY <1>3, <2>1, <2>2
           DEF ReceptionHandler, TimeoutClose, ReceiveConnack, RefuseConnack,
               ReceivePingresp, ReceivePuback
<1>. QED BY <1>1, <1>3, RequestsAssumption
         DEF Next, CreateConnectPacket, CreatePublishPacket, CreateRequestPacket,
             AssertPublishFound, Disconnect, TimerCallback, Sched, OpenSocket, LoseSocket,
             CloseSocket, GetReceivedData, BrokerPublish, ClientInitialize, vars,
             engineVars, netVars

LEMMA LinkStep == TypeOK /\ LinkSupervised /\ [Next]_vars => LinkSupervised'
<1>. SUFFICES ASSUME TypeOK, LinkSupervised, [Next]_vars PROVE LinkSupervised'
  OBVIOUS
<1>1. (Waiting("pingresp") => Armed("pingresp"))'
  BY WaitStep DEF LinkSupervised, Waiting, WaitKinds
<1>2. PingOwed'
  BY PingOwedStep DEF LinkSupervised, PingOwed
<1>. QED BY <1>1, <1>2 DEF LinkSupervised, PingOwed, Waiting

(* A live connection always has a PINGREQ at hand or a PINGRESP to come     *)
(* whose timeout will be noticed.                                           *)
THEOREM LinkCorrect == Spec => []LinkSupervised
<1>1. Init => LinkSupervised
  BY DEF Init, LinkSupervised
<1>. QED BY <1>1, LinkStep, TypeCorrect, PTL DEF Spec

(***************************************************************************)
(* The engine implements PublishChannel.  The invariant that makes every   *)
(* step an abstract one: the list holds packets that have not been sent,   *)
(* in the order of their creation.                                         *)
(***************************************************************************)
ListOrdered ==
  /\ lastSent <= created
  /\ \A i \in 1..Len(publishList) :
       lastSent < publishList[i].n /\ publishList[i].n <= created
  /\ \A i, j \in 1..Len(publishList) : i < j => publishList[i].n < publishList[j].n
  /\ pending # NoPacket => pending.n > 0

LEMMA ListNumbers ==
  ASSUME TypeOK
  PROVE  \A i \in 1..Len(publishList) : publishList[i].n \in Nat
<1>. SUFFICES ASSUME NEW i \in 1..Len(publishList) PROVE publishList[i].n \in Nat
  OBVIOUS
<1>1. publishList[i] \in Packets
  BY ElementOfSeq DEF TypeOK
<1>. QED BY <1>1 DEF Packets

LEMMA AddOrdered ==
  ASSUME TypeOK, ListOrdered, NEW qos \in {0, 1}, AddPublishPacket(qos)
  PROVE  ListOrdered'
<1>. DEFINE packet == [n |-> created + 1, qos |-> qos]
<1>1. publishList \in Seq(Packets) /\ packet \in Packets /\ created \in Nat
  BY DEF TypeOK, Packets
<1>2. /\ Len(publishList') = Len(publishList) + 1
      /\ \A i \in 1..Len(publishList) : publishList'[i] = publishList[i]
      /\ publishList'[Len(publishList) + 1] = packet
  BY <1>1, AppendProperties DEF AddPublishPacket
<1>3. Len(publishList) \in Nat
  BY <1>1, LenProperties
<1>4. /\ created' = created + 1 /\ lastSent' = lastSent /\ pending' = pending
      /\ lastSent \in Nat
  BY DEF AddPublishPacket, TypeOK
<1>5. \A i \in 1..Len(publishList) :
        publishList[i].n \in Nat /\ lastSent < publishList[i].n /\ publishList[i].n <= created
  BY ListNumbers DEF ListOrdered
<1>6. \A i \in 1..Len(publishList') :
        lastSent' < publishList'[i].n /\ publishList'[i].n <= created'
  BY <1>1, <1>2, <1>3, <1>4, <1>5 DEF ListOrdered
<1>7. \A i, j \in 1..Len(publishList') : i < j => publishList'[i].n < publishList'[j].n
  BY <1>1, <1>2, <1>3, <1>5 DEF ListOrdered
<1>. QED BY <1>1, <1>4, <1>6, <1>7 DEF ListOrdered

(* The packet mqttSendPublish takes is the first of the list.               *)
LEMMA FirstOfList ==
  ASSUME TypeOK, publishList # <<>>
  PROVE  /\ Len(publishList) \in Nat \ {0}
         /\ Head(publishList) = publishList[1]
         /\ publishList[1] \in Packets
<1>1. publishList \in Seq(Packets)
  BY DEF TypeOK
<1>2. Len(publishList) \in Nat \ {0}
  BY <1>1, LenProperties, EmptySeq
<1>. QED BY <1>1, <1>2

LEMMA SendOrdered ==
  ASSUME TypeOK, ListOrdered, NEW ok \in BOOLEAN, SendPublish(ok)
  PROVE  ListOrdered'
<1>1. /\ Len(publishList) \in Nat \ {0}
      /\ Head(publishList) = publishList[1]
      /\ publishList' = Tail(publishList)
  BY FirstOfList DEF SendPublish
<1>2. /\ Len(publishList') = Len(publishList) - 1
      /\ \A i \in 1..Len(publishList') : publishList'[i] = publishList[i + 1]
  <2>1. publishList \in Seq(Packets) /\ publishList # <<>>
    BY DEF TypeOK, SendPublish
  <2>. QED BY <1>1, <2>1, HeadTailProperties
<1>3. \A i \in 1..Len(publishList) : publishList[i].n \in Nat
  BY ListNumbers
<1>4. lastSent' \in {lastSent, publishList[1].n} /\ created' = created
  BY <1>1 DEF SendPublish
<1>5. pending' \in {NoPacket, publishList[1]}
  BY <1>1 DEF SendPublish
<1>6. lastSent < publishList[1].n /\ publishList[1].n <= created
  BY <1>1 DEF ListOrdered
<1>7. lastSent \in Nat /\ created \in Nat
  BY DEF TypeOK
<1>8. \A i \in 1..Len(publishList') :
        lastSent' < publishList'[i].n /\ publishList'[i].n <= created'
  BY <1>1, <1>2, <1>3, <1>4, <1>6, <1>7 DEF ListOrdered
<1>9. \A i, j \in 1..Len(publishList') : i < j => publishList'[i].n < publishList'[j].n
  BY <1>1, <1>2 DEF ListOrdered
<1>10. lastSent' <= created' /\ (pending' # NoPacket => pending'.n > 0)
  BY <1>1, <1>3, <1>4, <1>5, <1>6, <1>7 DEF ListOrdered
<1>. QED BY <1>8, <1>9, <1>10 DEF ListOrdered

(* Which steps touch the list, the packet in flight and the counters.       *)
LEMMA ListSteps ==
  ASSUME [Next]_vars
  PROVE  \/ UNCHANGED listVars
         \/ \E qos \in {0, 1} : AddPublishPacket(qos)
         \/ \E ok \in BOOLEAN : SendPublish(ok)
         \/ ReceivePuback
<1>1. ASSUME TransmissionHandler
      PROVE  UNCHANGED listVars \/ \E ok \in BOOLEAN : SendPublish(ok)
  BY <1>1 DEF TransmissionHandler, SendConnect, SendRequest, SendPingreq
<1>2. ASSUME ReceptionHandler
      PROVE  \/ UNCHANGED listVars
             \/ \E qos \in {0, 1} : AddPublishPacket(qos)
             \/ ReceivePuback
  BY <1>2 DEF ReceptionHandler, TimeoutClose, ReceiveConnack, RefuseConnack,
              ReceivePingresp, ReceiveSuback, ReceiveUnsuback, ReceivePublish, Disconnect
<1>. QED BY <1>1, <1>2
         DEF Next, CreateConnectPacket, CreatePublishPacket, CreateRequestPacket,
             AssertPublishFound, Disconnect, TimerCallback, Sched, OpenSocket, LoseSocket,
             GetReceivedData, BrokerPublish, ClientInitialize, vars

LEMMA OrderedStep == TypeOK /\ ListOrdered /\ [Next]_vars => ListOrdered'
<1>. SUFFICES ASSUME TypeOK, ListOrdered, [Next]_vars PROVE ListOrdered'
  OBVIOUS
<1>1. CASE UNCHANGED listVars
  BY <1>1 DEF ListOrdered, listVars
<1>2. CASE ReceivePuback
  BY <1>2 DEF ReceivePuback, ListOrdered
<1>. QED BY <1>1, <1>2, AddOrdered, SendOrdered, ListSteps

(* The packets that wait are unsent, and in the order of their creation.    *)
THEOREM OrderedCorrect == Spec => []ListOrdered
<1>1. Init => ListOrdered
  BY DEF Init, ListOrdered
<1>. QED BY <1>1, OrderedStep, TypeCorrect, PTL DEF Spec

LEMMA ChannelInit == Init => Channel!Init
BY DEF Init, Channel!Init, NoPacket

LEMMA ChannelStep ==
  TypeOK /\ PubackHasPacket /\ ListOrdered /\ [Next]_vars => [Channel!Next]_(Channel!channel)
<1>. SUFFICES ASSUME TypeOK, PubackHasPacket, ListOrdered, [Next]_vars
              PROVE  Channel!Next \/ UNCHANGED Channel!channel
  BY DEF Channel!channel
<1>1. CASE UNCHANGED listVars
  BY <1>1 DEF listVars, Channel!channel
<1>2. ASSUME NEW qos \in {0, 1}, AddPublishPacket(qos)
      PROVE  Channel!Next
  BY <1>2 DEF AddPublishPacket, Channel!Next, Channel!Accept
<1>3. ASSUME NEW ok \in BOOLEAN, SendPublish(ok)
      PROVE  Channel!Next \/ UNCHANGED Channel!channel
  <2>. DEFINE packet == Head(publishList)
  <2>1. pending.n = 0 /\ created' = created
    BY <1>3 DEF SendPublish, PublishTurn, NoPacket
  <2>2. packet.n \in Nat /\ lastSent < packet.n /\ packet.n <= created
    BY <1>3, FirstOfList DEF SendPublish, Packets, ListOrdered
  <2>3. CASE ok
    <3>1. lastSent' = packet.n /\ pending'.n \in {0, packet.n}
      BY <1>3, <2>3 DEF SendPublish, NoPacket
    <3>2. Channel!Transmit(packet.n)
      BY <2>1, <2>2, <3>1 DEF Channel!Transmit
    <3>3. packet.n \in 1..created
      BY <2>2 DEF TypeOK
    <3>. QED BY <3>2, <3>3 DEF Channel!Next
  <2>4. CASE ~ok
    BY <1>3, <2>1, <2>4 DEF SendPublish, NoPacket, Channel!channel
  <2>. QED BY <2>3, <2>4
<1>4. CASE ReceivePuback
  BY <1>4 DEF ReceivePuback, ListOrdered, NoPacket, TypeOK, Packets, Channel!Next,
              Channel!Acknowledge, Channel!channel
<1>. QED BY <1>1, <1>2, <1>3, <1>4, ListSteps

(* Every behaviour of the engine is one of the abstract channel: PUBLISH    *)
(* packets leave in order, at most once, and one at a time while a PUBACK   *)
(* is owed.                                                                 *)
THEOREM ChannelCorrect == Spec => ImplementsPublishChannel
<1>. QED BY ChannelInit, ChannelStep, TypeCorrect, PubackCorrect, OrderedCorrect, PTL
         DEF Spec, ImplementsPublishChannel, Channel!Spec
===============================================================================
