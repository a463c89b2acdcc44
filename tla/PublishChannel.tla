---------------------------- MODULE PublishChannel ----------------------------
(***************************************************************************)
(* What mqtt_core.c promises of PUBLISH packets, whatever happens to the   *)
(* connection: they go out in the order of their creation, none goes out   *)
(* twice, some may be dropped, and while a QoS 1 packet has no PUBACK yet  *)
(* nothing follows it.                                                     *)
(*                                                                         *)
(* Packets are numbered 1, 2, ... as they are created.  The promise is an  *)
(* interface: it has no source lines of its own, MqttCore implements it.   *)
(***************************************************************************)
EXTENDS Naturals

VARIABLES
  accepted,   \* number of packets taken from the application
  sent,       \* the packet sent last, 0 before the first
  inflight    \* the QoS 1 packet without a PUBACK, 0 if there is none

channel == <<accepted, sent, inflight>>

Init == accepted = 0 /\ sent = 0 /\ inflight = 0

(* The application adds a packet.                                           *)
Accept ==
  /\ accepted' = accepted + 1
  /\ UNCHANGED <<sent, inflight>>

(* Packet n goes out; those between the last one sent and n were dropped.   *)
Transmit(n) ==
  /\ inflight = 0
  /\ sent < n /\ n <= accepted
  /\ sent' = n
  /\ inflight' \in {0, n}
  /\ UNCHANGED accepted

(* The broker acknowledges the packet in flight.                            *)
Acknowledge ==
  /\ inflight # 0
  /\ inflight' = 0
  /\ UNCHANGED <<accepted, sent>>

Next == Accept \/ (\E n \in 1..accepted : Transmit(n)) \/ Acknowledge

Spec == Init /\ [][Next]_channel
===============================================================================
