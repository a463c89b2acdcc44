------------------------------ MODULE Publishers ------------------------------
(***************************************************************************)
(* The two contexts that publish once the hub session is up.  The main     *)
(* loop builds a message in one of azutil.c's static buffers, queues a     *)
(* PUBLISH packet for it and, later, sends the packet; the interrupt of    *)
(* the SPI slave (the DTI link) does the first two in one go, between any  *)
(* two accesses of the main loop to the list, to the flags and to the      *)
(* buffers, none of which is guarded.  The interrupts all have priority 3, *)
(* so none interrupts another; dps_assigning_task, which SYS_TIME calls in *)
(* the interrupt of TC3 while the device registers, queues its PUBLISH in  *)
(* the same way.  malloc() and free() are taken to be atomic.              *)
(*                                                                         *)
(* MqttCore.tla has the same list under handlers that run one at a time;   *)
(* here each of them is cut where another context can come between.        *)
(***************************************************************************)
EXTENDS Naturals, FiniteSets

CONSTANTS
  Nodes,        \* bound: the heap blocks left for PUBLISH packets
  Null,         \* the NULL pointer
  Publishers,   \* the publishers of the main loop in use
  Lengths,      \* the lengths of messages in use, in halves of a buffer
  MaxPublish    \* bound: messages built in a behaviour

MainPublishers == {"telemetry", "button", "cli"}

ASSUME NodesAssumption == IsFiniteSet(Nodes) /\ Null \notin Nodes
ASSUME PublishersAssumption == Publishers \subseteq MainPublishers
ASSUME LengthsAssumption == Lengths \subseteq 1..2
ASSUME MaxAssumption == MaxPublish \in Nat

VARIABLES
  head,      \* txPublishPacketHead
  next,      \* the next pointer of each block
  packet,    \* the message each block was queued for
  used,      \* the blocks malloc() has given out
  pending,   \* txPublishPacketPending
  flags,     \* mqttTxFlags: "publish", and "other" for the rest
  buf,       \* the two halves of each payload buffer: the message written last
             \* to each
  main,      \* the main loop: its next access, and its locals
  created,   \* history: messages built
  doomed,    \* history: blocks queued where the main loop overwrites the link
  raced      \* history: the flag is being, or was, cleared over a packet

heap  == <<next, packet, used>>
ghost == <<created, doomed, raced>>
vars  == <<head, heap, pending, flags, buf, main, ghost>>

-----------------------------------------------------------------------------
(* Data.                                                                    *)

(* A message: who built it, its number in order of building, and its        *)
(* length, 0 for the zeros its buffer is cleared with before it.            *)
Messages  == [by : MainPublishers \cup {"uart"}, n : Nat, len : 0..2]
Zeros(m)  == [m EXCEPT !.len = 0]
NoMessage == [by |-> "uart", n |-> 0, len |-> 0]

Buffers == {"telemetry", "button", "uart"}

Empty == [h \in 1..2 |-> NoMessage]

(* A buffer b with the first half of m: the button's is not cleared first.  *)
Begun(b, m) ==
  [h \in 1..2 |-> IF h = 1 THEN m ELSE IF m.by = "button" THEN b[2] ELSE Zeros(m)]

(* The rest of m, when it is long.                                          *)
Ended(b, m) == IF m.len = 2 THEN [b EXCEPT ![2] = m] ELSE b

(* Fault: the button event is built in the telemetry's buffer.              *)
BufferShared(p) == IF p \in {"cli", "uart"} THEN "uart" ELSE "telemetry"

(* The payload buffer of a publisher.  The telemetry command of the command *)
(* line and the DTI interrupt call the same process_telemetry_command.      *)
BufferOf(p) == IF p \in {"cli", "uart"} THEN "uart" ELSE p

Idle == [pc |-> "idle", msg |-> NoMessage, node |-> Null, at |-> Null, reg |-> {},
         after |-> "idle", copy |-> Empty]

-----------------------------------------------------------------------------
(* The list, as its pointers make it.                                       *)

(* Neither h nor a pointer in S leads out of S.                             *)
Closed(S, h, nx) == h \in S \cup {Null} /\ \A n \in S : nx[n] \in S \cup {Null}

(* The blocks h leads to: the least such set.                               *)
Leads(h, nx) == {n \in Nodes : \A S \in SUBSET Nodes : Closed(S, h, nx) => n \in S}

Chain == Leads(head, next)

Last == CHOOSE n \in Chain : next[n] = Null

(* Blocks nobody can reach any more.                                        *)
Lost == used \ (Chain \cup {pending, main.node})

Stranded == Chain # {} /\ "publish" \notin flags

-----------------------------------------------------------------------------
(* The main loop builds and queues a message.                               *)

(* The first part of a message is written to its buffer.                    *)
Build(p) ==
  /\ main.pc = "idle"
  /\ created < MaxPublish
  /\ created' = created + 1
  /\ \E len \in Lengths :
       main' = [Idle EXCEPT !.pc = "build",
                            !.msg = [by |-> p, n |-> created + 1, len |-> len]]
  /\ buf' = [buf EXCEPT ![BufferOf(p)] = Begun(@, main'.msg)]
  /\ UNCHANGED <<head, heap, pending, flags, doomed, raced>>

Finish ==
  /\ main.pc = "build"
  /\ main' = [main EXCEPT !.pc = "create"]
  /\ buf' = [buf EXCEPT ![BufferOf(main.msg.by)] = Ended(@, main.msg)]
  /\ UNCHANGED <<head, heap, pending, flags, ghost>>

(* malloc() and the filling of the new packet, which nobody can see yet: it *)
(* has the pointer to the buffer and the length of the message.             *)
NewPacket(n, m) ==
  /\ n \in Nodes \ used
  /\ used' = used \cup {n}
  /\ packet' = [packet EXCEPT ![n] = m]

(* Fault: malloc()'s result is not looked at.                               *)
CreateUnchecked ==
  /\ main.pc = "create"
  /\ \/ \E n \in Nodes :
          /\ NewPacket(n, main.msg)
          /\ next' = [next EXCEPT ![n] = Null]
          /\ main' = [main EXCEPT !.pc = "add", !.node = n]
     \/ main' = [main EXCEPT !.pc = "add"] /\ UNCHANGED heap
  /\ UNCHANGED <<head, pending, flags, buf, ghost>>

(* MQTT_CreatePublishPacket up to the list; malloc() may fail.              *)
Create ==
  /\ main.pc = "create"
  /\ \/ \E n \in Nodes :
          /\ NewPacket(n, main.msg)
          /\ next' = [next EXCEPT ![n] = Null]
          /\ main' = [main EXCEPT !.pc = "add", !.node = n]
     \/ main' = Idle /\ UNCHANGED heap
  /\ UNCHANGED <<head, pending, flags, buf, ghost>>

(* MQTT_AddPublishPacketToList: the head is read,                           *)
Add ==
  /\ main.pc = "add"
  /\ main' = IF head = Null THEN [main EXCEPT !.pc = "first"]
                            ELSE [main EXCEPT !.pc = "walk", !.at = head]
  /\ UNCHANGED <<head, heap, pending, flags, buf, ghost>>

(* and written when it was NULL;                                            *)
AddFirst ==
  /\ main.pc = "first"
  /\ head' = main.node
  /\ main' = [main EXCEPT !.pc = "mark", !.node = Null]
  /\ UNCHANGED <<heap, pending, flags, buf, ghost>>

(* otherwise the list is walked to a packet whose next pointer reads NULL,  *)
Walk ==
  /\ main.pc = "walk"
  /\ main' = IF next[main.at] = Null THEN [main EXCEPT !.pc = "last"]
                                     ELSE [main EXCEPT !.at = next[main.at]]
  /\ UNCHANGED <<head, heap, pending, flags, buf, ghost>>

(* and the new packet is written there.                                     *)
AddLast ==
  /\ main.pc = "last"
  /\ next' = [next EXCEPT ![main.at] = main.node]
  /\ main' = [main EXCEPT !.pc = "mark", !.node = Null, !.at = Null]
  /\ UNCHANGED <<head, packet, used, pending, flags, buf, ghost>>

-----------------------------------------------------------------------------
(* The flags: a bit-field is changed by a load and a store of its byte.     *)

Load(bits, after) ==
  main' = [main EXCEPT !.pc = "store", !.reg = bits, !.after = after]

Mark ==
  /\ main.pc = "mark"
  /\ Load(flags \cup {"publish"}, "idle")
  /\ UNCHANGED <<head, heap, pending, flags, buf, ghost>>

(* Another flag is set (a PINGREQ becomes due, a topic is to be subscribed) *)
(* or, when PUBLISH does not come first, cleared by the send it asks for.   *)
Other ==
  /\ main.pc = "idle"
  /\ \/ Load(flags \cup {"other"}, "idle")
     \/ flags = {"other"} /\ Load({}, "idle")
  /\ UNCHANGED <<head, heap, pending, flags, buf, ghost>>

Store ==
  /\ main.pc = "store"
  /\ flags' = main.reg
  /\ raced' = (raced /\ "publish" \notin main.reg)
  /\ main' = IF main.after = "idle" THEN Idle ELSE [main EXCEPT !.pc = main.after, !.reg = {}]
  /\ UNCHANGED <<head, heap, pending, buf, created, doomed>>

-----------------------------------------------------------------------------
(* The main loop sends: SENDPUBLISH of MQTT_TransmissionHandler.            *)

(* mqttSendPublish: no packet is an assert(false); the oldest is read,      *)
Get ==
  /\ main.pc = "idle"
  /\ "publish" \in flags
  /\ pending = Null
  /\ main' = IF head = Null THEN [main EXCEPT !.pc = "halted"]
                            ELSE [main EXCEPT !.pc = "next", !.node = head]
  /\ UNCHANGED <<head, heap, pending, flags, buf, ghost>>

(* then its next pointer,                                                   *)
ReadNext ==
  /\ main.pc = "next"
  /\ main' = [main EXCEPT !.pc = "unlink", !.at = next[main.node]]
  /\ UNCHANGED <<head, heap, pending, flags, buf, ghost>>

(* which becomes the head.                                                  *)
Unlink ==
  /\ main.pc = "unlink"
  /\ head' = main.at
  /\ main' = [main EXCEPT !.pc = "copy", !.at = Null]
  /\ UNCHANGED <<heap, pending, flags, buf, ghost>>

(* The payload is copied from where its pointer leads now, as many bytes as *)
(* the packet was created with.                                             *)
Source == buf[BufferOf(packet[main.node].by)]

Copy ==
  /\ main.pc = "copy"
  /\ main' = [main EXCEPT !.pc = "copy2", !.copy[1] = Source[1]]
  /\ UNCHANGED <<head, heap, pending, flags, buf, ghost>>

CopyRest ==
  /\ main.pc = "copy2"
  /\ main' = [main EXCEPT !.pc = "send",
                          !.copy = IF packet[main.node].len = 2
                                     THEN [@ EXCEPT ![2] = Source[2]] ELSE @]
  /\ UNCHANGED <<head, heap, pending, flags, buf, ghost>>

Free(n) == used' = used \ {n} /\ UNCHANGED <<next, packet>>

(* Fault: the flag is cleared whether or not the list is empty.             *)
SendClears(ok) ==
  /\ main.pc = "send"
  /\ IF ok THEN main' = [main EXCEPT !.pc = "clear"] /\ UNCHANGED heap
           ELSE main' = Idle /\ Free(main.node)
  /\ UNCHANGED <<head, pending, flags, buf, ghost>>

(* Fault: a packet that was not sent is not freed.                          *)
SendLeaks(ok) ==
  /\ main.pc = "send"
  /\ main' = IF ok THEN [main EXCEPT !.pc = IF head = Null THEN "clear" ELSE "keep"]
                   ELSE Idle
  /\ UNCHANGED <<head, heap, pending, flags, buf, ghost>>

(* MQTT_Send.  After it the head is looked at; a refused packet is freed    *)
(* and its flag stays.                                                      *)
Send(ok) ==
  /\ main.pc = "send"
  /\ IF ok
       THEN /\ main' = [main EXCEPT !.pc = IF head = Null THEN "clear" ELSE "keep"]
            /\ UNCHANGED heap
       ELSE main' = Idle /\ Free(main.node)
  /\ UNCHANGED <<head, pending, flags, buf, ghost>>

Clear ==
  /\ main.pc = "clear"
  /\ Load(flags \ {"publish"}, "keep")
  /\ UNCHANGED <<head, heap, pending, flags, buf, ghost>>

(* Fault: a packet is freed though it waits for its PUBACK.                 *)
KeepFreed ==
  /\ main.pc = "keep"
  /\ pending' = main.node
  /\ Free(main.node)
  /\ main' = Idle
  /\ UNCHANGED <<head, flags, buf, ghost>>

(* Every message of CLOUD_publishData is QoS 1.                             *)
Keep ==
  /\ main.pc = "keep"
  /\ pending' = main.node
  /\ main' = Idle
  /\ UNCHANGED <<head, heap, flags, buf, ghost>>

(* mqttProcessPuback for the packet that waits.                             *)
Puback ==
  /\ main.pc = "idle"
  /\ pending # Null
  /\ Free(pending)
  /\ pending' = Null
  /\ UNCHANGED <<head, flags, buf, main, ghost>>

-----------------------------------------------------------------------------
(* The interrupt: the last byte of a DTI frame has arrived.                 *)

(* The main loop has read a NULL link and is about to write it.             *)
LinkRead == main.pc \in {"first", "last"} \/ (main.pc = "unlink" /\ main.at = Null)

(* The main loop has decided on a value of the flags without "publish".     *)
FlagRead == main.pc = "clear" \/ (main.pc = "store" /\ "publish" \notin main.reg)

(* process_telemetry_command writes the whole message.                      *)
ProcessTelemetry(m) == buf' = [buf EXCEPT ![BufferOf("uart")] = Ended(Begun(@, m), m)]

(* MQTT_CreatePublishPacket from the list on.                               *)
Queue(n) ==
  /\ next' = [m \in Nodes |-> IF m = n THEN Null
                              ELSE IF head # Null /\ m = Last THEN n ELSE next[m]]
  /\ head' = IF head = Null THEN n ELSE head
  /\ flags' = flags \cup {"publish"}

Received(m) ==
  /\ ProcessTelemetry(m)
  /\ \/ \E n \in Nodes :
          /\ NewPacket(n, m)
          /\ Queue(n)
          /\ doomed' = IF LinkRead THEN doomed \cup {n} ELSE doomed
          /\ raced' = FlagRead
     \/ UNCHANGED <<head, heap, flags, doomed, raced>>
  /\ UNCHANGED <<pending, main>>

Frame ==
  /\ created < MaxPublish
  /\ created' = created + 1
  /\ \E len \in Lengths : Received([by |-> "uart", n |-> created + 1, len |-> len])

-----------------------------------------------------------------------------
Init ==
  /\ head = Null /\ pending = Null /\ used = {} /\ flags = {}
  /\ next = [n \in Nodes |-> Null]
  /\ packet = [n \in Nodes |-> NoMessage]
  /\ buf = [b \in Buffers |-> Empty]
  /\ main = Idle
  /\ created = 0 /\ doomed = {} /\ raced = FALSE

(* What the main loop does once it has begun.                               *)
MainStep ==
  \/ Finish \/ Create \/ Add \/ AddFirst \/ Walk \/ AddLast \/ Mark \/ Store
  \/ ReadNext \/ Unlink \/ Copy \/ CopyRest \/ Send(TRUE) \/ Send(FALSE)
  \/ Clear \/ Keep

Next ==
  \/ \E p \in Publishers : Build(p)
  \/ Other \/ Get \/ Puback \/ MainStep \/ Frame

(* The main loop goes on; in each of its turns it looks at the flags and at *)
(* what was received, and the hub acknowledges what it is sent.             *)
Fairness == WF_vars(MainStep) /\ SF_vars(Get) /\ SF_vars(Puback)

Spec     == Init /\ [][Next]_vars
FairSpec == Spec /\ Fairness

-----------------------------------------------------------------------------
(* Properties.                                                              *)

Pcs == {"idle", "build", "create", "add", "first", "walk", "last", "mark", "store",
        "next", "unlink", "copy", "copy2", "send", "clear", "keep", "halted"}

(* The packet the main loop works on between malloc() and the list, or      *)
(* between the list and free().                                             *)
Holding == main.pc \in {"add", "first", "walk", "last", "next", "unlink", "copy",
                        "copy2", "send", "clear", "keep"}

(* Types; and the main loop follows a pointer only when it has one.         *)
PublishersTypeOK ==
  /\ head \in Nodes \cup {Null} /\ pending \in Nodes \cup {Null}
  /\ next \in [Nodes -> Nodes \cup {Null}] /\ packet \in [Nodes -> Messages]
  /\ used \subseteq Nodes /\ doomed \subseteq Nodes
  /\ flags \subseteq {"publish", "other"}
  /\ buf \in [Buffers -> [1..2 -> Messages]]
  /\ created \in 0..MaxPublish /\ raced \in BOOLEAN
  /\ main \in [pc : Pcs, msg : Messages, node : Nodes \cup {Null},
               at : Nodes \cup {Null}, reg : SUBSET {"publish", "other"},
               after : {"idle", "keep"}, copy : [1..2 -> Messages]]
  /\ Holding => main.node \in Nodes
  /\ main.pc \in {"walk", "last"} => main.at \in Nodes

(* Whenever the interrupt comes, what the list leads to ends, is allocated, *)
(* and holds neither the packet that waits for its PUBACK nor the one the   *)
(* main loop has taken out (MQTT_GetPublishPacket, free() in               *)
(* mqttSendPublish and mqttProcessPuback): nothing is used after its free() *)
(* or freed twice.                                                          *)
HeapSound ==
  /\ Chain = {} \/ \E n \in Chain : next[n] = Null
  /\ Chain \subseteq used
  /\ Chain \cap {pending} = {}
  /\ pending # Null => pending \in used /\ pending # main.node
  /\ Holding => main.node \in used
  /\ main.pc \notin {"next", "unlink"} => main.node \notin Chain

(* A packet is lost (never sent, never freed) exactly when the interrupt    *)
(* queued it where the main loop had just read a NULL link to write it      *)
(* (MQTT_AddPublishPacketToList, MQTT_GetPublishPacket): the main loop's    *)
(* own packets are never lost, nor is any when the interrupt comes at       *)
(* another moment.                                                          *)
OnlyRacedLost ==
  main.pc = "idle" => /\ Lost = doomed
                      /\ \A n \in doomed : packet[n].by = "uart"

(* "Indicates new PUBLISH packet available for transmission" (mqtt_core.c): *)
(* at rest, packets are listed without it exactly when the interrupt came   *)
(* between the main loop's last look and its store of the flags, and until  *)
(* the next publish.                                                        *)
OnlyRacedStranded == main.pc = "idle" => (Stranded <=> raced)

(* What a PUBLISH carries: as many bytes as its packet was created with, of *)
(* what the buffer holds when it is sent (MQTT_CreatePublishPacket,         *)
(* mqttSendPublish).  They are its own publisher's, none older than the     *)
(* packet, and of one message, cut if that is longer than the packet; only  *)
(* if it is shorter is something else behind it, the zeros the telemetry's  *)
(* buffer is cleared with, or the end of an older button event.  Only the   *)
(* buffer the command line and the DTI interrupt share ("another set of     *)
(* buffers in case two telemetry collides", azutil.c:30) can be sent torn   *)
(* or with the other's.                                                     *)
SentOwn ==
  main.pc = "send" =>
    LET p    == packet[main.node]
        m    == main.copy[1]
        sent == {main.copy[h] : h \in 1..p.len}
    IN IF p.by \in {"cli", "uart"}
         THEN \A s \in sent : s.by \in {"cli", "uart"}
         ELSE /\ \A s \in sent : s.by = p.by /\ s.n >= p.n
              /\ m.len >= p.len => sent \subseteq {m}
              /\ p.by = "telemetry" => sent \subseteq {m, Zeros(m)}

(* What is listed and flagged is all sent or given up, whatever comes in    *)
(* between, unless the flag is lost to the interrupt or the assert fails.   *)
Drains ==
  (Chain # {} /\ "publish" \in flags)
    ~> (Chain = {} \/ raced \/ main.pc = "halted")
===============================================================================
