--------------------------- MODULE PublishersProofs ---------------------------
(* Theorems about Publishers, for every number of blocks and of messages and  *)
(* every choice of the main loop's publishers.                                *)
EXTENDS Publishers, TLAPS

-------------------------------------------------------------------------------
(* The inductive invariant.                                                   *)

Own == {"telemetry", "button"}

(* The main loop has a packet: the one it adds, or the one it sends.        *)
Adding  == main.pc \in {"add", "first", "walk", "last"}
Taking  == main.pc \in {"next", "unlink"}
Sending == main.pc \in {"copy", "copy2", "send", "clear", "keep"}
           \/ (main.pc = "store" /\ main.after = "keep")

HasNode == Adding \/ Taking \/ Sending

Types ==
  /\ PublishersTypeOK
  /\ IF HasNode THEN main.node \in Nodes ELSE main.node = Null

(* The list is a path: no packet follows two others, none is followed by    *)
(* the first, and one is the last.                                          *)
Path ==
  /\ Chain \subseteq used
  /\ Chain # {} => \E n \in Chain : next[n] = Null
  /\ \A m, n \in Chain : next[m] = next[n] => m = n
  /\ \A n \in Chain : next[n] # head

(* Where the packets off the list are.                                      *)
OffList ==
  /\ pending # Null => pending \in used \ Chain
  /\ HasNode => main.node \in used /\ main.node # pending
  /\ Adding => main.node \notin Chain /\ next[main.node] = Null
  /\ Taking => main.node = head
  /\ Sending => main.node \notin Chain
  /\ Taking \/ Sending => pending = Null
  /\ main.pc \in {"walk", "last"} => main.at \in Chain
  /\ main.pc = "unlink" /\ main.at # Null => next[main.node] = main.at

(* The interrupt's packets behind a link that was read as NULL are on the   *)
(* list until it is written, and lost from then on.                         *)
Doomed ==
  /\ doomed \subseteq used \ {pending, main.node}
  /\ \A n \in doomed : packet[n].by = "uart"
  /\ ~LinkRead => Chain \cap doomed = {}
  /\ main.pc = "first" => Chain \subseteq doomed
  /\ main.pc = "unlink" /\ main.at = Null => Chain \subseteq doomed \cup {head}
  /\ main.pc = "last" =>
       /\ main.at \notin doomed
       /\ \A n \in Chain :
            IF n \in doomed \cup {main.at} THEN next[n] \in doomed \cup {Null}
                                           ELSE next[n] \notin doomed \cup {Null}
  /\ used \subseteq Chain \cup doomed \cup {pending, main.node}

ListInv == Path /\ OffList /\ Doomed

(* The flag is set behind every packet, unless it is about to be set, or    *)
(* was read without it before the interrupt set it.                         *)
FlagInv ==
  /\ main.pc \in {"idle", "build", "create", "keep"} =>
       (head # Null /\ "publish" \notin flags <=> raced)
  /\ Taking \/ main.pc \in {"copy", "copy2", "send"} => "publish" \in flags /\ ~raced
  /\ FlagRead => (head # Null <=> raced)

(* The buffers that only the main loop writes hold their publisher's bytes, *)
(* none older than a packet that leads there, ...                           *)
Newer(s, m) == s.by = m.by /\ s.n >= m.n

Holds(m) == Newer(buf[m.by][1], m) /\ (m.len = 2 => Newer(buf[m.by][2], m))

(* ... and a long message whole, unless it is being built.                  *)
WholeIn(b) == buf[b][1].len = 2 => buf[b][2] = buf[b][1]

BufferInv ==
  /\ \A n \in Nodes : packet[n].n <= created
  /\ \A n \in Nodes : packet[n].by \in Own => Holds(packet[n])
  /\ \A h \in 1..2 : buf["uart"][h].by \in {"cli", "uart"}
  /\ buf["telemetry"][2] \in {buf["telemetry"][1], Zeros(buf["telemetry"][1])}
  /\ \A b \in Own : (main.pc = "build" /\ main.msg.by = b) \/ WholeIn(b)
  /\ main.pc \in {"build", "create"} =>
       /\ main.msg.by \in MainPublishers /\ main.msg.n <= created
       /\ main.msg.by \in Own => buf[main.msg.by][1] = main.msg
  /\ main.pc \in {"copy2", "send"} =>
       IF packet[main.node].by \in Own THEN main.copy[1] = Source[1]
                                       ELSE main.copy[1].by \in {"cli", "uart"}
  /\ main.pc = "send" /\ packet[main.node].len = 2 =>
       IF packet[main.node].by \in Own THEN main.copy[2] = Source[2]
                                       ELSE main.copy[2].by \in {"cli", "uart"}

Inv == Types /\ ListInv /\ FlagInv /\ BufferInv

-------------------------------------------------------------------------------
(* What a pointer leads to, for every way the list is changed.                *)

Links == [Nodes -> Nodes \cup {Null}]

\* What h leads to is closed, ...
LEMMA LeadsClosed ==
  ASSUME NEW h \in Nodes \cup {Null}, NEW nx \in Links
  PROVE  Closed(Leads(h, nx), h, nx) /\ Leads(h, nx) \in SUBSET Nodes
<1>1. h # Null => h \in Leads(h, nx)
  BY DEF Leads, Closed
<1>2. ASSUME NEW n \in Leads(h, nx), nx[n] # Null PROVE nx[n] \in Leads(h, nx)
  <2>1. n \in Nodes /\ nx[n] \in Nodes
    BY <1>2 DEF Leads, Links
  <2>2. ASSUME NEW S \in SUBSET Nodes, Closed(S, h, nx) PROVE nx[n] \in S
    BY <1>2, <2>2 DEF Leads, Closed
  <2> QED BY <2>1, <2>2 DEF Leads
<1> QED BY <1>1, <1>2 DEF Closed, Leads

\* ... and the least closed set.
LEMMA LeadsLeast ==
  ASSUME NEW h, NEW nx, NEW S \in SUBSET Nodes, Closed(S, h, nx)
  PROVE  Leads(h, nx) \subseteq S
BY DEF Leads

\* A closed set that is part of every closed set is what h leads to.
LEMMA LeadsIs ==
  ASSUME NEW h, NEW nx, NEW C \in SUBSET Nodes, Closed(C, h, nx),
         \A S \in SUBSET Nodes : Closed(S, h, nx) => C \subseteq S
  PROVE  Leads(h, nx) = C
BY DEF Leads

\* NULL leads to nothing, a block with a NULL link to itself only.
LEMMA LeadsNowhere == ASSUME NEW nx PROVE Leads(Null, nx) = {}
<1>1. Closed({}, Null, nx)
  BY DEF Closed
<1> QED BY <1>1, LeadsLeast

LEMMA LeadsToOne ==
  ASSUME NEW n \in Nodes, NEW nx, nx[n] = Null
  PROVE  Leads(n, nx) = {n}
<1>1. Closed({n}, n, nx)
  BY DEF Closed
<1>2. ASSUME NEW S \in SUBSET Nodes, Closed(S, n, nx) PROVE {n} \subseteq S
  BY <1>2, NodesAssumption DEF Closed
<1> QED BY <1>1, <1>2, LeadsIs

\* Links of blocks that are not led to do not matter.
LEMMA LeadsSame ==
  ASSUME NEW h \in Nodes \cup {Null}, NEW nx \in Links, NEW nx2,
         \A m \in Leads(h, nx) : nx2[m] = nx[m]
  PROVE  Leads(h, nx2) = Leads(h, nx)
<1> DEFINE C == Leads(h, nx)
<1>1. Closed(C, h, nx) /\ C \in SUBSET Nodes
  BY LeadsClosed
<1>2. Closed(C, h, nx2)
  BY <1>1 DEF Closed
<1>3. ASSUME NEW S \in SUBSET Nodes, Closed(S, h, nx2) PROVE C \subseteq S
  <2>1. Closed(S \cap C, h, nx)
    BY <1>1, <1>3 DEF Closed
  <2> QED BY <2>1, LeadsLeast
<1> QED BY <1>1, <1>2, <1>3, LeadsIs

\* A block is put behind the last one.
LEMMA LeadsAppend ==
  ASSUME NEW h \in Nodes \cup {Null}, NEW nx \in Links, NEW nx2,
         NEW last \in Leads(h, nx), nx[last] = Null,
         NEW n \in Nodes \ Leads(h, nx), nx2[n] = Null, nx2[last] = n,
         \A m \in Leads(h, nx) \ {last} : nx2[m] = nx[m]
  PROVE  Leads(h, nx2) = Leads(h, nx) \cup {n}
<1> DEFINE C == Leads(h, nx)
<1>1. Closed(C, h, nx) /\ C \in SUBSET Nodes
  BY LeadsClosed
<1>2. Closed(C \cup {n}, h, nx2)
  BY <1>1 DEF Closed
<1>3. ASSUME NEW S \in SUBSET Nodes, Closed(S, h, nx2) PROVE C \cup {n} \subseteq S
  <2>1. Closed(S \cap C, h, nx)
    BY <1>1, <1>3 DEF Closed
  <2>2. C \subseteq S
    BY <2>1, LeadsLeast
  <2>3. n \in S
    BY <1>3, <2>2, NodesAssumption DEF Closed
  <2> QED BY <2>2, <2>3
<1> QED BY <1>1, <1>2, <1>3, LeadsIs

\* A link is written over: what was behind it, all in D, is no longer led to.
LEMMA LeadsReplace ==
  ASSUME NEW h \in Nodes \cup {Null}, NEW nx \in Links, NEW nx2,
         NEW D, NEW at \in Leads(h, nx), at \notin D,
         NEW n \in Nodes \ Leads(h, nx), nx2[n] = Null, nx2[at] = n,
         \A m \in Leads(h, nx) \ {at} : nx2[m] = nx[m],
         \A m \in Leads(h, nx) : IF m \in D \cup {at} THEN nx[m] \in D \cup {Null}
                                                     ELSE nx[m] \notin D \cup {Null}
  PROVE  Leads(h, nx2) = (Leads(h, nx) \ D) \cup {n}
<1> DEFINE C == Leads(h, nx)
           T == (C \ D) \cup {n}
<1>1. Closed(C, h, nx) /\ C \in SUBSET Nodes
  BY LeadsClosed
<1>2. h \in C \ D
  <2>1. h \in C
    BY <1>1, LeadsNowhere DEF Closed
  <2>2. ASSUME h \in D PROVE FALSE
    <3>1. Closed(C \cap D, h, nx)
      BY <1>1, <2>1, <2>2 DEF Closed
    <3> QED BY <1>1, <3>1, LeadsLeast
  <2> QED BY <2>1, <2>2
<1>3. Closed(T, h, nx2)
  <2>1. ASSUME NEW m \in T PROVE nx2[m] \in T \cup {Null}
    <3>1. CASE m \in {n, at}
      BY <3>1
    <3>2. CASE m \notin {n, at}
      BY <1>1, <3>2 DEF Closed
    <3> QED BY <3>1, <3>2
  <2> QED BY <1>2, <2>1 DEF Closed
<1>4. ASSUME NEW S \in SUBSET Nodes, Closed(S, h, nx2) PROVE T \subseteq S
  <2> DEFINE R == (S \cap (C \ D)) \cup (C \cap D)
  <2>1. ASSUME NEW m \in R PROVE nx[m] \in R \cup {Null}
    <3>1. CASE m \in D \cup {at}
      BY <1>1, <3>1 DEF Closed
    <3>2. CASE m \notin D \cup {at}
      BY <1>1, <1>4, <3>2 DEF Closed
    <3> QED BY <3>1, <3>2
  <2>2. h \in R
    BY <1>2, <1>4, NodesAssumption, <1>1 DEF Closed
  <2>3. C \subseteq R
    <3>1. Closed(R, h, nx) /\ R \in SUBSET Nodes
      BY <1>1, <2>1, <2>2 DEF Closed
    <3> HIDE DEF R
    <3> QED BY <3>1, LeadsLeast
  <2>4. n \in S
    BY <1>4, <2>3, NodesAssumption DEF Closed
  <2> QED BY <2>3, <2>4
<1>5. T \in SUBSET Nodes
  BY <1>1
<1> HIDE DEF T
<1> QED BY <1>3, <1>4, <1>5, LeadsIs DEF T

\* The first block is taken off.
LEMMA LeadsDrop ==
  ASSUME NEW h \in Nodes, NEW nx \in Links, \A m \in Leads(h, nx) : nx[m] # h
  PROVE  Leads(nx[h], nx) = Leads(h, nx) \ {h}
<1> DEFINE C == Leads(h, nx)
<1>1. Closed(C, h, nx) /\ C \in SUBSET Nodes /\ h \in C
  BY LeadsClosed, NodesAssumption DEF Closed
<1>2. Closed(C \ {h}, nx[h], nx)
  BY <1>1 DEF Closed
<1>3. ASSUME NEW S \in SUBSET Nodes, Closed(S, nx[h], nx) PROVE C \ {h} \subseteq S
  <2>1. Closed(S \cup {h}, h, nx)
    BY <1>3 DEF Closed
  <2> QED BY <2>1, LeadsLeast
<1> QED BY <1>1, <1>2, <1>3, LeadsIs

-------------------------------------------------------------------------------
(* Types.                                                                     *)

LEMMA BufferOfType == \A p \in MainPublishers \cup {"uart"} : BufferOf(p) \in Buffers
BY DEF BufferOf, MainPublishers, Buffers

LEMMA EmptyType == Empty \in [1..2 -> Messages]
BY DEF Empty, NoMessage, Messages

LEMMA ZerosType == \A m \in Messages : Zeros(m) \in Messages
BY DEF Zeros, Messages

\* What is in a buffer when a message is begun, and when it is ended.
LEMMA BegunHalves ==
  ASSUME NEW b, NEW m
  PROVE  /\ Begun(b, m)[1] = m
         /\ Begun(b, m)[2] = IF m.by = "button" THEN b[2] ELSE Zeros(m)
         /\ DOMAIN Begun(b, m) = 1..2
BY DEF Begun

LEMMA BegunType ==
  ASSUME NEW b \in [1..2 -> Messages], NEW m \in Messages
  PROVE  Begun(b, m) \in [1..2 -> Messages]
BY ZerosType DEF Begun

LEMMA EndedHalves ==
  ASSUME NEW b \in [1..2 -> Messages], NEW m \in Messages
  PROVE  /\ Ended(b, m)[1] = b[1]
         /\ Ended(b, m)[2] = IF m.len = 2 THEN m ELSE b[2]
         /\ Ended(b, m) \in [1..2 -> Messages]
BY DEF Ended

LEMMA MainTypes ==
  ASSUME Types
  PROVE  /\ main.pc \in Pcs /\ main.msg \in Messages /\ main.node \in Nodes \cup {Null}
         /\ main.at \in Nodes \cup {Null} /\ main.reg \subseteq {"publish", "other"}
         /\ main.after \in {"idle", "keep"} /\ main.copy \in [1..2 -> Messages]
         /\ main = [pc |-> main.pc, msg |-> main.msg, node |-> main.node, at |-> main.at,
                    reg |-> main.reg, after |-> main.after, copy |-> main.copy]
BY DEF Types, PublishersTypeOK

MainStates ==
  [pc : Pcs, msg : Messages, node : Nodes \cup {Null}, at : Nodes \cup {Null},
   reg : SUBSET {"publish", "other"}, after : {"idle", "keep"}, copy : [1..2 -> Messages]]

\* What the steps with nested updates do to the main loop's state.
LEMMA FinishMain ==
  ASSUME Types, Finish
  PROVE  /\ main.pc = "build" /\ main'.pc = "create" /\ main'.node = main.node
         /\ main'.msg = main.msg
<1>1. main' = [main EXCEPT !.pc = "create"] /\ main.pc = "build"
  BY DEF Finish
<1> QED BY <1>1, MainTypes

LEMMA CopyMain ==
  ASSUME Types, Copy \/ CopyRest
  PROVE  /\ main.pc \in {"copy", "copy2"} /\ main'.node = main.node
         /\ main'.pc = IF main.pc = "copy" THEN "copy2" ELSE "send"
         /\ main'.copy[1] = IF main.pc = "copy" THEN Source[1] ELSE main.copy[1]
         /\ main.pc = "copy2" /\ packet[main.node].len = 2 => main'.copy[2] = Source[2]
<1>1. CASE Copy
  <2>1. main' = [main EXCEPT !.pc = "copy2", !.copy[1] = Source[1]] /\ main.pc = "copy"
    BY <1>1 DEF Copy
  <2> QED BY <2>1, MainTypes
<1>2. CASE CopyRest
  <2>1. /\ main.pc = "copy2"
        /\ main' = [main EXCEPT !.pc = "send",
                                !.copy = IF packet[main.node].len = 2
                                           THEN [@ EXCEPT ![2] = Source[2]] ELSE @]
    BY <1>2 DEF CopyRest
  <2> QED BY <2>1, MainTypes
<1> QED BY <1>1, <1>2

\* A frame brings one message of the interrupt's.
LEMMA FrameMessage ==
  ASSUME Types, Frame
  PROVE  \E m \in Messages : /\ Received(m) /\ m.by = "uart" /\ m.n = created + 1
                             /\ created' = created + 1 /\ created \in Nat
<1>1. PICK len \in Lengths : Received([by |-> "uart", n |-> created + 1, len |-> len])
  BY DEF Frame
<1>2. created \in Nat /\ created' = created + 1
  BY MaxAssumption DEF Frame, Types, PublishersTypeOK
<1>3. [by |-> "uart", n |-> created + 1, len |-> len] \in Messages
  BY <1>2, LengthsAssumption DEF Messages
<1> QED BY <1>1, <1>2, <1>3

LEMMA IdleTypes == Idle \in MainStates
BY EmptyType DEF Idle, Messages, NoMessage, Pcs, MainStates

LEMMA InitTypes == Init => Types
<1> SUFFICES ASSUME Init PROVE Types
  OBVIOUS
<1>1. NoMessage \in Messages
  BY DEF NoMessage, Messages
<1>2. main.pc = "idle" /\ main.node = Null /\ main.after = "idle"
  BY DEF Init, Idle
<1>3. buf \in [Buffers -> [1..2 -> Messages]] /\ packet \in [Nodes -> Messages]
  BY <1>1, EmptyType DEF Init
<1>4. created \in 0..MaxPublish
  BY MaxAssumption DEF Init
<1>5. raced \in BOOLEAN
  BY DEF Init
<1>6. /\ head \in Nodes \cup {Null} /\ pending \in Nodes \cup {Null}
      /\ next \in [Nodes -> Nodes \cup {Null}] /\ used \subseteq Nodes /\ doomed \subseteq Nodes
      /\ flags \subseteq {"publish", "other"} /\ main \in MainStates
  BY IdleTypes DEF Init
<1>7. PublishersTypeOK
  BY <1>2, <1>3, <1>4, <1>5, <1>6 DEF PublishersTypeOK, MainStates, Holding
<1> QED BY <1>2, <1>7 DEF Types, HasNode, Adding, Taking, Sending

LEMMA TypesStep == Types /\ [Next]_vars => Types'
<1> SUFFICES ASSUME Types, [Next]_vars PROVE Types'
  OBVIOUS
<1> USE MainTypes, IdleTypes, NodesAssumption DEF MainStates, Types, PublishersTypeOK, Holding, HasNode,
      Adding, Taking, Sending
<1>1. ASSUME NEW p \in Publishers, Build(p) PROVE Types'
  <2>1. created' \in 0..MaxPublish
    BY <1>1, MaxAssumption DEF Build
  <2>2. PICK len \in Lengths :
           main' = [Idle EXCEPT !.pc = "build",
                                !.msg = [by |-> p, n |-> created + 1, len |-> len]]
    BY <1>1 DEF Build
  <2>3. main'.pc = "build" /\ main'.node = Null /\ main'.after = "idle"
    BY <2>2 DEF Idle
  <2>4. main' \in MainStates /\ main'.msg \in Messages /\ BufferOf(p) \in Buffers
    <3>1. [by |-> p, n |-> created + 1, len |-> len] \in Messages /\ BufferOf(p) \in Buffers
      <4>1. created \in Nat /\ p \in MainPublishers /\ len \in 0..2
        BY PublishersAssumption, LengthsAssumption, MaxAssumption
      <4>2. created + 1 \in Nat
        BY <4>1
      <4> QED BY <4>1, <4>2, BufferOfType DEF Messages
    <3> HIDE DEF PublishersTypeOK, Types
    <3> QED BY <2>2, <3>1, IdleTypes DEF Pcs, Idle
  <2>5. buf' \in [Buffers -> [1..2 -> Messages]]
    BY <1>1, <2>4, BegunType DEF Build
  <2> QED BY <1>1, <2>1, <2>3, <2>4, <2>5 DEF Build, heap, MainStates
<1>2. CASE Finish
  <2>1. buf' \in [Buffers -> [1..2 -> Messages]]
    <3>1. BufferOf(main.msg.by) \in Buffers
      BY BufferOfType DEF Messages
    <3>2. buf' = [buf EXCEPT ![BufferOf(main.msg.by)] = Ended(buf[BufferOf(main.msg.by)], main.msg)]
      BY <1>2 DEF Finish
    <3>3. buf \in [Buffers -> [1..2 -> Messages]] /\ main.msg \in Messages
      OBVIOUS
    <3> HIDE DEF MainStates, Types, PublishersTypeOK
    <3> QED BY <3>1, <3>2, <3>3, EndedHalves
  <2> QED BY <1>2, <2>1 DEF Finish, heap, ghost, Pcs
<1>3. CASE Create
  <2>1. ASSUME NEW n \in Nodes, NewPacket(n, main.msg), next' = [next EXCEPT ![n] = Null],
               main' = [main EXCEPT !.pc = "add", !.node = n]
        PROVE  Types'
    <3>1. packet' \in [Nodes -> Messages] /\ used' \subseteq Nodes
      BY <2>1 DEF NewPacket
    <3>2. next' \in [Nodes -> Nodes \cup {Null}]
      BY <2>1
    <3>3. main' \in MainStates /\ main'.pc = "add" /\ main'.node = n
      BY <2>1 DEF Pcs
    <3> QED BY <1>3, <3>1, <3>2, <3>3 DEF Create, ghost
  <2>2. CASE main' = Idle /\ UNCHANGED heap
    <3>1. main'.pc = "idle" /\ main'.node = Null
      BY <2>2 DEF Idle
    <3> QED BY <1>3, <2>2, <3>1 DEF Create, heap, ghost
  <2> QED BY <1>3, <2>1, <2>2 DEF Create
<1>4. CASE Add
  BY <1>4 DEF Add, heap, ghost, Pcs
<1>5. CASE AddFirst
  BY <1>5 DEF AddFirst, heap, ghost, Pcs
<1>6. CASE Walk
  BY <1>6 DEF Walk, heap, ghost, Pcs
<1>7. CASE AddLast
  BY <1>7 DEF AddLast, heap, ghost, Pcs
<1>8. CASE Mark
  BY <1>8 DEF Mark, Load, heap, ghost, Pcs
<1>9. CASE Store
  BY <1>9 DEF Store, heap, ghost, Pcs, Idle
<1>10. CASE ReadNext
  BY <1>10 DEF ReadNext, heap, ghost, Pcs
<1>11. CASE Unlink
  BY <1>11 DEF Unlink, heap, ghost, Pcs
<1>12. CASE Copy
  <2>1. Source[1] \in Messages
    BY <1>12, BufferOfType DEF Copy, Source, Messages
  <2>2. main'.copy = [main.copy EXCEPT ![1] = Source[1]]
    BY <1>12 DEF Copy
  <2>3. main'.copy \in [1..2 -> Messages]
    BY <2>1, <2>2
  <2> QED BY <1>12, <2>3 DEF Copy, heap, ghost, Pcs
<1>13. CASE CopyRest
  <2>1. Source[2] \in Messages
    BY <1>13, BufferOfType DEF CopyRest, Source, Messages
  <2>2. main'.copy \in {main.copy, [main.copy EXCEPT ![2] = Source[2]]}
    BY <1>13 DEF CopyRest
  <2>3. main'.copy \in [1..2 -> Messages]
    BY <2>1, <2>2
  <2> QED BY <1>13, <2>3 DEF CopyRest, heap, ghost, Pcs
<1>14. CASE Send(TRUE)
  BY <1>14 DEF Send, heap, ghost, Pcs
<1>15. CASE Send(FALSE)
  BY <1>15 DEF Send, Free, heap, ghost, Pcs, Idle
<1>16. CASE Clear
  BY <1>16 DEF Clear, Load, heap, ghost, Pcs
<1>17. CASE Keep
  BY <1>17 DEF Keep, heap, ghost, Idle
<1>18. CASE Other
  <2>1. PICK bits \in SUBSET {"publish", "other"} : Load(bits, "idle")
    BY <1>18 DEF Other
  <2> QED BY <1>18, <2>1 DEF Other, Load, heap, ghost, Pcs
<1>19. CASE Get
  BY <1>19 DEF Get, heap, ghost, Pcs
<1>20. CASE Puback
  BY <1>20 DEF Puback, Free, heap, ghost
<1>21. CASE Frame
  <2>1. created' \in 0..MaxPublish
    BY <1>21, MaxAssumption DEF Frame
  <2>2. PICK m \in Messages : Received(m)
    BY <1>21, LengthsAssumption, FrameMessage
  <2>3. buf' \in [Buffers -> [1..2 -> Messages]]
    BY <2>2, BufferOfType, BegunType, EndedHalves DEF Received, ProcessTelemetry
  <2>4. ASSUME NEW n \in Nodes, NewPacket(n, m), Queue(n), raced' = FlagRead,
               doomed' = IF LinkRead THEN doomed \cup {n} ELSE doomed
        PROVE  Types'
    <3>1. next' \in [Nodes -> Nodes \cup {Null}] /\ head' \in Nodes \cup {Null}
      BY <2>4 DEF Queue
    <3>2. used' \subseteq Nodes /\ doomed' \subseteq Nodes
      BY <2>4 DEF NewPacket
    <3>3. packet' \in [Nodes -> Messages]
      BY <2>2, <2>4 DEF NewPacket
    <3>4. raced' \in BOOLEAN
      BY <2>4 DEF FlagRead
    <3> QED BY <2>2, <2>1, <2>3, <2>4, <3>1, <3>2, <3>3, <3>4 DEF Received, Queue
  <2>5. CASE UNCHANGED <<head, heap, flags, doomed, raced>>
    BY <2>1, <2>2, <2>3, <2>5 DEF Received, heap
  <2> QED BY <2>2, <2>4, <2>5 DEF Received
<1>22. CASE UNCHANGED vars
  BY <1>22 DEF vars, heap, ghost
<1> QED
  BY <1>1, <1>2, <1>3, <1>4, <1>5, <1>6, <1>7, <1>8, <1>9, <1>10, <1>11, <1>12, <1>13, <1>14,
     <1>15, <1>16, <1>17, <1>18, <1>19, <1>20, <1>21, <1>22
  DEF Next, MainStep

-------------------------------------------------------------------------------
(* The list and the heap.                                                     *)

LEMMA ChainFacts ==
  ASSUME Types
  PROVE  /\ Chain \in SUBSET Nodes /\ Null \notin Chain
         /\ head = Null => Chain = {}
         /\ head # Null => head \in Chain
         /\ \A n \in Chain : next[n] \in Chain \cup {Null}
<1>1. head \in Nodes \cup {Null} /\ next \in Links
  BY DEF Types, PublishersTypeOK, Links
<1> QED BY <1>1, LeadsClosed, LeadsNowhere, NodesAssumption DEF Chain, Closed

LEMMA LastIs ==
  ASSUME Types, Path, head # Null
  PROVE  /\ Last \in Chain /\ next[Last] = Null
         /\ \A m \in Chain : next[m] = Null => m = Last
BY ChainFacts DEF Path, Last

LEMMA InitList == Init => ListInv
<1> SUFFICES ASSUME Init PROVE ListInv
  OBVIOUS
<1>1. Types /\ Chain = {}
  BY InitTypes, ChainFacts DEF Init
<1>2. main.pc = "idle" /\ main.node = Null
  BY DEF Init, Idle
<1> QED BY <1>1, <1>2
  DEF Init, ListInv, Path, OffList, Doomed, HasNode, Adding, Taking, Sending, LinkRead

\* The list as the interrupt leaves it.
LEMMA QueueChain ==
  ASSUME Types, ListInv, NEW n \in Nodes \ used, Queue(n)
  PROVE  Chain' = Chain \cup {n}
<1>1. n \notin Chain /\ head \in Nodes \cup {Null} /\ next \in Links
  BY DEF ListInv, Path, Types, PublishersTypeOK, Links
<1>2. CASE head = Null
  <2>1. head' = n /\ next'[n] = Null
    BY <1>2 DEF Queue
  <2> QED BY <1>2, <2>1, LeadsToOne, ChainFacts DEF Chain
<1>3. CASE head # Null
  <2>1. Last \in Chain /\ next[Last] = Null
    BY <1>3, LastIs DEF ListInv
  <2>2. head' = head /\ next'[n] = Null /\ next'[Last] = n
    BY <1>1, <1>3, <2>1, ChainFacts DEF Queue
  <2>3. \A m \in Chain \ {Last} : next'[m] = next[m]
    BY <1>1, <1>3, ChainFacts DEF Queue
  <2> QED BY <1>1, <2>1, <2>2, <2>3, LeadsAppend DEF Chain
<1> QED BY <1>2, <1>3

LEMMA QueuePath ==
  ASSUME Types, ListInv, NEW n \in Nodes \ used, Queue(n), used' = used \cup {n}
  PROVE  Path'
<1>1. Chain' = Chain \cup {n} /\ n \notin Chain /\ Chain \in SUBSET Nodes
  BY QueueChain, ChainFacts DEF ListInv, Path
<1>2. Chain' \subseteq used'
  BY <1>1 DEF ListInv, Path
<1>3. next'[n] = Null /\ n # Null
  BY NodesAssumption DEF Queue
<1>4. CASE head = Null
  <2>1. head' = n /\ Chain' = {n}
    BY <1>1, <1>4, ChainFacts DEF Queue
  <2> QED BY <1>2, <1>3, <2>1 DEF Path
<1>5. CASE head # Null
  <2>1. /\ Last \in Chain /\ next[Last] = Null
        /\ \A m \in Chain : next[m] = Null => m = Last
    BY <1>5, LastIs DEF ListInv
  <2>2. head' = head /\ head \in Chain
    BY <1>5, ChainFacts DEF Queue
  <2>3. \A m \in Chain : next'[m] = IF m = Last THEN n ELSE next[m]
    BY <1>1, <1>5 DEF Queue
  <2>4. \A m \in Chain : m # Last => next[m] \in Chain
    BY <2>1, ChainFacts
  <2>5. \A m1, m2 \in Chain' : next'[m1] = next'[m2] => m1 = m2
    BY <1>1, <1>3, <2>3, <2>4, ChainFacts DEF ListInv, Path
  <2>6. \A m \in Chain' : next'[m] # head'
    BY <1>1, <1>3, <2>2, <2>3, ChainFacts DEF ListInv, Path
  <2> QED BY <1>1, <1>2, <1>3, <2>5, <2>6 DEF Path
<1> QED BY <1>4, <1>5

LEMMA QueueOffList ==
  ASSUME Types, ListInv, NEW n \in Nodes \ used, Queue(n), used' = used \cup {n},
         UNCHANGED <<pending, main>>
  PROVE  OffList'
<1>1. Chain' = Chain \cup {n} /\ n \notin Chain /\ n # Null /\ Chain \in SUBSET Nodes
  BY QueueChain, ChainFacts, NodesAssumption DEF ListInv, Path
<1>2. UNCHANGED <<HasNode, Adding, Taking, Sending>>
  BY DEF HasNode, Adding, Taking, Sending
<1>3. \A m \in Nodes \ {n} : next'[m] # next[m] => m \in Chain /\ next[m] = Null
  BY LastIs DEF Queue, ListInv
<1>4. Taking => head' = head
  BY DEF Queue, Types, PublishersTypeOK, ListInv, OffList, HasNode
<1>5. HasNode => main.node \in Nodes \ {n}
  BY DEF Types, ListInv, OffList
<1>6. Adding => main.node \notin Chain' /\ next'[main.node] = Null
  BY <1>1, <1>3, <1>5 DEF ListInv, OffList, HasNode
<1>7. main.pc = "unlink" /\ main.at # Null => next'[main.node] = main.at
  BY <1>3, <1>5 DEF ListInv, OffList, HasNode, Taking
<1> QED BY <1>1, <1>2, <1>4, <1>5, <1>6, <1>7 DEF ListInv, OffList, HasNode

LEMMA QueueDoomed ==
  ASSUME Types, ListInv, NEW n \in Nodes \ used, Queue(n), NEW m, NewPacket(n, m),
         m.by = "uart", UNCHANGED <<pending, main>>,
         doomed' = IF LinkRead THEN doomed \cup {n} ELSE doomed
  PROVE  Doomed'
<1>1. Chain' = Chain \cup {n} /\ n \notin Chain /\ n # Null /\ Chain \in SUBSET Nodes
  BY QueueChain, ChainFacts, NodesAssumption DEF ListInv, Path
<1>2. LinkRead' <=> LinkRead
  BY DEF LinkRead
<1>3. used' = used \cup {n} /\ main' = main /\ pending' = pending
  BY DEF NewPacket
<1>4. doomed' \subseteq used' \ {pending', main'.node}
  <2>1. pending # n /\ main.node # n
    BY <1>1 DEF ListInv, OffList, Types
  <2> QED BY <1>3, <2>1 DEF ListInv, Doomed
<1>5. \A k \in doomed' : packet'[k].by = "uart"
  <2>1. packet'[n].by = "uart" /\ \A k \in Nodes \ {n} : packet'[k] = packet[k]
    BY DEF NewPacket, Types, PublishersTypeOK
  <2> QED BY <2>1 DEF ListInv, Doomed, Types, PublishersTypeOK
<1>6. ~LinkRead' => Chain' \cap doomed' = {}
  BY <1>1, <1>2 DEF ListInv, Doomed
<1>7. main'.pc = "first" => Chain' \subseteq doomed'
  BY <1>1, <1>3 DEF LinkRead, ListInv, Doomed
<1>8. main'.pc = "unlink" /\ main'.at = Null => Chain' \subseteq doomed' \cup {head'}
  BY <1>1, <1>3 DEF LinkRead, ListInv, Doomed, OffList, Taking, Types, HasNode, Queue
<1>9. ASSUME main.pc = "last"
      PROVE  /\ main.at \notin doomed'
             /\ \A k \in Chain' :
                  IF k \in doomed' \cup {main.at} THEN next'[k] \in doomed' \cup {Null}
                                                 ELSE next'[k] \notin doomed' \cup {Null}
  <2>1. doomed' = doomed \cup {n} /\ main.at \in Chain /\ head # Null
    BY <1>9, ChainFacts DEF LinkRead, ListInv, OffList
  <2>2. /\ Last \in Chain /\ next[Last] = Null
        /\ \A k \in Chain : next[k] = Null => k = Last
    BY <2>1, LastIs DEF ListInv
  <2>3. Last \in doomed \cup {main.at}
    BY <1>9, <2>2 DEF ListInv, Doomed
  <2>4. next'[n] = Null /\ \A k \in Chain : next'[k] = IF k = Last THEN n ELSE next[k]
    BY <1>1, <2>1 DEF Queue
  <2>5. \A k \in Chain : next[k] # n
    BY <1>1, ChainFacts
  <2>6. ASSUME NEW k \in Chain
        PROVE  IF k \in doomed' \cup {main.at} THEN next'[k] \in doomed' \cup {Null}
                                              ELSE next'[k] \notin doomed' \cup {Null}
    <3>1. CASE k = Last
      BY <2>1, <2>3, <2>4, <3>1
    <3>2. CASE k # Last
      BY <1>1, <1>9, <2>1, <2>4, <2>5, <3>2 DEF ListInv, Doomed
    <3> QED BY <3>1, <3>2
  <2> QED BY <1>1, <1>9, <2>1, <2>4, <2>6 DEF ListInv, Doomed
<1>10. used' \subseteq Chain' \cup doomed' \cup {pending', main'.node}
  BY <1>1, <1>3 DEF ListInv, Doomed
<1> QED BY <1>3, <1>4, <1>5, <1>6, <1>7, <1>8, <1>9, <1>10 DEF Doomed

LEMMA FrameList == ASSUME Types, ListInv, Frame PROVE ListInv'
<1> PICK m \in Messages : Received(m) /\ m.by = "uart"
  BY FrameMessage
<1>1. ASSUME NEW n \in Nodes, NewPacket(n, m), Queue(n),
             doomed' = IF LinkRead THEN doomed \cup {n} ELSE doomed
      PROVE  ListInv'
  <2>1. n \in Nodes \ used /\ used' = used \cup {n} /\ UNCHANGED <<pending, main>>
    BY <1>1 DEF NewPacket, Received
  <2> QED BY <1>1, <2>1, QueuePath, QueueOffList, QueueDoomed DEF ListInv
<1>2. CASE UNCHANGED <<head, heap, flags, doomed, raced>>
  BY <1>2 DEF Received, heap, ListInv, Path, OffList, Doomed, Chain, HasNode, Adding, Taking,
              Sending, LinkRead
<1> QED BY <1>1, <1>2 DEF Received

\* A new packet is on no list.
LEMMA CreateList == ASSUME Types, ListInv, Create PROVE ListInv'
<1>1. ASSUME NEW n \in Nodes, NewPacket(n, main.msg), next' = [next EXCEPT ![n] = Null],
             main' = [main EXCEPT !.pc = "add", !.node = n]
      PROVE  ListInv'
  <2>1. n \in Nodes \ used /\ used' = used \cup {n} /\ n \notin Chain /\ n # Null
    BY <1>1, NodesAssumption DEF NewPacket, ListInv, Path
  <2>2. \A k \in Nodes \ {n} : next'[k] = next[k] /\ packet'[k] = packet[k]
    BY <1>1 DEF NewPacket, Types, PublishersTypeOK
  <2>3. UNCHANGED <<head, pending, doomed>>
    BY DEF Create, ghost
  <2>4. Chain' = Chain
    <3>1. head \in Nodes \cup {Null} /\ next \in Links /\ \A k \in Chain : next'[k] = next[k]
      BY <2>1, <2>2, ChainFacts DEF Types, PublishersTypeOK, Links
    <3> QED BY <2>3, <3>1, LeadsSame DEF Chain
  <2>5. Path'
    BY <2>1, <2>2, <2>3, <2>4, ChainFacts DEF ListInv, Path
  <2>6. /\ main'.pc = "add" /\ main'.node = n /\ next'[n] = Null /\ main.pc = "create"
        /\ main.node = Null
    BY <1>1 DEF Create, Types, PublishersTypeOK, HasNode, Adding, Taking, Sending
  <2>7. OffList'
    BY <2>1, <2>3, <2>4, <2>6 DEF ListInv, OffList, HasNode, Adding, Taking, Sending
  <2>8. Doomed'
    <3>1. doomed \subseteq used \ {pending} /\ used \subseteq Chain \cup doomed \cup {pending, Null}
      BY <2>6 DEF ListInv, Doomed
    <3>2. \A k \in doomed : packet'[k].by = "uart"
      BY <2>1, <2>2, <3>1 DEF ListInv, Doomed, Types, PublishersTypeOK
    <3>3. Chain \cap doomed = {} /\ ~LinkRead'
      BY <2>6 DEF ListInv, Doomed, LinkRead
    <3>4. doomed' \subseteq used' \ {pending', main'.node}
      BY <2>1, <2>3, <2>6, <3>1
    <3>5. used' \subseteq Chain' \cup doomed' \cup {pending', main'.node}
      BY <2>1, <2>3, <2>4, <2>6, <3>1, NodesAssumption DEF Types, PublishersTypeOK
    <3> QED BY <2>3, <2>4, <2>6, <3>2, <3>3, <3>4, <3>5 DEF Doomed
  <2> QED BY <2>5, <2>7, <2>8 DEF ListInv
<1>2. CASE main' = Idle /\ UNCHANGED heap
  <2>1. main'.pc = "idle" /\ main'.node = Null /\ main.pc = "create" /\ main.node = Null
    BY <1>2 DEF Create, Idle, Types, HasNode, Adding, Taking, Sending
  <2> QED BY <1>2, <2>1 DEF Create, heap, ghost, ListInv, Path, OffList, Doomed, Chain, HasNode,
                            Adding, Taking, Sending, LinkRead
<1> QED BY <1>1, <1>2 DEF Create

\* The head, read as NULL, is written: what the interrupt listed meanwhile is lost.
LEMMA AddFirstList == ASSUME Types, ListInv, AddFirst PROVE ListInv'
<1>1. /\ main.pc = "first" /\ main.node \in Nodes /\ main'.pc = "mark" /\ main'.node = Null
      /\ head' = main.node /\ UNCHANGED <<next, packet, used, pending, doomed>>
  BY DEF AddFirst, heap, ghost, Types, PublishersTypeOK, HasNode, Adding
<1>2. next[main.node] = Null /\ main.node \notin doomed /\ main.node \in used \ {pending}
  BY <1>1 DEF ListInv, OffList, Doomed, HasNode, Adding
<1>3. Chain' = {main.node}
  BY <1>1, <1>2, LeadsToOne DEF Chain
<1>4. Path'
  BY <1>1, <1>2, <1>3, NodesAssumption DEF Path
<1>5. OffList'
  BY <1>1, <1>2, <1>3 DEF ListInv, OffList, HasNode, Adding, Taking, Sending
<1>6. Doomed'
  <2>1. /\ doomed \subseteq used \ {pending, main.node} /\ Chain \subseteq doomed
        /\ used \subseteq Chain \cup doomed \cup {pending, main.node}
        /\ \A n \in doomed : packet[n].by = "uart"
    BY <1>1 DEF ListInv, Doomed
  <2>2. Null \notin doomed /\ ~LinkRead'
    BY <1>1, <2>1, NodesAssumption DEF Types, PublishersTypeOK, LinkRead
  <2> QED BY <1>1, <1>2, <1>3, <2>1, <2>2 DEF Doomed
<1> QED BY <1>4, <1>5, <1>6 DEF ListInv

\* The last link, read as NULL, is written: the same.
LEMMA AddLastList == ASSUME Types, ListInv, AddLast PROVE ListInv'
<1>1. /\ main.pc = "last" /\ main.node \in Nodes /\ main'.pc = "mark" /\ main'.node = Null
      /\ next' = [next EXCEPT ![main.at] = main.node]
      /\ UNCHANGED <<head, packet, used, pending, doomed>>
  BY DEF AddLast, ghost, Types, PublishersTypeOK, HasNode, Adding
<1>2. /\ next[main.node] = Null /\ main.node \notin doomed /\ main.node \in used \ {pending}
      /\ main.node \notin Chain /\ main.at \in Chain \ doomed
  BY <1>1 DEF ListInv, OffList, Doomed, HasNode, Adding
<1>3. /\ next'[main.node] = Null /\ next'[main.at] = main.node
      /\ \A m \in Chain \ {main.at} : next'[m] = next[m]
  BY <1>1, <1>2, ChainFacts DEF Types, PublishersTypeOK
<1>4. Chain' = (Chain \ doomed) \cup {main.node}
  <2>1. head \in Nodes \cup {Null} /\ next \in Links
    BY DEF Types, PublishersTypeOK, Links
  <2>2. \A m \in Chain : IF m \in doomed \cup {main.at} THEN next[m] \in doomed \cup {Null}
                                                       ELSE next[m] \notin doomed \cup {Null}
    BY <1>1 DEF ListInv, Doomed
  <2>3. main.node \in Nodes \ Leads(head, next) /\ main.at \in Leads(head, next) /\ main.at \notin doomed
    BY <1>1, <1>2 DEF Chain
  <2>4. \A m \in Leads(head, next) \ {main.at} : next'[m] = next[m]
    BY <1>3 DEF Chain
  <2>5. \A m \in Leads(head, next) :
          IF m \in doomed \cup {main.at} THEN next[m] \in doomed \cup {Null}
                                        ELSE next[m] \notin doomed \cup {Null}
    BY <2>2 DEF Chain
  <2>6. next'[main.node] = Null /\ next'[main.at] = main.node
    BY <1>3
  <2>7. Leads(head, next') = (Leads(head, next) \ doomed) \cup {main.node}
    BY <2>1, <2>3, <2>4, <2>5, <2>6, LeadsReplace
  <2> QED BY <1>1, <2>7 DEF Chain
<1>5. Path'
  <2>1. Chain' \subseteq used'
    BY <1>1, <1>2, <1>4 DEF ListInv, Path
  <2>2. head \in Chain
    BY <1>2, ChainFacts
  <2>3. \A m, n \in Chain' : next'[m] = next'[n] => m = n
    <3>1. \A m \in Chain \ doomed : m # main.at => next[m] \in Chain
      BY <1>1, ChainFacts DEF ListInv, Doomed
    <3>2. \A m \in Chain' : next'[m] = CASE m = main.node -> Null
                                         [] m = main.at -> main.node
                                         [] OTHER -> next[m]
      BY <1>2, <1>3, <1>4
    <3>3. \A m, n \in Chain : next[m] = next[n] => m = n
      BY DEF ListInv, Path
    <3>4. Null \notin Chain /\ Null # main.node
      BY <1>1, ChainFacts, NodesAssumption
    <3> QED BY <1>2, <1>4, <3>1, <3>2, <3>3, <3>4
  <2>4. \A m \in Chain' : next'[m] # head
    BY <1>2, <1>3, <1>4, <2>2, ChainFacts DEF ListInv, Path
  <2> QED BY <1>1, <1>3, <1>4, <2>1, <2>3, <2>4 DEF Path
<1>6. OffList'
  BY <1>1, <1>2, <1>4 DEF ListInv, OffList, HasNode, Adding, Taking, Sending
<1>7. Doomed'
  <2>1. /\ doomed \subseteq used \ {pending, main.node}
        /\ used \subseteq Chain \cup doomed \cup {pending, main.node}
        /\ \A n \in doomed : packet[n].by = "uart"
    BY <1>1 DEF ListInv, Doomed
  <2>2. Null \notin doomed /\ ~LinkRead'
    BY <1>1, <2>1, NodesAssumption DEF Types, PublishersTypeOK, LinkRead
  <2> QED BY <1>1, <1>2, <1>4, <2>1, <2>2 DEF Doomed
<1> QED BY <1>5, <1>6, <1>7 DEF ListInv

\* The head becomes what was read from its link.
LEMMA UnlinkList == ASSUME Types, ListInv, Unlink PROVE ListInv'
<1>1. /\ main.pc = "unlink" /\ main.node \in Nodes /\ main'.pc = "copy"
      /\ main'.node = main.node /\ head' = main.at /\ main.at \in Nodes \cup {Null}
      /\ UNCHANGED <<next, packet, used, pending, doomed>>
  BY DEF Unlink, heap, ghost, Types, PublishersTypeOK, HasNode, Taking
<1>2. main.node = head /\ head \in Chain /\ pending = Null /\ main.node \in used
  BY <1>1, ChainFacts, NodesAssumption DEF ListInv, OffList, HasNode, Taking
<1>3. CASE main.at = Null
  <2>1. Chain' = {}
    BY <1>1, <1>3, LeadsNowhere DEF Chain
  <2>2. Path'
    BY <2>1 DEF Path
  <2>3. OffList'
    BY <1>1, <1>2, <2>1 DEF OffList, HasNode, Adding, Taking, Sending, ListInv
  <2>4. Doomed'
    BY <1>1, <1>2, <1>3, <2>1 DEF Doomed, LinkRead, ListInv
  <2> QED BY <2>2, <2>3, <2>4 DEF ListInv
<1>4. CASE main.at # Null
  <2>1. head' = next[head]
    BY <1>1, <1>2, <1>4 DEF ListInv, OffList
  <2>2. Chain' = Chain \ {head}
    <3>1. head \in Nodes /\ next \in Links /\ \A m \in Leads(head, next) : next[m] # head
      BY <1>1, <1>2 DEF Chain, ListInv, Path, Types, PublishersTypeOK, Links
    <3> QED BY <1>1, <2>1, <3>1, LeadsDrop DEF Chain
  <2>3. Path'
    BY <1>1, <1>2, <1>4, <2>1, <2>2, ChainFacts DEF ListInv, Path
  <2>4. OffList'
    BY <1>1, <1>2, <2>2 DEF OffList, HasNode, Adding, Taking, Sending, ListInv
  <2>5. Doomed'
    BY <1>1, <1>2, <1>4, <2>2 DEF Doomed, LinkRead, ListInv
  <2> QED BY <2>3, <2>4, <2>5 DEF ListInv
<1> QED BY <1>3, <1>4

\* A packet off the list is freed, or kept for its PUBACK.
LEMMA FreeList ==
  ASSUME Types, ListInv, Send(FALSE) \/ Keep \/ Puback
  PROVE  ListInv'
<1>1. UNCHANGED <<head, next, packet, doomed>> /\ Chain' = Chain
  BY DEF Send, Keep, Puback, Free, heap, ghost, Chain
<1>2. main'.pc = "idle" /\ main'.node = Null
  BY DEF Send, Keep, Puback, Idle, Types, HasNode, Adding, Taking, Sending
<1>3. CASE Send(FALSE) \/ Keep
  <2>1. main.pc \in {"send", "keep"} /\ main.node \in used \ Chain /\ pending = Null
    BY <1>3 DEF Send, Keep, ListInv, OffList, HasNode, Sending
  <2>2. \/ used' = used \ {main.node} /\ pending' = Null
        \/ used' = used /\ pending' = main.node
    BY <1>3, <2>1 DEF Send, Keep, Free, heap
  <2> QED BY <1>1, <1>2, <2>1, <2>2, NodesAssumption
    DEF ListInv, Path, OffList, Doomed, HasNode, Adding, Taking, Sending, LinkRead
<1>4. CASE Puback
  <2>1. /\ main.pc = "idle" /\ main.node = Null /\ pending \in used \ Chain
        /\ used' = used \ {pending} /\ pending' = Null
    BY <1>4 DEF Puback, Free, ListInv, OffList, Types, HasNode, Adding, Taking, Sending
  <2> QED BY <1>1, <1>2, <2>1
    DEF ListInv, Path, OffList, Doomed, HasNode, Adding, Taking, Sending, LinkRead
<1> QED BY <1>3, <1>4

\* Steps that change only what the main loop has read.
LEMMA WalkList == ASSUME Types, ListInv, Add \/ Walk PROVE ListInv'
<1>1. UNCHANGED <<head, next, packet, used, pending, doomed>> /\ Chain' = Chain
  BY DEF Add, Walk, heap, ghost, Chain
<1>2. main'.node = main.node /\ main.node \in Nodes
  BY DEF Add, Walk, Types, PublishersTypeOK, HasNode, Adding
<1>3. Path'
  BY <1>1 DEF ListInv, Path
<1>4. CASE Add
  <2>1. main.pc = "add" /\ main'.pc = IF head = Null THEN "first" ELSE "walk"
    BY <1>4 DEF Add, Types, PublishersTypeOK
  <2>2. head # Null => main'.at = head
    BY <1>4 DEF Add, Types, PublishersTypeOK
  <2>3. OffList'
    BY <1>1, <1>2, <2>1, <2>2, ChainFacts
    DEF ListInv, OffList, HasNode, Adding, Taking, Sending
  <2>4. Doomed'
    BY <1>1, <1>2, <2>1, ChainFacts DEF ListInv, Doomed, LinkRead
  <2> QED BY <1>3, <2>3, <2>4 DEF ListInv
<1>5. CASE Walk
  <2>1. /\ main.pc = "walk" /\ main'.pc = IF next[main.at] = Null THEN "last" ELSE "walk"
        /\ main'.at = IF next[main.at] = Null THEN main.at ELSE next[main.at]
        /\ main.at \in Chain /\ Chain \cap doomed = {}
    BY <1>5 DEF Walk, Types, PublishersTypeOK, ListInv, OffList, Doomed, LinkRead
  <2>2. OffList'
    BY <1>1, <1>2, <2>1, ChainFacts DEF ListInv, OffList, HasNode, Adding, Taking, Sending
  <2>3. next[main.at] = Null => \A n \in Chain \ {main.at} : next[n] \notin doomed \cup {Null}
    BY <2>1, ChainFacts DEF ListInv, Path
  <2>4. Doomed'
    BY <1>1, <1>2, <2>1, <2>3 DEF ListInv, Doomed, LinkRead
  <2> QED BY <1>3, <2>2, <2>4 DEF ListInv
<1> QED BY <1>4, <1>5

LEMMA TakeList == ASSUME Types, ListInv, Get \/ ReadNext PROVE ListInv'
<1>1. UNCHANGED <<head, next, packet, used, pending, doomed>> /\ Chain' = Chain
  BY DEF Get, ReadNext, heap, ghost, Chain
<1>2. Path'
  BY <1>1 DEF ListInv, Path
<1>3. CASE Get
  <2>1. /\ main.pc = "idle" /\ main.node = Null /\ pending = Null
        /\ main'.pc = IF head = Null THEN "halted" ELSE "next"
        /\ main'.node = IF head = Null THEN Null ELSE head
    BY <1>3 DEF Get, Types, PublishersTypeOK, HasNode, Adding, Taking, Sending
  <2>2. OffList'
    BY <1>1, <2>1, ChainFacts DEF ListInv, Path, OffList, HasNode, Adding, Taking, Sending
  <2>3. Chain \cap doomed = {} /\ head # Null => head \in Chain \ doomed
    BY <2>1, ChainFacts DEF ListInv, Doomed, LinkRead
  <2>4. Doomed'
    BY <1>1, <2>1, <2>3, ChainFacts DEF ListInv, Doomed, LinkRead
  <2> QED BY <1>2, <2>2, <2>4 DEF ListInv
<1>4. CASE ReadNext
  <2>1. /\ main.pc = "next" /\ main'.pc = "unlink" /\ main'.node = main.node
        /\ main'.at = next[main.node] /\ main.node = head /\ head \in Nodes
    BY <1>4 DEF ReadNext, Types, PublishersTypeOK, HasNode, Taking, ListInv, OffList
  <2>2. OffList'
    BY <1>1, <2>1 DEF ListInv, OffList, HasNode, Adding, Taking, Sending
  <2>3. next[head] = Null => Chain = {head}
    BY <2>1, LeadsToOne DEF Chain
  <2>4. Doomed'
    BY <1>1, <2>1, <2>3 DEF ListInv, Doomed, LinkRead
  <2> QED BY <1>2, <2>2, <2>4 DEF ListInv
<1> QED BY <1>3, <1>4

LEMMA OtherList ==
  ASSUME Types, ListInv,
         \/ \E p \in Publishers : Build(p)
         \/ Finish \/ Mark \/ Store \/ Other \/ Copy \/ CopyRest \/ Send(TRUE) \/ Clear
  PROVE  ListInv'
<1>1. UNCHANGED <<head, next, packet, used, pending, doomed>> /\ Chain' = Chain
  BY DEF Build, Finish, Mark, Store, Other, Copy, CopyRest, Send, Clear, heap, ghost, Chain
<1>2. /\ main'.node = main.node
      /\ ~Adding' /\ ~Adding /\ ~Taking' /\ ~Taking /\ (Sending' => Sending)
      /\ ~LinkRead' /\ ~LinkRead /\ main'.pc \notin {"first", "walk", "last", "unlink"}
  <2>1. CASE (\E p \in Publishers : Build(p)) \/ Finish \/ Mark \/ Other
    <3>1. /\ main.pc \in {"idle", "build", "mark"} /\ main'.node = main.node
          /\ \/ main'.pc \in {"build", "create"}
             \/ main'.pc = "store" /\ main'.after = "idle"
      <4>1. CASE \E p \in Publishers : Build(p)
        BY <4>1 DEF Build, Idle, Types, HasNode, Adding, Taking, Sending
      <4>2. CASE Finish
        BY <4>2, FinishMain
      <4>3. CASE Mark \/ Other
        <5>1. PICK bits : Load(bits, "idle")
          BY <4>3 DEF Mark, Other
        <5> QED BY <4>3, <5>1, MainTypes DEF Mark, Other, Load
      <4> QED BY <2>1, <4>1, <4>2, <4>3
    <3> QED BY <3>1 DEF Adding, Taking, Sending, LinkRead
  <2>2. CASE Store
    BY <2>2 DEF Store, Idle, Types, PublishersTypeOK, HasNode, Adding, Taking, Sending, LinkRead
  <2>3. CASE Copy \/ CopyRest \/ Send(TRUE) \/ Clear
    BY <2>3 DEF Copy, CopyRest, Send, Clear, Load, Types, PublishersTypeOK, HasNode,
                Adding, Taking, Sending, LinkRead
  <2> QED BY <2>1, <2>2, <2>3
<1>3. Path'
  BY <1>1 DEF ListInv, Path
<1>4. OffList'
  BY <1>1, <1>2 DEF ListInv, OffList, HasNode
<1>5. Doomed'
  BY <1>1, <1>2 DEF ListInv, Doomed
<1> QED BY <1>3, <1>4, <1>5 DEF ListInv

LEMMA ListStep == Types /\ ListInv /\ [Next]_vars => ListInv'
<1>1. ASSUME Types, ListInv, UNCHANGED vars PROVE ListInv'
  BY <1>1 DEF vars, heap, ghost, ListInv, Path, OffList, Doomed, Chain, HasNode, Adding, Taking,
              Sending, LinkRead
<1> QED BY <1>1, FrameList, CreateList, AddFirstList, AddLastList, UnlinkList, FreeList,
           WalkList, TakeList, OtherList
        DEF Next, MainStep

-------------------------------------------------------------------------------
(* The flag.                                                                  *)

LEMMA InitFlag == Init => FlagInv
BY DEF Init, Idle, FlagInv, Taking, FlagRead

LEMMA FrameFlag == ASSUME Types, ListInv, FlagInv, Frame PROVE FlagInv'
<1> PICK m \in Messages : Received(m)
  BY FrameMessage
<1>1. UNCHANGED <<Taking, FlagRead>> /\ main' = main
  BY DEF Received, Taking, FlagRead
<1>2. ASSUME NEW n \in Nodes, Queue(n), raced' = FlagRead PROVE FlagInv'
  <2>1. head' # Null /\ "publish" \in flags'
    BY <1>2, NodesAssumption DEF Queue
  <2>2. Taking \/ main.pc \in {"idle", "build", "create", "keep", "copy", "copy2", "send"}
          => ~FlagRead
    BY DEF Taking, FlagRead
  <2> QED BY <1>1, <1>2, <2>1, <2>2 DEF FlagInv
<1>3. CASE UNCHANGED <<head, heap, flags, doomed, raced>>
  BY <1>1, <1>3 DEF FlagInv
<1> QED BY <1>2, <1>3 DEF Received

LEMMA FlagStep == Types /\ ListInv /\ FlagInv /\ [Next]_vars => FlagInv'
<1> SUFFICES ASSUME Types, ListInv, FlagInv, [Next]_vars PROVE FlagInv'
  OBVIOUS
<1> USE DEF FlagInv, Taking, FlagRead
<1>1. CASE (\E p \in Publishers : Build(p)) \/ Finish \/ Create
  <2>1. /\ UNCHANGED <<head, flags, raced>> /\ main.pc \in {"idle", "build", "create"}
        /\ main'.pc \in {"idle", "build", "create", "add"}
    <3>1. CASE \E p \in Publishers : Build(p)
      BY <3>1 DEF Build, Idle
    <3>2. CASE Finish
      BY <3>2, FinishMain DEF Finish, ghost
    <3>3. CASE Create
      <4>1. main.pc = "create" /\ UNCHANGED <<head, flags, raced>>
        BY <3>3 DEF Create, ghost
      <4>2. main'.pc \in {"add", "idle"}
        <5>1. ASSUME NEW n \in Nodes, main' = [main EXCEPT !.pc = "add", !.node = n]
              PROVE  main'.pc = "add"
          BY <5>1, MainTypes
        <5>2. main' = Idle => main'.pc = "idle"
          BY DEF Idle
        <5> QED BY <3>3, <5>1, <5>2 DEF Create
      <4> QED BY <4>1, <4>2
    <3> QED BY <1>1, <3>1, <3>2, <3>3
  <2> QED BY <2>1
<1>2. CASE Add \/ AddFirst \/ Walk \/ AddLast
  <2>1. main'.pc \in {"first", "walk", "last", "mark"}
    BY <1>2, MainTypes DEF Add, AddFirst, Walk, AddLast
  <2> QED BY <2>1
<1>3. CASE Mark \/ Other \/ Clear
  <2>1. /\ UNCHANGED <<head, flags, raced>> /\ main.pc \in {"mark", "idle", "clear"}
        /\ main'.pc = "store" /\ ("publish" \in main'.reg \/ main.pc # "mark")
    BY <1>3, MainTypes DEF Mark, Other, Clear, Load, ghost
  <2>2. main.pc = "idle" => ("publish" \in main'.reg <=> "publish" \in flags)
    <3>1. CASE Mark
      BY <3>1 DEF Mark
    <3>2. CASE Other
      <4>1. PICK bits \in SUBSET {"publish", "other"} :
              Load(bits, "idle") /\ ("publish" \in bits <=> "publish" \in flags)
        <5>1. flags \subseteq {"publish", "other"}
          BY DEF Types, PublishersTypeOK
        <5>2. CASE Load(flags \cup {"other"}, "idle")
          BY <5>1, <5>2
        <5>3. CASE flags = {"other"} /\ Load({}, "idle")
          BY <5>3
        <5> QED BY <3>2, <5>2, <5>3 DEF Other
      <4>2. main'.reg = bits
        BY <4>1, MainTypes DEF Load
      <4> QED BY <4>1, <4>2
    <3>3. CASE Clear
      BY <3>3 DEF Clear
    <3> QED BY <1>3, <3>1, <3>2, <3>3
  <2> QED BY <2>1, <2>2
<1>4. CASE Store
  <2>1. /\ main.pc = "store" /\ main'.pc \in {"idle", "keep"} /\ head' = head
        /\ flags' = main.reg /\ raced' = (raced /\ "publish" \notin main.reg)
    BY <1>4, MainTypes DEF Store, Idle
  <2> QED BY <2>1
<1>5. CASE Get \/ ReadNext \/ Unlink
  <2>1. /\ UNCHANGED <<flags, raced>>
        /\ \/ main.pc = "idle" /\ "publish" \in flags /\ main'.pc \in {"halted", "next"}
           \/ main.pc \in {"next", "unlink"} /\ main'.pc \in {"unlink", "copy"}
    BY <1>5, MainTypes DEF Get, ReadNext, Unlink, ghost
  <2> QED BY <2>1
<1>6. CASE Copy \/ CopyRest \/ Send(TRUE) \/ Send(FALSE)
  <2>1. /\ UNCHANGED <<head, flags, raced>> /\ main.pc \in {"copy", "copy2", "send"}
        /\ main'.pc \in {"copy2", "send", "keep", "clear", "idle"}
        /\ main'.pc = "clear" => head = Null
    <3>1. CASE Copy \/ CopyRest
      BY <3>1, CopyMain DEF Copy, CopyRest, ghost
    <3>2. CASE Send(TRUE)
      BY <3>2, MainTypes DEF Send, ghost
    <3>3. CASE Send(FALSE)
      BY <3>3 DEF Send, Idle, ghost
    <3> QED BY <1>6, <3>1, <3>2, <3>3
  <2> QED BY <2>1
<1>7. CASE Keep \/ Puback
  <2>1. /\ UNCHANGED <<head, flags, raced>> /\ main.pc \in {"keep", "idle"}
        /\ main'.pc = "idle"
    BY <1>7, MainTypes DEF Keep, Puback, Idle, ghost
  <2> QED BY <2>1
<1>8. CASE Frame
  BY <1>8, FrameFlag
<1>9. CASE UNCHANGED vars
  <2>1. UNCHANGED <<head, flags, raced, main>>
    BY <1>9 DEF vars, ghost
  <2> QED BY <2>1
<1> QED BY <1>1, <1>2, <1>3, <1>4, <1>5, <1>6, <1>7, <1>8, <1>9 DEF Next, MainStep

-------------------------------------------------------------------------------
(* The buffers.                                                               *)

LEMMA InitBuffer == Init => BufferInv
<1> SUFFICES ASSUME Init PROVE BufferInv
  OBVIOUS
<1>1. main.pc = "idle" /\ created = 0
  BY DEF Init, Idle
<1>2. \A b \in Buffers, h \in 1..2 : buf[b][h] = NoMessage
  BY DEF Init, Empty
<1>3. \A n \in Nodes : packet[n].n = 0 /\ packet[n].by \notin Own
  BY DEF Init, NoMessage, Own
<1>4. \A b \in Own : buf[b][1] = buf[b][2]
  BY <1>2 DEF Own, Buffers
<1>5. \A h \in 1..2 : buf["uart"][h].by \in {"cli", "uart"}
  BY <1>2 DEF Buffers, NoMessage
<1> QED BY <1>1, <1>3, <1>4, <1>5 DEF BufferInv, WholeIn, Own

\* Steps that neither write a message nor copy one.
LEMMA RestBuffer ==
  ASSUME BufferInv, UNCHANGED <<buf, packet, created>>, main.pc # "build",
         main'.pc \notin {"build", "create", "copy2", "send"}
  PROVE  BufferInv'
BY DEF BufferInv, Holds, Newer, WholeIn

LEMMA BuildBuffer ==
  ASSUME Types, BufferInv, NEW p \in Publishers, Build(p) PROVE BufferInv'
<1>1. PICK m \in Messages :
        /\ main'.msg = m /\ m.by = p /\ m.n = created + 1
        /\ buf' = [buf EXCEPT ![BufferOf(p)] = Begun(buf[BufferOf(p)], m)]
  <2>1. PICK len \in Lengths :
           main' = [Idle EXCEPT !.pc = "build",
                                !.msg = [by |-> p, n |-> created + 1, len |-> len]]
    BY DEF Build
  <2>2. main'.msg = [by |-> p, n |-> created + 1, len |-> len]
    BY <2>1 DEF Idle
  <2>3. main'.msg \in Messages
    BY <2>2, PublishersAssumption, LengthsAssumption, MaxAssumption
    DEF Messages, Types, PublishersTypeOK
  <2> QED BY <2>2, <2>3 DEF Build
<1>2. /\ main.pc = "idle" /\ main'.pc = "build" /\ created' = created + 1 /\ UNCHANGED packet
  BY DEF Build, Idle, heap
<1>3. p \in MainPublishers /\ created \in Nat
  BY PublishersAssumption, MaxAssumption DEF Types, PublishersTypeOK
<1>4. /\ \A b \in Buffers \ {BufferOf(p)} : buf'[b] = buf[b]
      /\ BufferOf(p) \in Buffers
      /\ buf'[BufferOf(p)][1] = m
      /\ buf'[BufferOf(p)][2] = IF p = "button" THEN buf[BufferOf(p)][2] ELSE Zeros(m)
  <2>1. BufferOf(p) \in Buffers
    BY <1>3, BufferOfType
  <2>2. buf'[BufferOf(p)] = Begun(buf[BufferOf(p)], m)
    BY <1>1, <2>1 DEF Types, PublishersTypeOK
  <2> QED BY <1>1, <2>1, <2>2, BegunHalves DEF Types, PublishersTypeOK
<1>5. Zeros(m).by = p /\ Zeros(m).n = created + 1
  BY <1>1 DEF Zeros, Messages
<1>6. \A n \in Nodes : packet'[n].n <= created' /\ packet[n].n \in Nat /\ packet[n].n <= created
  BY <1>2, <1>3 DEF BufferInv, Types, PublishersTypeOK, Messages
<1>7. ASSUME NEW n \in Nodes, packet[n].by \in Own PROVE Holds(packet[n])'
  <2>1. Holds(packet[n]) /\ packet[n].by \in Buffers
    BY <1>7 DEF BufferInv, Own, Buffers
  <2>2. CASE packet[n].by # BufferOf(p)
    BY <1>2, <1>4, <2>1, <2>2 DEF Holds, Newer
  <2>3. CASE packet[n].by = BufferOf(p)
    <3>1. packet[n].by = p
      BY <1>3, <1>7, <2>3 DEF BufferOf, Own, MainPublishers
    <3>2. created + 1 >= packet[n].n
      BY <1>3, <1>6
    <3> QED BY <1>1, <1>2, <1>4, <1>5, <2>1, <2>3, <3>1, <3>2 DEF Holds, Newer
  <2> QED BY <2>2, <2>3
<1>8. \A h \in 1..2 : buf'["uart"][h].by \in {"cli", "uart"}
  <2>1. BufferOf(p) = "uart" => p = "cli"
    BY <1>3 DEF BufferOf, MainPublishers
  <2> QED BY <1>1, <1>4, <1>5, <2>1 DEF BufferInv, Buffers
<1>9. buf'["telemetry"][2] \in {buf'["telemetry"][1], Zeros(buf'["telemetry"][1])}
  <2>1. BufferOf(p) = "telemetry" => p = "telemetry"
    BY <1>3 DEF BufferOf, MainPublishers
  <2> QED BY <1>4, <2>1 DEF BufferInv, Buffers
<1>10. \A b \in Own \ {p} : buf'[b] = buf[b] /\ WholeIn(b)
  BY <1>2, <1>3, <1>4 DEF Own, Buffers, BufferOf, MainPublishers, BufferInv
<1>11. p \in Own => buf'[p][1] = m
  BY <1>4 DEF Own, BufferOf
<1> QED BY <1>1, <1>2, <1>3, <1>6, <1>7, <1>8, <1>9, <1>10, <1>11 DEF BufferInv, WholeIn

LEMMA FinishBuffer == ASSUME Types, BufferInv, Finish PROVE BufferInv'
<1> DEFINE m == main.msg
           b == BufferOf(m.by)
<1>1. /\ main.pc = "build" /\ main'.pc = "create" /\ main'.msg = m
      /\ UNCHANGED <<packet, created>>
      /\ buf' = [buf EXCEPT ![b] = Ended(buf[b], m)]
  BY FinishMain DEF Finish, heap, ghost
<1>2. /\ m \in Messages /\ m.by \in MainPublishers /\ m.n <= created
      /\ m.by \in Own => buf[m.by][1] = m
  BY <1>1, MainTypes DEF BufferInv
<1>3. /\ \A c \in Buffers \ {b} : buf'[c] = buf[c]
      /\ b \in Buffers /\ buf'[b][1] = buf[b][1]
      /\ buf'[b][2] = IF m.len = 2 THEN m ELSE buf[b][2]
  <2>1. b \in Buffers /\ buf[b] \in [1..2 -> Messages]
    BY <1>2, BufferOfType DEF Types, PublishersTypeOK
  <2>2. buf'[b] = Ended(buf[b], m)
    BY <1>1, <2>1 DEF Types, PublishersTypeOK
  <2> HIDE DEF b, m
  <2> QED BY <1>1, <1>2, <2>1, <2>2, EndedHalves DEF Types, PublishersTypeOK
<1>4. ASSUME NEW n \in Nodes, packet[n].by \in Own PROVE Holds(packet[n])'
  <2>1. Holds(packet[n]) /\ packet[n].by \in Buffers
    BY <1>4 DEF BufferInv, Own, Buffers
  <2>2. packet[n].by = b => packet[n].by = m.by /\ m.by \in Own /\ buf[m.by][1] = m
    BY <1>2, <1>4 DEF BufferOf, Own, MainPublishers
  <2> HIDE DEF b, m
  <2> QED BY <1>1, <1>3, <2>1, <2>2 DEF Holds, Newer
<1>5. \A h \in 1..2 : buf'["uart"][h].by \in {"cli", "uart"}
  <2>1. b = "uart" => m.by = "cli"
    BY <1>2 DEF BufferOf, MainPublishers
  <2> HIDE DEF b, m
  <2> QED BY <1>3, <2>1 DEF BufferInv, Buffers
<1>6. m.by \in Own => b = m.by /\ buf'[m.by][1] = m /\ (m.len = 2 => buf'[m.by][2] = m)
  BY <1>2, <1>3 DEF Own, BufferOf
<1>7. \A c \in Own : WholeIn(c)'
  <2>1. ASSUME NEW c \in Own, c # m.by PROVE WholeIn(c)'
    <3>1. c # b /\ WholeIn(c) /\ c \in Buffers
      BY <1>1, <1>2, <2>1 DEF Own, BufferOf, MainPublishers, BufferInv, Buffers
    <3> QED BY <1>3, <3>1 DEF WholeIn
  <2> QED BY <1>6, <2>1 DEF WholeIn
<1>8. buf'["telemetry"][2] \in {buf'["telemetry"][1], Zeros(buf'["telemetry"][1])}
  <2>1. CASE b # "telemetry"
    BY <1>3, <2>1 DEF BufferInv, Buffers
  <2>2. CASE b = "telemetry"
    <3>1. m.by = "telemetry"
      BY <1>2, <2>2 DEF BufferOf, MainPublishers
    <3> HIDE DEF b, m
    <3> QED BY <1>3, <1>6, <2>2, <3>1 DEF BufferInv, Own
  <2> QED BY <2>1, <2>2
<1> HIDE DEF b
<1> QED BY <1>1, <1>2, <1>4, <1>5, <1>6, <1>7, <1>8 DEF BufferInv

LEMMA CreateBuffer == ASSUME Types, BufferInv, Create PROVE BufferInv'
<1>1. main.pc = "create" /\ UNCHANGED <<buf, created>>
  BY DEF Create, ghost
<1>2. ASSUME NEW n \in Nodes, NewPacket(n, main.msg), main' = [main EXCEPT !.pc = "add", !.node = n]
      PROVE  BufferInv'
  <2>1. main'.pc = "add"
    BY <1>2, MainTypes
  <2>2. packet'[n] = main.msg /\ \A k \in Nodes \ {n} : packet'[k] = packet[k]
    BY <1>2 DEF NewPacket, Types, PublishersTypeOK
  <2>3. /\ main.msg.n <= created /\ main.msg.n \in Nat
        /\ main.msg.by \in Own => buf[main.msg.by][1] = main.msg /\ WholeIn(main.msg.by)
    BY <1>1, MainTypes DEF BufferInv, Messages
  <2>4. main.msg.by \in Own => Holds(main.msg)
    BY <2>3 DEF Holds, Newer, WholeIn
  <2>5. \A k \in Nodes : packet'[k].n <= created
    BY <2>2, <2>3 DEF BufferInv
  <2>6. \A k \in Nodes : packet'[k].by \in Own => Holds(packet'[k])
    BY <2>2, <2>4 DEF BufferInv
  <2> QED BY <1>1, <2>1, <2>5, <2>6 DEF BufferInv, Holds, Newer, WholeIn
<1>3. ASSUME main' = Idle, UNCHANGED heap PROVE BufferInv'
  <2>1. main'.pc = "idle" /\ UNCHANGED packet
    BY <1>3 DEF Idle, heap
  <2> QED BY <1>1, <2>1, RestBuffer
<1> QED BY <1>2, <1>3 DEF Create

LEMMA CopyBuffer ==
  ASSUME Types, BufferInv, Copy \/ CopyRest PROVE BufferInv'
<1>1. UNCHANGED <<buf, packet, created>>
  BY DEF Copy, CopyRest, heap, ghost
<1>2. /\ main.pc \in {"copy", "copy2"} /\ main'.node = main.node
      /\ main'.pc = IF main.pc = "copy" THEN "copy2" ELSE "send"
      /\ main'.copy[1] = IF main.pc = "copy" THEN Source[1] ELSE main.copy[1]
      /\ main.pc = "copy2" /\ packet[main.node].len = 2 => main'.copy[2] = Source[2]
  BY CopyMain
<1>3. Source' = Source
  BY <1>1, <1>2 DEF Source
<1>4. /\ main.node \in Nodes
      /\ packet[main.node].by \notin Own =>
           /\ Source[1].by \in {"cli", "uart"} /\ Source[2].by \in {"cli", "uart"}
  <2>1. packet[main.node].by \in MainPublishers \cup {"uart"} /\ main.node \in Nodes
    BY <1>2 DEF Types, PublishersTypeOK, Messages, HasNode, Sending
  <2> QED BY <2>1 DEF Source, BufferOf, Own, MainPublishers, BufferInv
<1>5. main'.pc = "copy2" \/ main'.pc = "send"
  BY <1>2
<1> HIDE DEF Source
<1>6. IF packet[main.node].by \in Own THEN main'.copy[1] = Source[1]
                                      ELSE main'.copy[1].by \in {"cli", "uart"}
  BY <1>2, <1>4 DEF BufferInv
<1>7. main'.pc = "send" /\ packet[main.node].len = 2 =>
        IF packet[main.node].by \in Own THEN main'.copy[2] = Source[2]
                                       ELSE main'.copy[2].by \in {"cli", "uart"}
  BY <1>2, <1>4
<1> QED BY <1>1, <1>2, <1>3, <1>5, <1>6, <1>7 DEF BufferInv, Holds, Newer, WholeIn

LEMMA FrameBuffer == ASSUME Types, ListInv, BufferInv, Frame PROVE BufferInv'
<1> PICK m \in Messages : /\ Received(m) /\ m.by = "uart" /\ m.n = created + 1
                          /\ created' = created + 1 /\ created \in Nat
  BY FrameMessage
<1>1. main' = main
  BY DEF Received
<1>2. /\ \A b \in Own : buf'[b] = buf[b]
      /\ \A h \in 1..2 : buf'["uart"][h].by = "uart"
  <2>1. buf["uart"] \in [1..2 -> Messages] /\ BufferOf("uart") = "uart"
    BY BufferOfType DEF Types, PublishersTypeOK, Buffers, BufferOf
  <2>2. buf' = [buf EXCEPT !["uart"] = Ended(Begun(buf["uart"], m), m)]
    BY <2>1 DEF Received, ProcessTelemetry
  <2>3. Zeros(m).by = "uart"
    BY DEF Zeros, Messages
  <2>4. /\ Ended(Begun(buf["uart"], m), m)[1] = m
        /\ Ended(Begun(buf["uart"], m), m)[2] \in {m, Zeros(m)}
    BY <2>1, BegunHalves, BegunType, EndedHalves
  <2> QED BY <2>2, <2>3, <2>4 DEF Types, PublishersTypeOK, Buffers, Own
<1>3. \/ UNCHANGED <<packet, used>>
      \/ \E n \in Nodes \ used : /\ packet'[n] = m
                                 /\ \A k \in Nodes \ {n} : packet'[k] = packet[k]
  BY DEF Received, NewPacket, heap, Types, PublishersTypeOK
<1>5. \A k \in Nodes : packet'[k].n <= created'
  BY <1>3 DEF BufferInv, Types, PublishersTypeOK, Messages
<1>6. \A k \in Nodes : packet'[k].by \in Own => packet'[k] = packet[k]
  BY <1>3 DEF Own
<1>7. (\A k \in Nodes : packet[k].by \in Own => Holds(packet[k]))'
  BY <1>2, <1>6 DEF BufferInv, Holds, Newer
<1>8. \A h \in 1..2 : buf'["uart"][h].by \in {"cli", "uart"}
  BY <1>2
<1>9. main.pc \in {"copy2", "send"} =>
        /\ packet'[main.node] = packet[main.node]
        /\ packet[main.node].by \in Own => Source' = Source
  <2>1. main.pc \in {"copy2", "send"} => main.node \in used
    BY DEF ListInv, OffList, HasNode, Sending
  <2>2. main.pc \in {"copy2", "send"} => packet'[main.node] = packet[main.node]
    BY <1>3, <2>1 DEF Types, PublishersTypeOK
  <2> QED BY <1>1, <1>2, <2>2 DEF Source, BufferOf, Own
<1>10. main.pc \in {"build", "create"} => main.msg.n <= created'
  BY MainTypes DEF BufferInv, Messages
<1>11. /\ \A b \in Own : WholeIn(b)' = WholeIn(b)
       /\ buf'["telemetry"] = buf["telemetry"]
  BY <1>2 DEF WholeIn, Own
<1> HIDE DEF Source
<1> QED BY <1>1, <1>2, <1>5, <1>7, <1>8, <1>9, <1>10, <1>11 DEF BufferInv

LEMMA BufferStep == Types /\ ListInv /\ BufferInv /\ [Next]_vars => BufferInv'
<1> SUFFICES ASSUME Types, ListInv, BufferInv, [Next]_vars PROVE BufferInv'
  OBVIOUS
<1>1. CASE Add \/ AddFirst \/ Walk \/ AddLast \/ Mark \/ Other \/ Clear
  <2>1. UNCHANGED <<buf, packet, created>> /\ main.pc # "build"
    BY <1>1 DEF Add, AddFirst, Walk, AddLast, Mark, Other, Clear, Load, heap, ghost
  <2>2. main'.pc \in {"first", "walk", "last", "mark", "store"}
    BY <1>1, MainTypes DEF Add, AddFirst, Walk, AddLast, Mark, Other, Clear, Load
  <2> QED BY <2>1, <2>2, RestBuffer
<1>2. CASE Get \/ ReadNext \/ Unlink \/ Send(TRUE)
  <2>1. UNCHANGED <<buf, packet, created>> /\ main.pc # "build"
    BY <1>2 DEF Get, ReadNext, Unlink, Send, heap, ghost
  <2>2. main'.pc \in {"halted", "next", "unlink", "copy", "clear", "keep"}
    BY <1>2, MainTypes DEF Get, ReadNext, Unlink, Send
  <2> QED BY <2>1, <2>2, RestBuffer
<1>3. CASE Store \/ Send(FALSE) \/ Keep \/ Puback
  <2>1. UNCHANGED <<buf, packet, created>> /\ main.pc # "build"
    BY <1>3 DEF Store, Send, Keep, Puback, Free, heap, ghost
  <2>2. main'.pc \in {"idle", "keep"}
    <3>1. CASE Store
      BY <3>1, MainTypes DEF Store, Idle
    <3>2. CASE Send(FALSE) \/ Keep \/ Puback
      BY <3>2 DEF Send, Keep, Puback, Idle
    <3> QED BY <1>3, <3>1, <3>2
  <2> QED BY <2>1, <2>2, RestBuffer
<1>4. CASE UNCHANGED vars
  BY <1>4 DEF vars, heap, ghost, BufferInv, Holds, Newer, WholeIn, Source
<1> QED BY <1>1, <1>2, <1>3, <1>4, BuildBuffer, FinishBuffer, CreateBuffer, CopyBuffer,
           FrameBuffer
        DEF Next, MainStep

-------------------------------------------------------------------------------
(* The theorems.                                                              *)

LEMMA InductiveInvariant == Spec => []Inv
<1>1. Init => Inv
  BY InitTypes, InitList, InitFlag, InitBuffer DEF Inv
<1>2. Inv /\ [Next]_vars => Inv'
  BY TypesStep, ListStep, FlagStep, BufferStep DEF Inv
<1> QED BY <1>1, <1>2, PTL DEF Spec

\* Types; and the main loop follows a pointer only when it has one.
THEOREM PublishersTypeCorrect == Spec => []PublishersTypeOK
<1>1. Inv => PublishersTypeOK
  BY DEF Inv, Types
<1> QED BY <1>1, InductiveInvariant, PTL

\* Whenever the interrupt comes, the list ends, and leads to allocated blocks
\* only, none of them the pending one or the one taken out: nothing is used
\* after free() or freed twice (MQTT_GetPublishPacket, mqttSendPublish,
\* mqttProcessPuback).
THEOREM HeapSoundCorrect == Spec => []HeapSound
<1>1. Inv => HeapSound
  <2> SUFFICES ASSUME Inv PROVE HeapSound
    OBVIOUS
  <2>1. Chain = {} \/ \E n \in Chain : next[n] = Null
    BY DEF Inv, ListInv, Path
  <2>2. Chain \subseteq used /\ Chain \cap {pending} = {}
    BY ChainFacts DEF Inv, ListInv, Path, OffList
  <2>3. HasNode \/ main.node = Null
    BY DEF Inv, Types
  <2>4. pending # Null => pending \in used /\ pending # main.node
    BY <2>3 DEF Inv, ListInv, OffList
  <2>5. Holding => main.node \in used
    BY DEF Inv, ListInv, OffList, Holding, HasNode, Adding, Taking, Sending
  <2>6. main.pc \notin {"next", "unlink"} => main.node \notin Chain
    BY <2>3, ChainFacts DEF Inv, ListInv, OffList, HasNode, Taking
  <2> QED BY <2>1, <2>2, <2>4, <2>5, <2>6 DEF HeapSound
<1> QED BY <1>1, InductiveInvariant, PTL

\* At rest exactly the packets are lost that the interrupt queued where the main
\* loop had just read a NULL link to write it (MQTT_AddPublishPacketToList,
\* MQTT_GetPublishPacket).
THEOREM OnlyRacedLostCorrect == Spec => []OnlyRacedLost
<1>1. Inv => OnlyRacedLost
  <2> SUFFICES ASSUME Inv, main.pc = "idle"
               PROVE  Lost = doomed /\ \A n \in doomed : packet[n].by = "uart"
    BY DEF OnlyRacedLost
  <2>1. main.node = Null
    BY DEF Inv, Types, HasNode, Adding, Taking, Sending
  <2>2. Chain \cap doomed = {}
    BY DEF Inv, ListInv, Doomed, LinkRead
  <2>3. /\ doomed \subseteq used \ {pending, main.node}
        /\ used \subseteq Chain \cup doomed \cup {pending, main.node}
        /\ \A n \in doomed : packet[n].by = "uart"
    BY DEF Inv, ListInv, Doomed
  <2> QED BY <2>2, <2>3 DEF Lost
<1> QED BY <1>1, InductiveInvariant, PTL

\* At rest packets are listed without the PUBLISH flag exactly when the interrupt
\* came between the main loop's last look and its store of the flags
\* (MQTT_TransmissionHandler).
THEOREM OnlyRacedStrandedCorrect == Spec => []OnlyRacedStranded
<1>1. Inv => OnlyRacedStranded
  <2> SUFFICES ASSUME Inv, main.pc = "idle" PROVE Stranded <=> raced
    BY DEF OnlyRacedStranded
  <2>1. Chain # {} <=> head # Null
    BY ChainFacts DEF Inv
  <2> QED BY <2>1 DEF Inv, FlagInv, Stranded
<1> QED BY <1>1, InductiveInvariant, PTL

\* A PUBLISH from a buffer that only the main loop writes carries its publisher's
\* bytes, none older than the packet and of one message, cut at the length the
\* packet was created with; behind a shorter message are zeros (telemetry) or the
\* end of an older one (button).  Only the buffer the command line and the
\* interrupt share can be sent torn (MQTT_CreatePublishPacket, mqttSendPublish,
\* azutil.c).
THEOREM SentOwnCorrect == Spec => []SentOwn
<1>1. Inv => SentOwn
  <2> SUFFICES ASSUME Inv, main.pc = "send" PROVE SentOwn
    BY DEF SentOwn
  <2> DEFINE p == packet[main.node]
             m == main.copy[1]
             sent == {main.copy[h] : h \in 1..p.len}
  <2>1. /\ main.node \in Nodes /\ p.by \in MainPublishers \cup {"uart"}
        /\ p.len \in 0..2 /\ p.n \in Nat /\ m.len \in 0..2
    BY DEF Inv, Types, PublishersTypeOK, Messages, HasNode, Sending
  <2>2. sent \subseteq {m} \/ (p.len = 2 /\ sent = {m, main.copy[2]})
    <3>1. CASE p.len \in 0..1
      BY <3>1
    <3>2. CASE p.len = 2
      <4>1. 1..2 = {1, 2}
        OBVIOUS
      <4> QED BY <3>2, <4>1
    <3> QED BY <2>1, <3>1, <3>2
  <2>3. CASE p.by \in {"cli", "uart"}
    <3>1. m.by \in {"cli", "uart"} /\ (p.len = 2 => main.copy[2].by \in {"cli", "uart"})
      BY <2>3 DEF Inv, BufferInv, Own
    <3>2. \A s \in sent : s.by \in {"cli", "uart"}
      <4> HIDE DEF sent, m, p
      <4> QED BY <2>2, <3>1
    <3> QED BY <2>3, <3>2 DEF SentOwn
  <2>4. CASE p.by \notin {"cli", "uart"}
    <3>1. p.by \in Own /\ BufferOf(p.by) = p.by
      BY <2>1, <2>4 DEF Own, MainPublishers, BufferOf
    <3>2. /\ m = buf[p.by][1]
          /\ p.len = 2 => main.copy[2] = buf[p.by][2]
      BY <3>1 DEF Inv, BufferInv, Source
    <3>3. Holds(p) /\ WholeIn(p.by)
      BY <2>1, <3>1 DEF Inv, BufferInv
    <3>4. p.by = "telemetry" => buf[p.by][2] \in {m, Zeros(m)}
      BY <3>2 DEF Inv, BufferInv
    <3> HIDE DEF sent, m, p
    <3>5. \A s \in sent : s.by = p.by /\ s.n >= p.n
      BY <2>2, <3>2, <3>3 DEF Holds, Newer
    <3>6. m.len >= p.len => sent \subseteq {m}
      BY <2>1, <2>2, <3>2, <3>3 DEF WholeIn
    <3>7. p.by = "telemetry" => sent \subseteq {m, Zeros(m)}
      BY <2>2, <3>2, <3>4
    <3> QED BY <2>4, <3>5, <3>6, <3>7 DEF SentOwn, sent, m, p
  <2> QED BY <2>3, <2>4
<1> QED BY <1>1, InductiveInvariant, PTL
===============================================================================
