---------------------------- MODULE SocketsProofs ----------------------------
(* Theorems about Sockets, for every number of slots, sockets and data, and   *)
(* for every choice of the requests the module may refuse.                    *)
EXTENDS Sockets, SequenceTheorems, FiniteSetTheorems, TLAPS

WincStates ==
  [session : 0..(SessionRange - 1), status : {"none", "opening", "up", "gone", "failed"},
   posted : Nat, sending : Nat, passed : 0..MaxData, conn : 0..MaxSockets]

SlotStates ==
  {Cleared} \cup [bIsUsed : {TRUE}, session : 1..(SessionRange - 1),
                  bIsRecvPending : BOOLEAN, buffer : BOOLEAN]

EventStates ==
  [op : {"connect", "send", "recv"}, sock : Socks, session : 0..(SessionRange - 1),
   n : -1..MaxData, first : 1..(MaxData + 1), conn : 0..MaxSockets]

Types ==
  /\ sockets \in [Socks -> SlotStates]
  /\ nextTcpSock \in Socks /\ sessionId \in 0..(SessionRange - 1)
  /\ tcpClientSocket \in Socks \cup {NoSocket} /\ socketState \in SocketStates
  /\ winc \in [Socks -> WincStates]
  /\ events \in Seq(EventStates)
  /\ conn \in 0..MaxSockets /\ got \in Seq(Int \X Int) /\ deaf \in BOOLEAN
  /\ orphan \in {"none", "owed", "taken"} /\ spare \in BOOLEAN /\ refusals \in Nat

\* The slots are given out in turn.
Turns ==
  IF conn = 0 THEN tcpClientSocket = NoSocket /\ nextTcpSock = 0
  ELSE /\ tcpClientSocket \in Socks
       /\ nextTcpSock = IF tcpClientSocket + 1 = TcpSlots THEN 0 ELSE tcpClientSocket + 1

\* The slot of the socket made k sockets before the present one.
SlotAgo(k) ==
  IF k <= tcpClientSocket THEN tcpClientSocket - k ELSE tcpClientSocket - k + TcpSlots

\* Socket number c was the last but some that slot s was given to.
Recent(c, s) == c \in 1..conn /\ conn - c < TcpSlots /\ s = SlotAgo(conn - c)

\* What the module still knows or tells is about the last socket of that slot.
WincRecent ==
  \A s \in Socks : \/ winc[s] = Unknown
                   \/ Recent(winc[s].conn, s) /\ winc[s].session # 0

EventsRecent ==
  \A i \in 1..Len(events) : /\ Recent(events[i].conn, events[i].sock)
                            /\ events[i].session # 0

\* Event i is the reply to the CONNECT of the last socket made.
Asked(i) == events[i].op = "connect" /\ events[i].conn = conn

\* While that connection is asked for, or after reInit forgot it, and no longer, one
\* reply is to come.
Opening ==
  /\ \A i \in 1..Len(events) : Asked(i) =>
       /\ socketState = "SOCKET_IN_PROGRESS" \/ orphan = "owed"
       /\ winc[tcpClientSocket].status \in
            IF events[i].n >= 0 THEN {"up", "gone"} ELSE {"failed"}
       /\ \A j \in 1..Len(events) : Asked(j) => j = i
  /\ \A s \in Socks : winc[s].status = "opening" /\ winc[s].conn = conn =>
       /\ socketState = "SOCKET_IN_PROGRESS" \/ orphan = "owed"
       /\ \A i \in 1..Len(events) : ~Asked(i)

\* The reply finds no socket, or has made a phantom, and nothing was asked on that
\* connection.
Orphaned ==
  /\ orphan = "owed" => socketState = "NOT_A_SOCKET"
  /\ orphan = "taken" => socketState \in {"NOT_A_SOCKET", "SOCKET_CONNECTED"}
  /\ orphan # "none" => conn # 0 /\ winc[tcpClientSocket].posted = 0

\* The engine's socket is connected by a reply of its own.
Connected == socketState = "SOCKET_CONNECTED" /\ ~Phantom

\* The module knows the socket under the session of its slot.
Known ==
  socketState = "SOCKET_IN_PROGRESS" \/ Connected =>
    /\ winc[tcpClientSocket].conn = conn
    /\ winc[tcpClientSocket].session = sockets[tcpClientSocket].session
    /\ \A i \in 1..Len(events) :
         events[i].conn = conn => events[i].session = sockets[tcpClientSocket].session
    /\ socketState = "SOCKET_CONNECTED" => winc[tcpClientSocket].status \in {"up", "gone"}

\* Before it is connected nothing is sent or received on it.
Quiet ==
  socketState \in {"SOCKET_CLOSED", "SOCKET_IN_PROGRESS"} =>
    /\ winc[tcpClientSocket].posted = 0 /\ winc[tcpClientSocket].sending = 0
    /\ winc[tcpClientSocket].passed = 0
    /\ ~sockets[tcpClientSocket].bIsRecvPending /\ ~deaf /\ got = <<>>
    /\ \A i \in 1..Len(events) : events[i].conn = conn => events[i].op = "connect"

\* Event i answers the present socket's RECV.
Answers(i) == events[i].op = "recv" /\ events[i].conn = conn

Answered == \E i \in 1..Len(events) : Answers(i)

\* One RECV at a time: its answer is the next data, or says that there is no more.
Served ==
  Connected =>
    LET w == winc[tcpClientSocket]
        f == sockets[tcpClientSocket]
    IN /\ w.posted \in {0, 1}
       /\ w.posted = 1 => f.bIsRecvPending /\ ~Answered
       /\ \A i \in 1..Len(events) : Answers(i) =>
            /\ f.bIsRecvPending
            /\ \A j \in 1..Len(events) : Answers(j) => j = i
            /\ events[i].n > 0 =>
                 events[i].first = Len(got) + 1 /\ w.passed = Len(got) + events[i].n
            /\ events[i].n <= 0 => w.passed = Len(got)
       /\ ~Answered => w.passed = Len(got)
       /\ f.bIsRecvPending => f.buffer
       /\ deaf => f.bIsRecvPending /\ w.posted = 0 /\ ~Answered
       /\ f.bIsRecvPending /\ ~deaf => w.posted = 1 \/ Answered

IInv ==
  /\ Types /\ SocketOwned /\ Turns /\ WincRecent /\ EventsRecent
  /\ Opening /\ Orphaned /\ Known /\ Quiet /\ Served /\ ~spare

LEMMA Constants ==
  /\ TcpSlots \in Nat /\ TcpSlots > 0 /\ SessionRange \in Nat /\ SessionRange > 1
  /\ MaxLate \in Nat /\ MaxLate < TcpSlots
  /\ MaxSockets \in Nat /\ MaxData \in Nat /\ MaxSends \in Nat /\ MaxRefusals \in Nat
BY SizesAssumption, PromptAssumption, RefusalsAssumption, BoundsAssumption

LEMMA ClearedSlot == Cleared \in SlotStates
BY DEF SlotStates

LEMMA ClearedUnread == [Cleared EXCEPT !.bIsRecvPending = FALSE] = Cleared
<1> DEFINE R == [bIsUsed : BOOLEAN, session : Int, bIsRecvPending : BOOLEAN, buffer : BOOLEAN]
<1>1. ASSUME NEW c \in R, c.bIsRecvPending = FALSE
      PROVE  [c EXCEPT !.bIsRecvPending = FALSE] = c
  BY <1>1
<1>2. Cleared \in R /\ Cleared.bIsRecvPending = FALSE
  BY DEF Cleared
<1>3. QED
  BY <1>1, <1>2

LEMMA UnknownWinc == Unknown \in WincStates
BY Constants DEF Unknown, WincStates

-----------------------------------------------------------------------------
LEMMA InitIInv == Init => IInv
<1> SUFFICES ASSUME Init PROVE IInv
  OBVIOUS
<1>1. Types
  <2>1. sockets \in [Socks -> SlotStates] /\ winc \in [Socks -> WincStates]
    BY ClearedSlot, UnknownWinc DEF Init
  <2>2. nextTcpSock \in Socks /\ sessionId \in 0..(SessionRange - 1) /\ conn \in 0..MaxSockets
    BY Constants DEF Init, Socks
  <2>3. events \in Seq(EventStates) /\ got \in Seq(Int \X Int)
    BY EmptySeq DEF Init
  <2>4. QED
    BY <2>1, <2>2, <2>3 DEF Init, Types, NoSocket, SocketStates
<1>2. QED
  BY <1>1, Constants DEF Init, IInv, SocketOwned, Turns, WincRecent, EventsRecent, Opening,
     Orphaned, Connected, Known, Quiet, Served, Socks, Unknown, Cleared

LEMMA Typed ==
  ASSUME IInv
  PROVE  /\ sockets \in [Socks -> SlotStates] /\ winc \in [Socks -> WincStates]
         /\ events \in Seq(EventStates) /\ got \in Seq(Int \X Int) /\ conn \in 0..MaxSockets
         /\ refusals \in Nat /\ deaf \in BOOLEAN
BY DEF IInv, Types

LEMMA OneMore ==
  ASSUME NEW w \in WincStates
  PROVE  /\ [w EXCEPT !.sending = @ + 1] \in WincStates
         /\ [w EXCEPT !.posted = @ + 1] \in WincStates
<1>1. [w EXCEPT !.sending = @ + 1] \in WincStates
  BY DEF WincStates
<1>2. [w EXCEPT !.posted = @ + 1] \in WincStates
  BY DEF WincStates
<1>3. QED
  BY <1>1, <1>2

LEMMA TwoFields ==
  ASSUME NEW w \in WincStates, NEW p \in Nat, NEW q \in 0..MaxData
  PROVE  [w EXCEPT !.posted = p, !.passed = q] \in WincStates
BY DEF WincStates

\* The module's record of one socket is replaced.
LEMMA WincSet ==
  ASSUME IInv, NEW s \in Socks, NEW w \in WincStates, winc' = [winc EXCEPT ![s] = w]
  PROVE  /\ winc' \in [Socks -> WincStates] /\ winc'[s] = w
         /\ \A u \in Socks : u # s => winc'[u] = winc[u]
BY Typed

\* A slot in use has a session of its own.
LEMMA UsedSlot ==
  ASSUME Types, NEW s \in Socks, sockets[s].bIsUsed
  PROVE  sockets[s] \in [bIsUsed : {TRUE}, session : 1..(SessionRange - 1),
                          bIsRecvPending : BOOLEAN, buffer : BOOLEAN]
<1>1. sockets[s] \in SlotStates
  BY DEF Types
<1>2. ~Cleared.bIsUsed
  BY DEF Cleared
<1>3. sockets[s] # Cleared
  BY <1>2
<1>4. QED
  BY <1>1, <1>3 DEF SlotStates

LEMMA UsedSession ==
  ASSUME Types, NEW s \in Socks, sockets[s].bIsUsed
  PROVE  sockets[s].session \in 1..(SessionRange - 1)
BY UsedSlot

-----------------------------------------------------------------------------
(* The host's steps.  The events stay as they are.                           *)

\* A request that is refused and changes nothing.
LEMMA RefusedOnly ==
  ASSUME IInv, refusals' \in Nat,
         UNCHANGED <<driverVars, adapterVars, winc, events, conn, got, deaf>>
  PROVE  IInv'
BY DEF IInv, Types, SocketOwned, Phantom, Turns, WincRecent, EventsRecent, Recent, SlotAgo,
   Opening, Asked, Orphaned, Connected, Known, Quiet, Served, Answered, Answers, driverVars,
   adapterVars

\* The engine's socket is one of the slots, and the one that is in use.
LEMMA InUse ==
  ASSUME IInv, socketState # "NOT_A_SOCKET", ~Phantom
  PROVE  tcpClientSocket \in Socks /\ conn # 0 /\ sockets[tcpClientSocket].bIsUsed
<1>1. {s \in Socks : sockets[s].bIsUsed} = {tcpClientSocket}
  BY DEF IInv, SocketOwned
<1>2. tcpClientSocket \in Socks /\ sockets[tcpClientSocket].bIsUsed
  BY <1>1
<1>3. NoSocket \notin Socks
  BY Constants DEF NoSocket, Socks
<1>4. QED
  BY <1>2, <1>3 DEF IInv, Turns

LEMMA NotInUse ==
  ASSUME IInv, NEW s \in Socks,
         socketState = "NOT_A_SOCKET" \/ Phantom \/ s # tcpClientSocket
  PROVE  sockets[s] = Cleared
<1>1. ~sockets[s].bIsUsed
  BY DEF IInv, SocketOwned
<1>2. sockets[s] \in SlotStates
  BY DEF IInv, Types
<1>3. QED
  BY <1>1, <1>2 DEF SlotStates

\* Whether it is in use or not, it is one of the slots.
LEMMA ClientSlot ==
  ASSUME IInv, socketState # "NOT_A_SOCKET" \/ orphan # "none"
  PROVE  tcpClientSocket \in Socks /\ conn # 0
<1>1. CASE orphan # "none"
  BY <1>1 DEF IInv, Orphaned, Turns
<1>2. CASE orphan = "none"
  BY <1>2, InUse DEF Phantom
<1>3. QED
  BY <1>1, <1>2

LEMMA UsableSlot ==
  ASSUME IInv, Usable
  PROVE  /\ tcpClientSocket \in Socks /\ conn # 0 /\ sockets[tcpClientSocket].bIsUsed
         /\ socketState = "SOCKET_CONNECTED" /\ ~Phantom /\ Connected /\ orphan = "none"
<1>1. socketState = "SOCKET_CONNECTED" /\ sockets[tcpClientSocket].bIsUsed
  BY DEF Usable
<1>2. tcpClientSocket \in Socks /\ conn # 0
  BY <1>1, ClientSlot
<1>3. ~Phantom
  BY <1>1, <1>2, NotInUse DEF Cleared
<1>4. orphan = "none"
  BY <1>1, <1>3 DEF IInv, Types, Orphaned, Phantom
<1>5. QED
  BY <1>1, <1>2, <1>3, <1>4 DEF Connected

\* The socket is closed.  Of the events at most the first has been handled.
LEMMA ClosedStep ==
  ASSUME IInv, tcpClientSocket \in Socks,
         sockets' = [sockets EXCEPT ![tcpClientSocket] = Cleared],
         winc' = winc \/ winc' = [winc EXCEPT ![tcpClientSocket] = Unknown],
         socketState' = "NOT_A_SOCKET",
         orphan' = orphan \/ orphan' = "none", orphan' # "owed",
         UNCHANGED <<nextTcpSock, sessionId, tcpClientSocket, spare, conn, got, deaf>>,
         refusals' \in Nat, events' \in Seq(EventStates),
         \A i \in 1..Len(events') : \E j \in 1..Len(events) : events'[i] = events[j],
         \A i \in 1..Len(events') : ~(events'[i].op = "connect" /\ events'[i].conn = conn),
         \A s \in Socks : ~(winc[s].status = "opening" /\ winc[s].conn = conn)
  PROVE  IInv'
<1> DEFINE t == tcpClientSocket
<1>1. Types'
  <2>1. sockets' \in [Socks -> SlotStates]
    BY ClearedSlot DEF IInv, Types
  <2>2. winc' \in [Socks -> WincStates]
    BY UnknownWinc DEF IInv, Types
  <2>3. QED
    BY <2>1, <2>2 DEF IInv, Types, SocketStates
<1>2. SocketOwned'
  <2>1. \A s \in Socks : ~sockets'[s].bIsUsed
    BY NotInUse DEF IInv, Types, Cleared
  <2>2. QED
    BY <2>1 DEF SocketOwned
<1>3. Turns' /\ Known' /\ Quiet' /\ Served' /\ ~spare'
  BY DEF IInv, Turns, Connected, Known, Quiet, Served
<1>4. WincRecent'
  <2>1. \A s \in Socks : winc'[s] = winc[s] \/ winc'[s] = Unknown
    BY DEF IInv, Types
  <2>2. QED
    BY <2>1 DEF IInv, WincRecent, Recent, SlotAgo
<1>5. EventsRecent'
  BY DEF IInv, EventsRecent, Recent, SlotAgo
<1>6. Opening'
  <2>1. \A s \in Socks : winc'[s] = winc[s] \/ winc'[s] = Unknown
    BY DEF IInv, Types
  <2>2. \A s \in Socks : ~(winc'[s].status = "opening" /\ winc'[s].conn = conn)
    BY <2>1 DEF Unknown
  <2>3. QED
    BY <2>2 DEF Opening, Asked
<1>7. Orphaned'
  <2>1. orphan # "none" => conn # 0 /\ winc'[t].posted = 0
    BY DEF IInv, Types, Orphaned, Unknown
  <2>2. QED
    BY <2>1 DEF IInv, Orphaned
<1>8. QED
  BY <1>1, <1>2, <1>3, <1>4, <1>5, <1>6, <1>7 DEF IInv

\* A socket that is not waiting for its connection has none to wait for, unless it
\* was forgotten.
LEMMA NotOpening ==
  ASSUME IInv, socketState # "SOCKET_IN_PROGRESS", orphan # "owed"
  PROVE  /\ \A i \in 1..Len(events) : ~Asked(i)
         /\ \A s \in Socks : ~(winc[s].status = "opening" /\ winc[s].conn = conn)
BY DEF IInv, Opening

LEMMA OptionFailsStep == ASSUME IInv, OptionFails PROVE IInv'
<1>1. socketState = "SOCKET_CLOSED" /\ orphan # "owed"
  BY DEF OptionFails, IInv, Orphaned
<1>2. tcpClientSocket \in Socks /\ refusals' \in Nat /\ events \in Seq(EventStates)
  BY <1>1, ClientSlot DEF OptionFails, IInv, Types
<1>3. QED
  BY <1>1, <1>2, NotOpening, ClosedStep DEF OptionFails, Asked

LEMMA CloseStep == ASSUME IInv, Close PROVE IInv'
<1>1. socketState = "SOCKET_CONNECTED" /\ orphan # "owed"
  BY DEF Close, IInv, Orphaned
<1>2. tcpClientSocket \in Socks /\ refusals' \in Nat /\ events \in Seq(EventStates)
  BY <1>1, ClientSlot DEF Close, BsdClose, Shutdown, Accepted, Refused, IInv, Types
<1>3. QED
  BY <1>1, <1>2, NotOpening, ClosedStep DEF Close, BsdClose, Shutdown, Asked

LEMMA ReInitStep == ASSUME IInv, ReInit PROVE IInv'
<1>1. /\ sockets' = [s \in Socks |-> Cleared] /\ sessionId' = 0
      /\ socketState' = "NOT_A_SOCKET"
      /\ orphan' = IF socketState = "SOCKET_IN_PROGRESS" THEN "owed" ELSE orphan
      /\ UNCHANGED <<nextTcpSock, tcpClientSocket, spare, winc, events, conn, got, deaf, refusals>>
  BY DEF ReInit, history
<1>2. Types'
  <2>1. sockets' \in [Socks -> SlotStates] /\ sessionId' \in 0..(SessionRange - 1)
    BY <1>1, ClearedSlot, Constants
  <2>2. QED
    BY <1>1, <2>1 DEF IInv, Types, SocketStates
<1>3. SocketOwned'
  BY <1>1 DEF SocketOwned, Cleared
<1>4. Turns' /\ WincRecent' /\ EventsRecent' /\ ~spare'
  BY <1>1 DEF IInv, Turns, WincRecent, EventsRecent, Recent, SlotAgo
<1>5. Opening'
  BY <1>1 DEF IInv, Opening, Asked
<1>6. Orphaned'
  <2>1. CASE socketState = "SOCKET_IN_PROGRESS"
    <3>1. conn # 0 /\ winc[tcpClientSocket].posted = 0
      BY <2>1, ClientSlot DEF IInv, Quiet
    <3>2. QED
      BY <1>1, <2>1, <3>1 DEF Orphaned
  <2>2. CASE socketState # "SOCKET_IN_PROGRESS"
    BY <1>1, <2>2 DEF IInv, Orphaned
  <2>3. QED
    BY <2>1, <2>2
<1>7. Known' /\ Quiet' /\ Served'
  BY <1>1 DEF Known, Connected, Quiet, Served
<1>8. QED
  BY <1>2, <1>3, <1>4, <1>5, <1>6, <1>7 DEF IInv

LEMMA ConnectStep == ASSUME IInv, Connect PROVE IInv'
<1> USE DEF IInv
<1> DEFINE t == tcpClientSocket
<1>1. t \in Socks /\ conn # 0 /\ sockets[t].bIsUsed
  BY InUse DEF Connect, Phantom
<1>0. orphan = "none"
  BY DEF Connect, Orphaned, Types
<1>2. sockets[t].session \in 1..(SessionRange - 1)
  BY <1>1, UsedSession
<1>3. CASE socketState' = socketState /\ winc' = winc
  <2>1. UNCHANGED <<winc, socketState, sockets, nextTcpSock, sessionId, tcpClientSocket, orphan,
                    spare, events, conn, got, deaf>> /\ refusals' \in Nat
    BY <1>3 DEF Connect, Accepted, Refused, Types, driverVars
  <2>2. QED
    BY <2>1, RefusedOnly DEF driverVars, adapterVars
<1>4. CASE /\ winc' = [winc EXCEPT ![t] = [Unknown EXCEPT !.session = sockets[t].session,
                                                        !.status = "opening", !.conn = conn]]
           /\ socketState = "SOCKET_CLOSED" /\ socketState' = "SOCKET_IN_PROGRESS"
  <2>1. UNCHANGED <<sockets, nextTcpSock, sessionId, tcpClientSocket, orphan, spare,
                    events, conn, got, deaf>> /\ refusals' \in Nat
    BY DEF Connect, Accepted, Refused, Types, driverVars
  <2>2. Types'
    <3> DEFINE w == [Unknown EXCEPT !.session = sockets[t].session, !.status = "opening",
                                    !.conn = conn]
    <3>1. w \in WincStates
      <4>1. conn \in 0..MaxSockets
        BY DEF Types
      <4>2. sockets[t].session \in 0..(SessionRange - 1)
        BY <1>2, Constants
      <4> HIDE DEF IInv
      <4>3. QED
        BY <4>1, <4>2, UnknownWinc DEF WincStates, Unknown
    <3>0. winc' = [winc EXCEPT ![t] = w]
      BY <1>4
    <3> HIDE DEF w
    <3>2. winc' \in [Socks -> WincStates]
      BY <1>1, <3>0, <3>1 DEF Types
    <3>3. QED
      BY <1>4, <2>1, <3>2 DEF Types, SocketStates
  <2>3. SocketOwned' /\ Turns' /\ EventsRecent'
    BY <1>4, <2>1 DEF SocketOwned, Phantom, Turns, EventsRecent, Recent, SlotAgo
  <2>4. WincRecent'
    <3> SUFFICES ASSUME NEW s \in Socks
                 PROVE  winc'[s] = Unknown \/ (Recent(winc[s].conn, s) /\ winc[s].session # 0)'
      BY DEF WincRecent
    <3>1. CASE s # t
      BY <1>4, <2>1, <3>1 DEF WincRecent, Recent, SlotAgo, Types
    <3>2. CASE s = t
      <4>1. winc'[s].conn = conn /\ winc'[s].session = sockets[t].session
        BY <1>1, <1>4, <3>2 DEF Types, Unknown
      <4>2. conn \in 1..conn /\ conn - conn < TcpSlots /\ t = SlotAgo(conn - conn)
        BY <1>1, Constants DEF Types, SlotAgo, Socks
      <4>3. QED
        BY <1>2, <2>1, <3>2, <4>1, <4>2 DEF Recent, SlotAgo
    <3>3. QED
      BY <3>1, <3>2
  <2>5. \A i \in 1..Len(events) : ~Asked(i)
    BY <1>0, <1>4, NotOpening
  <2>6. Opening'
    BY <1>1, <1>4, <2>1, <2>5 DEF Opening, Asked
  <2>7. Known' /\ Quiet' /\ Served'
    BY <1>1, <1>4, <2>1, <2>5 DEF Asked, Connected, Known, Quiet, Served, Types, Unknown
  <2>8. Orphaned'
    BY <1>0, <2>1 DEF Orphaned
  <2>9. QED
    BY <2>1, <2>2, <2>3, <2>4, <2>6, <2>7, <2>8
<1>5. QED
  BY <1>3, <1>4 DEF Connect

LEMMA SendStep == ASSUME IInv, Send PROVE IInv'
<1> DEFINE t == tcpClientSocket
<1>1. /\ t \in Socks /\ conn # 0 /\ socketState = "SOCKET_CONNECTED"
      /\ ~Phantom /\ Connected /\ orphan = "none"
  BY UsableSlot DEF Send
<1>2. refusals' \in Nat /\ UNCHANGED <<driverVars, adapterVars, events, conn, got, deaf>>
  BY DEF Send, Accepted, Refused, IInv, Types
<1>3. CASE winc' = winc
  BY <1>2, <1>3, RefusedOnly
<1>4. CASE winc' = [winc EXCEPT ![t].sending = @ + 1]
  <2> DEFINE w == [winc[t] EXCEPT !.sending = @ + 1]
  <2>a. w \in WincStates /\ winc' = [winc EXCEPT ![t] = w] /\ winc[t] \in WincStates
    BY <1>1, <1>4, OneMore, Typed
  <2>b. /\ w.session = winc[t].session /\ w.status = winc[t].status /\ w.posted = winc[t].posted
        /\ w.passed = winc[t].passed /\ w.conn = winc[t].conn
    BY <2>a DEF WincStates
  <2> HIDE DEF w
  <2>1. /\ winc' \in [Socks -> WincStates] /\ winc'[t] = w
        /\ \A s \in Socks : s # t => winc'[s] = winc[s]
    BY <1>1, <2>a, WincSet
  <2>2. \A s \in Socks : /\ winc'[s].session = winc[s].session /\ winc'[s].status = winc[s].status
                          /\ winc'[s].posted = winc[s].posted /\ winc'[s].passed = winc[s].passed
                          /\ winc'[s].conn = winc[s].conn /\ (s # t => winc'[s] = winc[s])
    BY <1>1, <2>1, <2>b
  <2>3. winc[t].conn = conn /\ conn # 0
    BY <1>1 DEF IInv, Known
  <2>4. Types'
    BY <1>2, <2>1 DEF IInv, Types, driverVars, adapterVars
  <2>5. WincRecent'
    BY <1>2, <2>2, <2>3 DEF IInv, WincRecent, Recent, SlotAgo, Unknown, adapterVars
  <2>6. SocketOwned' /\ Turns' /\ EventsRecent' /\ ~spare'
    BY <1>2 DEF IInv, SocketOwned, Phantom, Turns, EventsRecent, Recent, SlotAgo, driverVars,
       adapterVars
  <2>7. Opening' /\ Orphaned' /\ Known' /\ Quiet'
    BY <1>1, <1>2, <2>2 DEF IInv, Opening, Asked, Orphaned, Connected, Phantom, Known, Quiet,
       driverVars, adapterVars
  <2>8. Served'
    BY <1>1, <1>2, <2>2 DEF IInv, Served, Connected, Phantom, Answered, Answers, driverVars,
       adapterVars
  <2>9. QED
    BY <2>4, <2>5, <2>6, <2>7, <2>8 DEF IInv
<1>5. QED
  BY <1>3, <1>4 DEF Send

LEMMA RecvStep == ASSUME IInv, Recv PROVE IInv'
<1> DEFINE t == tcpClientSocket
<1>1. /\ t \in Socks /\ socketState = "SOCKET_CONNECTED" /\ conn # 0 /\ sockets[t].bIsUsed
      /\ ~Phantom /\ Connected /\ orphan = "none"
  BY UsableSlot DEF Recv
<1>2. /\ refusals' \in Nat /\ deaf' \in BOOLEAN
      /\ UNCHANGED <<nextTcpSock, sessionId, adapterVars, events, conn, got>>
      /\ sockets' = [sockets EXCEPT ![t].bIsRecvPending = TRUE, ![t].buffer = TRUE]
  <2>1. /\ UNCHANGED <<nextTcpSock, sessionId, adapterVars, events, conn, got>>
        /\ sockets' = [sockets EXCEPT ![t].bIsRecvPending = TRUE, ![t].buffer = TRUE]
    BY DEF Recv
  <2>2. deaf' = deaf \/ deaf' = TRUE
    BY DEF Recv
  <2>3. refusals' = refusals \/ refusals' = refusals + 1
    BY DEF Recv, Accepted, Refused
  <2>4. refusals' \in Nat
    BY <2>3, Typed
  <2>5. deaf' \in BOOLEAN
    BY <2>2, Typed
  <2>6. QED
    BY <2>1, <2>4, <2>5
<1>3. sockets[t] \in [bIsUsed : {TRUE}, session : 1..(SessionRange - 1),
                      bIsRecvPending : BOOLEAN, buffer : BOOLEAN]
  BY <1>1, UsedSlot DEF IInv
<1>4. /\ sockets'[t] \in [bIsUsed : {TRUE}, session : 1..(SessionRange - 1),
                          bIsRecvPending : BOOLEAN, buffer : BOOLEAN]
      /\ sockets'[t].session = sockets[t].session /\ sockets'[t].bIsUsed
      /\ sockets'[t].bIsRecvPending /\ sockets'[t].buffer
      /\ \A s \in Socks : s # t => sockets'[s] = sockets[s]
  BY <1>1, <1>2, <1>3 DEF IInv, Types
<1>5. sockets' \in [Socks -> SlotStates]
  <2>1. sockets'[t] \in SlotStates
    BY <1>4 DEF SlotStates
  <2>2. DOMAIN sockets' = Socks /\ sockets' = [s \in Socks |-> sockets'[s]]
    BY <1>2 DEF IInv, Types
  <2>3. \A s \in Socks : sockets'[s] \in SlotStates
    BY <1>4, <2>1 DEF IInv, Types
  <2>4. QED
    BY <2>2, <2>3
<1>6. /\ winc' \in [Socks -> WincStates]
      /\ \A s \in Socks : /\ winc'[s].session = winc[s].session /\ winc'[s].status = winc[s].status
                           /\ winc'[s].sending = winc[s].sending /\ winc'[s].passed = winc[s].passed
                           /\ winc'[s].conn = winc[s].conn /\ (s # t => winc'[s] = winc[s])
      /\ \/ /\ sockets[t].bIsRecvPending /\ winc'[t].posted = winc[t].posted /\ deaf' = deaf
         \/ /\ ~sockets[t].bIsRecvPending /\ winc'[t].posted = winc[t].posted + 1 /\ deaf' = deaf
         \/ /\ ~sockets[t].bIsRecvPending /\ winc'[t].posted = winc[t].posted /\ deaf' = TRUE
  <2>1. CASE winc' = winc
    <3>1. \/ sockets[t].bIsRecvPending /\ deaf' = deaf
          \/ ~sockets[t].bIsRecvPending /\ deaf' = TRUE
          \/ winc' = [winc EXCEPT ![t].posted = @ + 1]
      BY DEF Recv
    <3>2. winc' # [winc EXCEPT ![t].posted = @ + 1]
      BY <1>1, <2>1, Typed DEF WincStates
    <3>3. QED
      BY <2>1, <3>1, <3>2, Typed
  <2>2. CASE winc' = [winc EXCEPT ![t].posted = @ + 1] /\ ~sockets[t].bIsRecvPending
             /\ deaf' = deaf
    <3> DEFINE w == [winc[t] EXCEPT !.posted = @ + 1]
    <3>1. w \in WincStates /\ winc' = [winc EXCEPT ![t] = w] /\ winc[t] \in WincStates
      BY <1>1, <2>2, OneMore, Typed
    <3>2. /\ w.session = winc[t].session /\ w.status = winc[t].status
          /\ w.sending = winc[t].sending /\ w.posted = winc[t].posted + 1
          /\ w.passed = winc[t].passed /\ w.conn = winc[t].conn
      BY <3>1 DEF WincStates
    <3> HIDE DEF w
    <3>3. /\ winc' \in [Socks -> WincStates] /\ winc'[t] = w
          /\ \A s \in Socks : s # t => winc'[s] = winc[s]
      BY <1>1, <3>1, WincSet
    <3>4. QED
      BY <1>1, <2>2, <3>2, <3>3
  <2>3. QED
    BY <2>1, <2>2 DEF Recv
<1>7. winc[t].conn = conn
  BY <1>1 DEF IInv, Known
<1>8. Types'
  BY <1>2, <1>5, <1>6 DEF IInv, Types, adapterVars
<1>9. WincRecent'
  BY <1>2, <1>6, <1>7, <1>1 DEF IInv, WincRecent, Recent, SlotAgo, Unknown, adapterVars
<1>10. SocketOwned'
  BY <1>1, <1>2, <1>4 DEF IInv, SocketOwned, Phantom, adapterVars
<1>11. Turns' /\ EventsRecent' /\ ~spare'
  BY <1>2 DEF IInv, Turns, EventsRecent, Recent, SlotAgo, adapterVars
<1>12. Opening' /\ Orphaned' /\ Known' /\ Quiet'
  <2>1. UNCHANGED <<tcpClientSocket, socketState, orphan, events, conn>>
    BY <1>2 DEF adapterVars
  <2>2. Opening'
    BY <1>1, <1>6, <2>1 DEF IInv, Opening, Asked
  <2>3. Known'
    BY <1>1, <1>4, <1>6, <2>1 DEF IInv, Known
  <2>4. QED
    BY <1>1, <2>1, <2>2, <2>3 DEF Quiet, Orphaned
<1>13. Served'
  <2>1. UNCHANGED <<tcpClientSocket, socketState, events, conn, got>>
    BY <1>2 DEF adapterVars
  <2>2. (Answered' <=> Answered) /\ \A i : Answers(i)' <=> Answers(i)
    BY <2>1 DEF Answered, Answers
  <2>3. /\ winc[t].posted \in {0, 1}
        /\ winc[t].posted = 1 => sockets[t].bIsRecvPending /\ ~Answered
        /\ \A i \in 1..Len(events) : Answers(i) =>
             /\ sockets[t].bIsRecvPending
             /\ \A j \in 1..Len(events) : Answers(j) => j = i
             /\ events[i].n > 0 =>
                  events[i].first = Len(got) + 1 /\ winc[t].passed = Len(got) + events[i].n
             /\ events[i].n <= 0 => winc[t].passed = Len(got)
        /\ ~Answered => winc[t].passed = Len(got)
        /\ deaf => sockets[t].bIsRecvPending /\ winc[t].posted = 0 /\ ~Answered
        /\ sockets[t].bIsRecvPending /\ ~deaf => winc[t].posted = 1 \/ Answered
    BY <1>1 DEF IInv, Served
  <2>4. ~sockets[t].bIsRecvPending => ~Answered /\ winc[t].posted = 0 /\ ~deaf
    BY <2>3 DEF Answered
  <2>5. QED
    BY <1>1, <1>4, <1>6, <2>1, <2>2, <2>3, <2>4 DEF Served
<1>14. QED
  BY <1>8, <1>9, <1>10, <1>11, <1>12, <1>13 DEF IInv

-----------------------------------------------------------------------------
(* The module's steps.                                                       *)

LEMMA RecentCurrent ==
  ASSUME IInv, NEW c \in Nat, NEW s \in Socks, Recent(c, s)
  PROVE  tcpClientSocket \in Socks /\ (s = tcpClientSocket <=> c = conn)
<1>1. conn \in Nat /\ c <= conn /\ c >= 1 /\ conn - c < TcpSlots /\ conn # 0
  BY Typed, Constants DEF Recent
<1>2. tcpClientSocket \in Socks
  BY <1>1 DEF IInv, Turns
<1>3. QED
  BY <1>1, <1>2, Constants DEF Recent, SlotAgo, Socks

\* An event is about the present socket exactly if it is about its slot.
LEMMA EventCurrent ==
  ASSUME IInv, NEW i \in 1..Len(events)
  PROVE  /\ events[i] \in EventStates /\ tcpClientSocket \in Socks
         /\ events[i].sock = tcpClientSocket <=> events[i].conn = conn
<1>1. events[i] \in EventStates
  BY Typed, ElementOfSeq
<1>2. events[i].conn \in Nat /\ events[i].sock \in Socks
  BY <1>1, Constants DEF EventStates
<1>3. Recent(events[i].conn, events[i].sock)
  BY DEF IInv, EventsRecent
<1>4. QED
  BY <1>1, <1>2, <1>3, RecentCurrent

\* What the module knows of a slot is of the present socket, or of another slot.
LEMMA Current ==
  ASSUME IInv, NEW s \in Socks, winc[s] # Unknown
  PROVE  tcpClientSocket \in Socks /\ (s = tcpClientSocket <=> winc[s].conn = conn)
<1>1. winc[s].conn \in Nat
  BY Typed, Constants DEF WincStates
<1>2. Recent(winc[s].conn, s)
  BY DEF IInv, WincRecent
<1>3. QED
  BY <1>1, <1>2, RecentCurrent

LEMMA Appended ==
  ASSUME IInv, NEW e \in EventStates, events' = Append(events, e)
  PROVE  /\ events' \in Seq(EventStates) /\ Len(events') = Len(events) + 1 /\ Len(events) \in Nat
         /\ \A i \in 1..Len(events) : events'[i] = events[i]
         /\ events'[Len(events) + 1] = e
         /\ \A i \in 1..Len(events') : i \in 1..Len(events) \/ i = Len(events) + 1
<1>1. events \in Seq(EventStates)
  BY Typed
<1>2. QED
  BY <1>1, AppendProperties, LenProperties

\* One socket's record changes, and at most one event is told.
LEMMA ModuleStep ==
  ASSUME IInv, NEW s \in Socks, NEW w \in WincStates, winc[s] # Unknown,
         winc' = [winc EXCEPT ![s] = w], w.session = winc[s].session, w.conn = winc[s].conn,
         winc[s].status \in {"up", "gone"} => w.status \in {"up", "gone"},
         w.posted <= winc[s].posted,
         UNCHANGED <<driverVars, adapterVars, conn, got, deaf, refusals>>,
         NEW e \in EventStates, e.sock = s, e.conn = w.conn, e.session = w.session,
         events' = events \/ events' = Append(events, e)
  PROVE  /\ Types' /\ SocketOwned' /\ Turns' /\ WincRecent' /\ EventsRecent' /\ Orphaned'
         /\ Known' /\ ~spare'
<1>1. /\ winc' \in [Socks -> WincStates] /\ winc'[s] = w
      /\ \A u \in Socks : u # s => winc'[u] = winc[u]
  BY WincSet
<1>2. events' \in Seq(EventStates)
  BY Typed, Appended
<1>3. UNCHANGED <<sockets, nextTcpSock, sessionId, tcpClientSocket, socketState, orphan, spare>>
  BY DEF driverVars, adapterVars
<1>4. Types'
  BY <1>1, <1>2, <1>3 DEF IInv, Types
<1>5. SocketOwned' /\ Turns' /\ ~spare'
  BY <1>3 DEF IInv, SocketOwned, Phantom, Turns
<1>6. Recent(w.conn, s) /\ w.session # 0
  BY DEF IInv, WincRecent
<1>7. WincRecent'
  BY <1>1, <1>3, <1>6 DEF IInv, WincRecent, Recent, SlotAgo
<1>8. EventsRecent'
  <2>1. CASE events' = events
    BY <1>3, <2>1 DEF IInv, EventsRecent, Recent, SlotAgo
  <2>2. CASE events' = Append(events, e)
    <3> SUFFICES ASSUME NEW i \in 1..Len(events')
                 PROVE  Recent(events'[i].conn, events'[i].sock) /\ events'[i].session # 0
      BY <1>3 DEF EventsRecent, Recent, SlotAgo
    <3>1. events'[i] = e \/ (i \in 1..Len(events) /\ events'[i] = events[i])
      BY <2>2, Appended
    <3>2. QED
      BY <1>6, <3>1 DEF IInv, EventsRecent
  <2>3. QED
    BY <2>1, <2>2
<1>9. Known'
  <2> SUFFICES ASSUME socketState = "SOCKET_IN_PROGRESS" \/ Connected
               PROVE  Known'
    BY <1>3 DEF Known, Connected, Phantom
  <2>1. tcpClientSocket \in Socks /\ (s = tcpClientSocket <=> winc[s].conn = conn)
    BY Current
  <2>2. /\ winc'[tcpClientSocket].conn = conn
        /\ winc'[tcpClientSocket].session = sockets[tcpClientSocket].session
        /\ socketState = "SOCKET_CONNECTED" => winc'[tcpClientSocket].status \in {"up", "gone"}
    BY <1>1, <2>1 DEF IInv, Known
  <2>3. ASSUME NEW i \in 1..Len(events'), events'[i].conn = conn
        PROVE  events'[i].session = sockets[tcpClientSocket].session
    <3>1. events'[i] = e \/ (i \in 1..Len(events) /\ events'[i] = events[i])
      BY Appended
    <3>2. CASE events'[i] = e
      BY <1>1, <2>1, <2>2, <2>3, <3>2
    <3>3. CASE i \in 1..Len(events) /\ events'[i] = events[i]
      BY <2>3, <3>3 DEF IInv, Known
    <3>4. QED
      BY <3>1, <3>2, <3>3
  <2>4. QED
    BY <1>3, <2>2, <2>3 DEF Known
<1>10. Orphaned'
  <2>1. ASSUME orphan # "none" PROVE winc'[tcpClientSocket].posted = 0
    <3>1. winc[tcpClientSocket].posted = 0
      BY <2>1 DEF IInv, Orphaned
    <3>2. w.posted \in Nat /\ winc[s].posted \in Nat
      BY Typed DEF WincStates
    <3>3. tcpClientSocket \in Socks
      BY <2>1, ClientSlot
    <3>4. QED
      BY <1>1, <3>1, <3>2, <3>3
  <2>2. QED
    BY <1>3, <2>1 DEF IInv, Orphaned
<1>11. QED
  BY <1>4, <1>5, <1>7, <1>8, <1>9, <1>10

\* Steps that are not about asking for the present connection.
LEMMA OpeningKept ==
  ASSUME IInv, NEW s \in Socks, winc[s] # Unknown,
         NEW w \in WincStates, winc' = [winc EXCEPT ![s] = w], w.conn = winc[s].conn,
         UNCHANGED <<adapterVars, conn>>,
         NEW e \in EventStates, e.conn = winc[s].conn,
         events' = events \/ events' = Append(events, e),
         winc[s].conn = conn =>
           /\ w.status = winc[s].status \/ (winc[s].status = "up" /\ w.status = "gone")
           /\ e.op # "connect"
  PROVE  Opening'
<1>1. /\ winc'[s] = w /\ \A u \in Socks : u # s => winc'[u] = winc[u]
  BY WincSet
<1>2. UNCHANGED <<tcpClientSocket, socketState, orphan>>
  BY DEF adapterVars
<1>3. \A i \in 1..Len(events') : Asked(i)' =>
        i \in 1..Len(events) /\ events'[i] = events[i] /\ Asked(i)
  BY Appended DEF Asked
<1>4. ASSUME NEW i \in 1..Len(events'), Asked(i)'
      PROVE  /\ socketState = "SOCKET_IN_PROGRESS" \/ orphan = "owed"
             /\ winc'[tcpClientSocket].status \in
                  IF events'[i].n >= 0 THEN {"up", "gone"} ELSE {"failed"}
             /\ \A j \in 1..Len(events') : Asked(j)' => j = i
  <2>1. i \in 1..Len(events) /\ events'[i] = events[i] /\ Asked(i)
    BY <1>3, <1>4
  <2>2. /\ socketState = "SOCKET_IN_PROGRESS" \/ orphan = "owed"
        /\ winc[tcpClientSocket].status \in
             IF events[i].n >= 0 THEN {"up", "gone"} ELSE {"failed"}
        /\ \A j \in 1..Len(events) : Asked(j) => j = i
    BY <2>1 DEF IInv, Opening
  <2>3. tcpClientSocket \in Socks /\ (s = tcpClientSocket <=> winc[s].conn = conn)
    BY Current
  <2>4. winc'[tcpClientSocket].status \in
           IF events'[i].n >= 0 THEN {"up", "gone"} ELSE {"failed"}
    BY <1>1, <2>1, <2>2, <2>3
  <2>5. QED
    BY <1>3, <2>2, <2>4
<1>5. ASSUME NEW u \in Socks, winc'[u].status = "opening", winc'[u].conn = conn
      PROVE  /\ socketState = "SOCKET_IN_PROGRESS" \/ orphan = "owed"
             /\ \A i \in 1..Len(events') : ~Asked(i)'
  <2>1. winc[u].status = "opening" /\ winc[u].conn = conn
    BY <1>1, <1>5
  <2>2. QED
    BY <1>3, <2>1 DEF IInv, Opening
<1>6. QED
  BY <1>2, <1>4, <1>5 DEF Opening

LEMMA QuietKept ==
  ASSUME IInv, NEW s \in Socks, NEW w \in WincStates, winc[s] # Unknown,
         winc' = [winc EXCEPT ![s] = w],
         UNCHANGED <<driverVars, adapterVars, conn, got, deaf>>,
         NEW e \in EventStates, e.conn = winc[s].conn,
         events' = events \/ events' = Append(events, e),
         s = tcpClientSocket /\ socketState \in {"SOCKET_CLOSED", "SOCKET_IN_PROGRESS"} =>
           /\ w.posted = 0 /\ w.sending = 0 /\ w.passed = 0
           /\ events' = events \/ e.op = "connect"
  PROVE  Quiet'
<1> SUFFICES ASSUME socketState \in {"SOCKET_CLOSED", "SOCKET_IN_PROGRESS"}
             PROVE  Quiet'
  BY DEF Quiet, adapterVars
<1> DEFINE t == tcpClientSocket
<1>1. t \in Socks /\ (s = t <=> winc[s].conn = conn)
  BY Current
<1>2. winc'[s] = w /\ \A u \in Socks : u # s => winc'[u] = winc[u]
  BY WincSet
<1>3. UNCHANGED <<sockets, tcpClientSocket, socketState, conn, got, deaf>>
  BY DEF driverVars, adapterVars
<1>4. /\ winc[t].posted = 0 /\ winc[t].sending = 0 /\ winc[t].passed = 0
      /\ ~sockets[t].bIsRecvPending /\ ~deaf /\ got = <<>>
      /\ \A i \in 1..Len(events) : events[i].conn = conn => events[i].op = "connect"
  BY DEF IInv, Quiet
<1>5. winc'[t].posted = 0 /\ winc'[t].sending = 0 /\ winc'[t].passed = 0
  BY <1>1, <1>2, <1>4
<1>6. ASSUME NEW i \in 1..Len(events'), events'[i].conn = conn
      PROVE  events'[i].op = "connect"
  <2>1. CASE events' = events
    BY <1>4, <1>6, <2>1
  <2>2. CASE events' = Append(events, e)
    <3>1. (i \in 1..Len(events) /\ events'[i] = events[i]) \/ (i = Len(events) + 1 /\ events'[i] = e)
      BY <2>2, Appended
    <3>2. CASE i \in 1..Len(events) /\ events'[i] = events[i]
      BY <1>4, <1>6, <3>2
    <3>3. CASE i = Len(events) + 1 /\ events'[i] = e
      <4>1. events' # events
        BY <2>2, Appended
      <4>2. QED
        BY <1>1, <1>6, <3>3, <4>1
    <3>4. QED
      BY <3>1, <3>2, <3>3
  <2>3. QED
    BY <2>1, <2>2
<1>7. QED
  BY <1>3, <1>4, <1>5, <1>6 DEF Quiet

\* No RECV of the present socket is answered.
LEMMA ServedKept ==
  ASSUME IInv, NEW s \in Socks, NEW w \in WincStates, winc[s] # Unknown,
         winc' = [winc EXCEPT ![s] = w],
         UNCHANGED <<driverVars, adapterVars, conn, got, deaf>>,
         NEW e \in EventStates, e.conn = winc[s].conn,
         events' = events \/ events' = Append(events, e),
         s = tcpClientSocket => /\ w.posted = winc[s].posted /\ w.passed = winc[s].passed
                                /\ events' = events \/ e.op # "recv"
  PROVE  Served'
<1> SUFFICES ASSUME Connected
             PROVE  Served'
  BY DEF Served, Connected, Phantom, adapterVars
<1> DEFINE t == tcpClientSocket
<1>1. t \in Socks /\ (s = t <=> winc[s].conn = conn)
  BY Current
<1>2. winc'[s] = w /\ \A u \in Socks : u # s => winc'[u] = winc[u]
  BY WincSet
<1>3. UNCHANGED <<sockets, tcpClientSocket, socketState, conn, got, deaf>>
  BY DEF driverVars, adapterVars
<1>4. winc'[t].posted = winc[t].posted /\ winc'[t].passed = winc[t].passed
  BY <1>1, <1>2
<1>5. /\ \A i \in 1..Len(events) : i \in 1..Len(events') /\ events'[i] = events[i]
      /\ \A i \in 1..Len(events') : Answers(i)' => i \in 1..Len(events)
  <2>1. CASE events' = events
    BY <2>1
  <2>2. CASE events' = Append(events, e)
    <3>1. Len(events) \in Nat /\ Len(events') = Len(events) + 1
      BY <2>2, Appended
    <3>2. \A i \in 1..Len(events) : events'[i] = events[i]
      BY <2>2, Appended
    <3>3. events'[Len(events) + 1] = e /\ events' # events
      BY <2>2, Appended
    <3>4. ~(e.op = "recv" /\ e.conn = conn)
      BY <1>1, <3>3
    <3>5. QED
      BY <1>3, <3>1, <3>2, <3>3, <3>4 DEF Answers
  <2>3. QED
    BY <2>1, <2>2
<1>6. \A i \in 1..Len(events) : Answers(i)' <=> Answers(i)
  BY <1>3, <1>5 DEF Answers
<1>7. Answered' <=> Answered
  BY <1>5, <1>6 DEF Answered
<1>8. /\ winc[t].posted \in {0, 1}
      /\ winc[t].posted = 1 => sockets[t].bIsRecvPending /\ ~Answered
      /\ \A i \in 1..Len(events) : Answers(i) =>
           /\ sockets[t].bIsRecvPending
           /\ \A j \in 1..Len(events) : Answers(j) => j = i
           /\ events[i].n > 0 =>
                events[i].first = Len(got) + 1 /\ winc[t].passed = Len(got) + events[i].n
           /\ events[i].n <= 0 => winc[t].passed = Len(got)
      /\ ~Answered => winc[t].passed = Len(got)
      /\ sockets[t].bIsRecvPending => sockets[t].buffer
      /\ deaf => sockets[t].bIsRecvPending /\ winc[t].posted = 0 /\ ~Answered
      /\ sockets[t].bIsRecvPending /\ ~deaf => winc[t].posted = 1 \/ Answered
  BY DEF IInv, Served
<1>9. QED
  BY <1>3, <1>4, <1>5, <1>6, <1>7, <1>8 DEF Served

LEMMA EventTyped ==
  ASSUME IInv, NEW s \in Socks, NEW op \in {"connect", "send", "recv"}, NEW n \in -1..MaxData
  PROVE  /\ Event(op, s, n) \in EventStates /\ Event(op, s, n).op = op
         /\ Event(op, s, n).sock = s /\ Event(op, s, n).n = n
         /\ Event(op, s, n).session = winc[s].session /\ Event(op, s, n).conn = winc[s].conn
         /\ Event(op, s, n).first = winc[s].passed + 1
<1>1. winc[s] \in WincStates
  BY Typed
<1>2. /\ winc[s].session \in 0..(SessionRange - 1) /\ winc[s].passed + 1 \in 1..(MaxData + 1)
      /\ winc[s].conn \in 0..MaxSockets
  BY <1>1, Constants DEF WincStates
<1>3. QED
  BY <1>2 DEF Event, EventStates

LEMMA AnswerSendStep == ASSUME IInv, NEW s \in Socks, AnswerSend(s) PROVE IInv'
<1> DEFINE w == [winc[s] EXCEPT !.sending = @ - 1]
           e == Event("send", s, 0)
<1>1. winc[s] \in WincStates /\ winc[s].sending > 0
  BY Typed DEF AnswerSend
<1>2. /\ w \in WincStates /\ w.session = winc[s].session /\ w.conn = winc[s].conn
      /\ w.status = winc[s].status /\ w.posted = winc[s].posted /\ w.passed = winc[s].passed
  BY <1>1 DEF WincStates
<1>3. /\ winc' = [winc EXCEPT ![s] = w] /\ events' = Append(events, e)
      /\ UNCHANGED <<driverVars, adapterVars, conn, got, deaf, refusals>>
  BY DEF AnswerSend, Tell, history
<1>4. /\ e \in EventStates /\ e.op = "send" /\ e.sock = s /\ e.session = winc[s].session
      /\ e.conn = winc[s].conn
  BY EventTyped, Constants
<1>5. winc[s] # Unknown
  BY <1>1 DEF Unknown
<1>6. ~(s = tcpClientSocket /\ socketState \in {"SOCKET_CLOSED", "SOCKET_IN_PROGRESS"})
  BY <1>1 DEF IInv, Quiet
<1> HIDE DEF w, e
<1>p. w.posted <= winc[s].posted
  BY <1>1, <1>2 DEF WincStates
<1>7. /\ Types' /\ SocketOwned' /\ Turns' /\ WincRecent' /\ EventsRecent' /\ Orphaned' /\ Known'
      /\ ~spare'
  BY <1>1, <1>2, <1>3, <1>4, <1>5, <1>p, ModuleStep
<1>8. Opening'
  BY <1>2, <1>3, <1>4, <1>5, OpeningKept
<1>9. Quiet'
  BY <1>2, <1>3, <1>4, <1>5, <1>6, QuietKept
<1>10. Served'
  BY <1>2, <1>3, <1>4, <1>5, ServedKept
<1>11. QED
  BY <1>7, <1>8, <1>9, <1>10 DEF IInv

LEMMA ConnectionLostStep == ASSUME IInv, NEW s \in Socks, ConnectionLost(s) PROVE IInv'
<1> DEFINE w == [winc[s] EXCEPT !.status = "gone"]
           e == Event("send", s, 0)
<1>1. winc[s] \in WincStates /\ winc[s].status = "up"
  BY Typed DEF ConnectionLost
<1>2. /\ w \in WincStates /\ w.session = winc[s].session /\ w.conn = winc[s].conn
      /\ w.status = "gone" /\ w.posted = winc[s].posted /\ w.passed = winc[s].passed
      /\ w.sending = winc[s].sending
  BY <1>1 DEF WincStates
<1>3. /\ winc' = [winc EXCEPT ![s] = w] /\ events' = events
      /\ UNCHANGED <<driverVars, adapterVars, conn, got, deaf, refusals>>
  BY DEF ConnectionLost, history
<1>4. /\ e \in EventStates /\ e.op = "send" /\ e.sock = s /\ e.session = winc[s].session
      /\ e.conn = winc[s].conn
  BY EventTyped, Constants
<1>5. winc[s] # Unknown
  BY <1>1 DEF Unknown
<1>6. s = tcpClientSocket /\ socketState \in {"SOCKET_CLOSED", "SOCKET_IN_PROGRESS"} =>
        w.posted = 0 /\ w.sending = 0 /\ w.passed = 0
  BY <1>2 DEF IInv, Quiet
<1> HIDE DEF w, e
<1>p. w.posted <= winc[s].posted
  BY <1>1, <1>2 DEF WincStates
<1>7. /\ Types' /\ SocketOwned' /\ Turns' /\ WincRecent' /\ EventsRecent' /\ Orphaned' /\ Known'
      /\ ~spare'
  BY <1>1, <1>2, <1>3, <1>4, <1>5, <1>p, ModuleStep
<1>8. Opening'
  BY <1>1, <1>2, <1>3, <1>4, <1>5, OpeningKept
<1>9. Quiet'
  BY <1>2, <1>3, <1>4, <1>5, <1>6, QuietKept
<1>10. Served'
  BY <1>2, <1>3, <1>4, <1>5, ServedKept
<1>11. QED
  BY <1>7, <1>8, <1>9, <1>10 DEF IInv

\* A RECV is answered, with n items or (n < 0) with the end of the connection.
LEMMA RecvAnswered ==
  ASSUME IInv, NEW s \in Socks, NEW w \in WincStates, NEW n \in -1..MaxData, n # 0,
         winc[s].posted > 0, winc' = [winc EXCEPT ![s] = w],
         w.session = winc[s].session, w.conn = winc[s].conn, w.status = winc[s].status,
         w.sending = winc[s].sending, w.posted = winc[s].posted - 1,
         w.passed = IF n > 0 THEN winc[s].passed + n ELSE winc[s].passed,
         events' = Append(events, Event("recv", s, n)),
         UNCHANGED <<driverVars, adapterVars, conn, got, deaf, refusals>>
  PROVE  IInv'
<1> DEFINE e == Event("recv", s, n)
           t == tcpClientSocket
<1>1. /\ e \in EventStates /\ e.op = "recv" /\ e.sock = s /\ e.session = winc[s].session
      /\ e.conn = winc[s].conn /\ e.n = n /\ e.first = winc[s].passed + 1
  BY EventTyped
<1> HIDE DEF e
<1>2. winc[s] # Unknown
  BY DEF Unknown
<1>3. ~(s = t /\ socketState \in {"SOCKET_CLOSED", "SOCKET_IN_PROGRESS"})
  BY DEF IInv, Quiet
<1>e. events' = Append(events, e)
  BY DEF e
<1>p. winc[s].posted \in Nat /\ w.posted <= winc[s].posted
  BY Typed DEF WincStates
<1>4. /\ Types' /\ SocketOwned' /\ Turns' /\ WincRecent' /\ EventsRecent' /\ Orphaned' /\ Known'
      /\ ~spare'
  BY <1>1, <1>2, <1>e, <1>p, ModuleStep
<1>5. Opening'
  BY <1>1, <1>2, <1>e, OpeningKept
<1>6. Quiet'
  BY <1>1, <1>2, <1>3, <1>e, QuietKept
<1>7. Served'
  <2>1. CASE s # t
    BY <1>1, <1>2, <1>e, <2>1, ServedKept
  <2>2. CASE s = t /\ ~Connected
    BY <2>2 DEF Served, Connected, Phantom, adapterVars
  <2>3. CASE s = t /\ Connected
    <3>1. /\ t \in Socks /\ winc[t].conn = conn
      BY <1>2, <2>3, Current
    <3>2. winc'[t] = w
      BY <2>3, WincSet
    <3>3. UNCHANGED <<sockets, tcpClientSocket, socketState, conn, got, deaf>>
      BY DEF driverVars, adapterVars
    <3>4. winc[t].posted = 1 /\ sockets[t].bIsRecvPending /\ ~Answered /\ ~deaf
          /\ winc[t].passed = Len(got) /\ sockets[t].buffer
      BY <2>3 DEF IInv, Served
    <3>5. /\ Len(events) \in Nat /\ Len(events') = Len(events) + 1
          /\ \A i \in 1..Len(events) : events'[i] = events[i]
          /\ events'[Len(events) + 1] = e
      BY <1>1, <1>e, Appended
    <3>6. \A i \in 1..Len(events') : Answers(i)' <=> i = Len(events) + 1
      <4>1. \A i \in 1..Len(events) : ~Answers(i)
        BY <3>4 DEF Answered
      <4>2. \A i \in 1..Len(events) : ~Answers(i)'
        BY <3>3, <3>5, <4>1 DEF Answers
      <4>3. \A i \in 1..Len(events') : i = Len(events) + 1 => Answers(i)'
        BY <1>1, <2>3, <3>1, <3>3, <3>5 DEF Answers
      <4>4. QED
        BY <3>5, <4>2, <4>3
    <3>7. Answered'
      BY <3>5, <3>6 DEF Answered
    <3>8. Len(got) \in Nat
      BY Typed, LenProperties
    <3>9. w.posted = 0
      BY <2>3, <3>4
    <3>10. /\ n > 0 => e.first = Len(got) + 1 /\ w.passed = Len(got) + n
           /\ n <= 0 => w.passed = Len(got)
      BY <1>1, <2>3, <3>4, <3>8
    <3>11. QED
      BY <1>1, <3>2, <3>3, <3>4, <3>5, <3>6, <3>7, <3>9, <3>10 DEF Served
  <2>4. QED
    BY <2>1, <2>2, <2>3
<1>8. QED
  BY <1>4, <1>5, <1>6, <1>7 DEF IInv

LEMMA AnswerGoneStep == ASSUME IInv, NEW s \in Socks, AnswerGone(s) PROVE IInv'
<1> DEFINE w == [winc[s] EXCEPT !.posted = @ - 1]
<1>1. winc[s] \in WincStates /\ winc[s].posted > 0
  BY Typed DEF AnswerGone
<1>2. /\ w \in WincStates /\ w.session = winc[s].session /\ w.conn = winc[s].conn
      /\ w.status = winc[s].status /\ w.posted = winc[s].posted - 1
      /\ w.sending = winc[s].sending /\ w.passed = winc[s].passed
  BY <1>1 DEF WincStates
<1>3. /\ winc' = [winc EXCEPT ![s] = w] /\ events' = Append(events, Event("recv", s, -1))
      /\ UNCHANGED <<driverVars, adapterVars, conn, got, deaf, refusals>>
  BY DEF AnswerGone, Tell, history
<1>4. /\ -1 \in -1..MaxData /\ -1 # 0
      /\ w.passed = IF -1 > 0 THEN winc[s].passed + -1 ELSE winc[s].passed
  BY <1>2, Constants
<1> HIDE DEF w
<1>5. QED
  BY <1>1, <1>2, <1>3, <1>4, RecvAnswered

LEMMA PassDataStep == ASSUME IInv, NEW s \in Socks, PassData(s) PROVE IInv'
<1>1. winc[s] \in WincStates /\ winc[s].posted > 0 /\ winc \in [Socks -> WincStates]
  BY Typed DEF PassData
<1>2. PICK n \in 1..(MaxData - winc[s].passed) :
        /\ winc' = [winc EXCEPT ![s].posted = @ - 1, ![s].passed = @ + n]
        /\ events' = Append(events, Event("recv", s, n))
  BY DEF PassData, Tell
<1> DEFINE w == [winc[s] EXCEPT !.posted = @ - 1, !.passed = @ + n]
<1>3. winc[s].passed \in 0..MaxData /\ n \in -1..MaxData /\ n > 0
      /\ winc[s].passed + n \in 0..MaxData
  BY <1>1, Constants DEF WincStates
<1>4. /\ w \in WincStates /\ w.session = winc[s].session /\ w.conn = winc[s].conn
      /\ w.status = winc[s].status /\ w.posted = winc[s].posted - 1
      /\ w.sending = winc[s].sending /\ w.passed = winc[s].passed + n
  <2>1. winc[s].posted - 1 \in Nat
    BY <1>1 DEF WincStates
  <2>2. /\ w.session = winc[s].session /\ w.conn = winc[s].conn
        /\ w.status = winc[s].status /\ w.posted = winc[s].posted - 1
        /\ w.sending = winc[s].sending /\ w.passed = winc[s].passed + n
    BY <1>1 DEF WincStates
  <2>3. w \in WincStates
    BY <1>1, <1>3, <2>1, TwoFields
  <2>4. QED
    BY <2>2, <2>3
<1>5. winc' = [winc EXCEPT ![s] = w]
  BY <1>1, <1>2
<1>6. UNCHANGED <<driverVars, adapterVars, conn, got, deaf, refusals>>
  BY DEF PassData, history
<1>7. n # 0 /\ w.passed = IF n > 0 THEN winc[s].passed + n ELSE winc[s].passed
  BY <1>3, <1>4
<1> HIDE DEF w
<1>8. QED
  BY <1>1, <1>2, <1>3, <1>4, <1>5, <1>6, <1>7, RecvAnswered

LEMMA AnswerConnectStep == ASSUME IInv, NEW s \in Socks, AnswerConnect(s) PROVE IInv'
<1>1. PICK status \in {"up", "failed"}, n \in {0, -1} :
        /\ n = 0 <=> status = "up"
        /\ winc' = [winc EXCEPT ![s].status = status]
        /\ events' = Append(events, Event("connect", s, n))
  BY DEF AnswerConnect, Tell
<1> DEFINE w == [winc[s] EXCEPT !.status = status]
           e == Event("connect", s, n)
<1>2. winc[s] \in WincStates /\ winc[s].status = "opening"
  BY Typed DEF AnswerConnect
<1>3. /\ w \in WincStates /\ w.session = winc[s].session /\ w.conn = winc[s].conn
      /\ w.status = status /\ w.posted = winc[s].posted /\ w.passed = winc[s].passed
      /\ w.sending = winc[s].sending
  BY <1>2 DEF WincStates
<1>4. /\ winc' = [winc EXCEPT ![s] = w] /\ events' = Append(events, e)
      /\ UNCHANGED <<driverVars, adapterVars, conn, got, deaf, refusals>>
  BY <1>1 DEF AnswerConnect, history
<1>5. /\ e \in EventStates /\ e.op = "connect" /\ e.sock = s /\ e.session = winc[s].session
      /\ e.conn = winc[s].conn /\ e.n = n
  <2>1. n \in -1..MaxData
    BY Constants
  <2>2. QED
    BY <2>1, EventTyped
<1>6. winc[s] # Unknown
  BY <1>2 DEF Unknown
<1> HIDE DEF w, e
<1>p. w.posted <= winc[s].posted
  BY <1>2, <1>3 DEF WincStates
<1>7. /\ Types' /\ SocketOwned' /\ Turns' /\ WincRecent' /\ EventsRecent' /\ Orphaned' /\ Known'
      /\ ~spare'
  BY <1>2, <1>3, <1>4, <1>5, <1>6, <1>p, ModuleStep
<1>8. Opening'
  <2>1. CASE winc[s].conn # conn
    BY <1>3, <1>4, <1>5, <1>6, <2>1, OpeningKept
  <2>2. CASE winc[s].conn = conn
    <3>1. /\ socketState = "SOCKET_IN_PROGRESS" \/ orphan = "owed"
          /\ \A i \in 1..Len(events) : ~Asked(i)
      BY <1>2, <2>2 DEF IInv, Opening
    <3>2. winc'[s] = w /\ \A u \in Socks : u # s => winc'[u] = winc[u]
      BY <1>3, <1>4, WincSet
    <3>3. UNCHANGED <<tcpClientSocket, socketState, orphan, conn>>
      BY <1>4 DEF adapterVars
    <3>4. s = tcpClientSocket
      BY <1>6, <2>2, Current
    <3>5. \A i \in 1..Len(events') : Asked(i)' => i = Len(events) + 1 /\ events'[i] = e
      BY <1>4, <1>5, <3>1, <3>3, Appended DEF Asked
    <3>6. ASSUME NEW u \in Socks PROVE ~(winc'[u].status = "opening" /\ winc'[u].conn = conn)
      <4>1. CASE u = s
        BY <1>1, <1>3, <3>2, <4>1
      <4>2. CASE u # s
        <5>1. winc[u] # Unknown => winc[u].conn # conn
          BY <3>4, <4>2, Current
        <5>2. QED
          BY <3>2, <4>2, <5>1 DEF Unknown
      <4>3. QED
        BY <4>1, <4>2
    <3>7. w.status \in IF e.n >= 0 THEN {"up", "gone"} ELSE {"failed"}
      BY <1>1, <1>3, <1>5
    <3>8. QED
      BY <3>1, <3>2, <3>3, <3>4, <3>5, <3>6, <3>7 DEF Opening
  <2>3. QED
    BY <2>1, <2>2
<1>9. Quiet'
  <2>1. s = tcpClientSocket /\ socketState \in {"SOCKET_CLOSED", "SOCKET_IN_PROGRESS"} =>
          w.posted = 0 /\ w.sending = 0 /\ w.passed = 0
    BY <1>3 DEF IInv, Quiet
  <2>2. QED
    BY <1>3, <1>4, <1>5, <1>6, <2>1, QuietKept
<1>10. Served'
  BY <1>3, <1>4, <1>5, <1>6, ServedKept
<1>11. QED
  BY <1>7, <1>8, <1>9, <1>10 DEF IInv

-----------------------------------------------------------------------------
(* Handling the oldest event.                                                *)

LEMMA HeadTyped ==
  ASSUME IInv, events # <<>>
  PROVE  /\ Len(events) \in Nat /\ Head(events) = events[1] /\ events[1] \in EventStates
         /\ 1 \in 1..Len(events)
<1>1. events \in Seq(EventStates)
  BY Typed
<1>2. Len(events) \in Nat /\ Len(events) > 0
  BY <1>1, LenProperties, EmptySeq
<1>3. events[1] \in EventStates
  BY <1>1, <1>2, ElementOfSeq
<1>4. Head(events) = events[1]
  BY <1>1, HeadTailProperties
<1>5. QED
  BY <1>2, <1>3, <1>4

LEMMA Tailed ==
  ASSUME IInv, events # <<>>, events' = Tail(events)
  PROVE  /\ Len(events) \in Nat /\ events' \in Seq(EventStates) /\ Len(events') = Len(events) - 1
         /\ Head(events) = events[1] /\ events[1] \in EventStates /\ 1 \in 1..Len(events)
         /\ \A i \in 1..Len(events') : i + 1 \in 1..Len(events) /\ events'[i] = events[i + 1]
         /\ \A i \in 1..Len(events) : i # 1 =>
              i - 1 \in 1..Len(events') /\ events'[i - 1] = events[i]
<1>1. events \in Seq(EventStates)
  BY Typed
<1>2. Len(events) \in Nat /\ Len(events) > 0
  BY <1>1, LenProperties, EmptySeq
<1>3. events[1] \in EventStates
  BY <1>1, <1>2, ElementOfSeq
<1>4. /\ Head(events) = events[1] /\ events' \in Seq(EventStates) /\ Len(events') = Len(events) - 1
      /\ \A i \in 1..Len(events') : events'[i] = events[i + 1]
  BY <1>1, <1>2, HeadTailProperties
<1>5. QED
  BY <1>2, <1>3, <1>4

\* The event is about another socket than the present one, or nothing comes of it.
LEMMA DropStep ==
  ASSUME IInv, events # <<>>, events' = Tail(events), ~Asked(1),
         Connected => ~Answers(1),
         UNCHANGED <<driverVars, adapterVars, winc, conn, got, deaf, refusals>>
  PROVE  IInv'
<1>1. /\ Len(events) \in Nat /\ events' \in Seq(EventStates) /\ Len(events') = Len(events) - 1
      /\ \A i \in 1..Len(events') : i + 1 \in 1..Len(events) /\ events'[i] = events[i + 1]
      /\ \A i \in 1..Len(events) : i # 1 => i - 1 \in 1..Len(events') /\ events'[i - 1] = events[i]
  BY Tailed
<1>2. UNCHANGED <<sockets, nextTcpSock, sessionId, tcpClientSocket, socketState, orphan, spare>>
  BY DEF driverVars, adapterVars
<1>3. Types' /\ SocketOwned' /\ Turns' /\ WincRecent' /\ ~spare'
  BY <1>1, <1>2 DEF IInv, Types, SocketOwned, Phantom, Turns, WincRecent, Recent, SlotAgo
<1>4. EventsRecent'
  BY <1>1, <1>2 DEF IInv, EventsRecent, Recent, SlotAgo
<1>5. Opening'
  <2>0. \A i \in 1..Len(events') : Asked(i)' <=> Asked(i + 1)
    BY <1>1 DEF Asked
  <2>1. ASSUME NEW i \in 1..Len(events'), Asked(i)'
        PROVE  /\ socketState = "SOCKET_IN_PROGRESS" \/ orphan = "owed"
               /\ winc[tcpClientSocket].status \in
                    IF events'[i].n >= 0 THEN {"up", "gone"} ELSE {"failed"}
               /\ \A j \in 1..Len(events') : Asked(j)' => j = i
    <3>1. i + 1 \in 1..Len(events) /\ events'[i] = events[i + 1] /\ Asked(i + 1)
      BY <1>1, <2>0, <2>1
    <3>2. /\ socketState = "SOCKET_IN_PROGRESS" \/ orphan = "owed"
          /\ winc[tcpClientSocket].status \in
               IF events[i + 1].n >= 0 THEN {"up", "gone"} ELSE {"failed"}
          /\ \A j \in 1..Len(events) : Asked(j) => j = i + 1
      BY <3>1 DEF IInv, Opening
    <3>3. \A j \in 1..Len(events') : Asked(j)' => j = i
      BY <1>1, <2>0, <3>2
    <3>4. QED
      BY <3>1, <3>2, <3>3
  <2>2. ASSUME NEW s \in Socks, winc[s].status = "opening", winc[s].conn = conn
        PROVE  /\ socketState = "SOCKET_IN_PROGRESS" \/ orphan = "owed"
               /\ \A i \in 1..Len(events') : ~Asked(i)'
    BY <1>1, <2>0, <2>2 DEF IInv, Opening
  <2>3. QED
    BY <1>2, <2>1, <2>2 DEF Opening
<1>6. Orphaned' /\ Known' /\ Quiet'
  BY <1>1, <1>2 DEF IInv, Orphaned, Connected, Phantom, Known, Quiet
<1>7. Served'
  <2> SUFFICES ASSUME Connected PROVE Served'
    BY <1>2 DEF Served, Connected, Phantom
  <2> DEFINE t == tcpClientSocket
  <2>1. \A i \in 1..Len(events') : Answers(i)' <=> Answers(i + 1)
    BY <1>1 DEF Answers
  <2>2. Answered' <=> Answered
    <3>1. Answered' => Answered
      BY <1>1, <2>1 DEF Answered
    <3>2. ASSUME NEW i \in 1..Len(events), Answers(i) PROVE Answered'
      <4>1. i # 1 /\ i - 1 \in 1..Len(events') /\ (i - 1) + 1 = i
        BY <1>1, <3>2
      <4>2. PICK k \in 1..Len(events') : k + 1 = i
        BY <4>1
      <4>3. Answers(k)'
        BY <2>1, <3>2, <4>2
      <4>4. QED
        BY <4>3 DEF Answered
    <3>3. QED
      BY <3>1, <3>2 DEF Answered
  <2>3. /\ winc[t].posted \in {0, 1}
        /\ winc[t].posted = 1 => sockets[t].bIsRecvPending /\ ~Answered
        /\ \A i \in 1..Len(events) : Answers(i) =>
             /\ sockets[t].bIsRecvPending
             /\ \A j \in 1..Len(events) : Answers(j) => j = i
             /\ events[i].n > 0 =>
                  events[i].first = Len(got) + 1 /\ winc[t].passed = Len(got) + events[i].n
             /\ events[i].n <= 0 => winc[t].passed = Len(got)
        /\ ~Answered => winc[t].passed = Len(got)
        /\ sockets[t].bIsRecvPending => sockets[t].buffer
        /\ deaf => sockets[t].bIsRecvPending /\ winc[t].posted = 0 /\ ~Answered
        /\ sockets[t].bIsRecvPending /\ ~deaf => winc[t].posted = 1 \/ Answered
    BY DEF IInv, Served
  <2>4. \A i \in 1..Len(events') : Answers(i)' =>
             /\ sockets[t].bIsRecvPending
             /\ \A j \in 1..Len(events') : Answers(j)' => j = i
             /\ events'[i].n > 0 =>
                  events'[i].first = Len(got) + 1 /\ winc[t].passed = Len(got) + events'[i].n
             /\ events'[i].n <= 0 => winc[t].passed = Len(got)
    BY <1>1, <2>1, <2>3
  <2>5. QED
    BY <1>2, <2>2, <2>3, <2>4 DEF Served
<1>8. QED
  BY <1>3, <1>4, <1>5, <1>6, <1>7 DEF IInv

\* The answer the socket has been waiting for: it is connected.
LEMMA ConnectedStep ==
  ASSUME IInv, events # <<>>, events' = Tail(events), Asked(1), events[1].n >= 0,
         socketState = "SOCKET_IN_PROGRESS", socketState' = "SOCKET_CONNECTED",
         UNCHANGED <<driverVars, tcpClientSocket, orphan, spare, winc, conn, got, deaf, refusals>>
  PROVE  IInv'
<1> DEFINE t == tcpClientSocket
<1>1. /\ Len(events) \in Nat /\ events' \in Seq(EventStates) /\ 1 \in 1..Len(events)
      /\ \A i \in 1..Len(events') : i + 1 \in 1..Len(events) /\ i + 1 # 1 /\ events'[i] = events[i + 1]
  BY Tailed
<1>2. UNCHANGED <<sockets, nextTcpSock, sessionId>>
  BY DEF driverVars
<1>3. /\ orphan = "none" /\ winc[t].status \in {"up", "gone"}
      /\ \A i \in 1..Len(events') : ~Asked(i)'
      /\ \A s \in Socks : ~(winc[s].status = "opening" /\ winc[s].conn = conn)
  BY <1>1 DEF IInv, Types, Opening, Orphaned, Asked
<1>4. Types' /\ Turns' /\ WincRecent' /\ ~spare'
  BY <1>1, <1>2 DEF IInv, Types, Turns, WincRecent, Recent, SlotAgo, SocketStates
<1>5. SocketOwned'
  BY <1>2, <1>3 DEF IInv, SocketOwned, Phantom
<1>6. EventsRecent'
  BY <1>1 DEF IInv, EventsRecent, Recent, SlotAgo
<1>7. Opening' /\ Orphaned' /\ Quiet'
  BY <1>3 DEF Opening, Orphaned, Quiet
<1>8. Known'
  BY <1>1, <1>2, <1>3 DEF IInv, Known
<1>9. Served'
  <2>1. /\ winc[t].posted = 0 /\ winc[t].passed = 0 /\ ~sockets[t].bIsRecvPending /\ ~deaf
        /\ got = <<>> /\ \A i \in 1..Len(events) : events[i].conn = conn => events[i].op = "connect"
    BY <1>3 DEF IInv, Quiet
  <2>2. \A i \in 1..Len(events') : ~Answers(i)'
    BY <1>1, <2>1 DEF Answers
  <2>3. ~Answered'
    BY <2>2 DEF Answered
  <2>4. Len(got) = 0
    BY <2>1, EmptySeq
  <2>5. QED
    BY <1>2, <2>1, <2>2, <2>3, <2>4 DEF Served
<1>10. QED
  BY <1>4, <1>5, <1>6, <1>7, <1>8, <1>9 DEF IInv

\* The reply of a socket that was forgotten: the entry is connected, the slot unused.
LEMMA PhantomStep ==
  ASSUME IInv, events # <<>>, events' = Tail(events), Asked(1), orphan = "owed",
         orphan' = "taken", socketState' = "SOCKET_CONNECTED",
         UNCHANGED <<driverVars, tcpClientSocket, spare, winc, conn, got, deaf, refusals>>
  PROVE  IInv'
<1>1. /\ Len(events) \in Nat /\ events' \in Seq(EventStates) /\ 1 \in 1..Len(events)
      /\ \A i \in 1..Len(events') : i + 1 \in 1..Len(events) /\ i + 1 # 1 /\ events'[i] = events[i + 1]
  BY Tailed
<1>2. UNCHANGED <<sockets, nextTcpSock, sessionId>>
  BY DEF driverVars
<1>3. /\ \A i \in 1..Len(events') : ~Asked(i)'
      /\ \A s \in Socks : ~(winc[s].status = "opening" /\ winc[s].conn = conn)
  BY <1>1 DEF IInv, Opening, Asked
<1>4. Types' /\ Turns' /\ WincRecent' /\ ~spare'
  BY <1>1, <1>2 DEF IInv, Types, Turns, WincRecent, Recent, SlotAgo, SocketStates
<1>5. SocketOwned'
  <2>1. \A s \in Socks : ~sockets[s].bIsUsed
    BY NotInUse DEF IInv, Orphaned, Cleared
  <2>2. QED
    BY <1>2, <2>1 DEF SocketOwned, Phantom
<1>6. EventsRecent'
  BY <1>1 DEF IInv, EventsRecent, Recent, SlotAgo
<1>7. Opening' /\ Orphaned'
  BY <1>3 DEF IInv, Opening, Orphaned
<1>8. Known' /\ Quiet' /\ Served'
  BY DEF Known, Quiet, Served, Connected, Phantom
<1>9. QED
  BY <1>4, <1>5, <1>6, <1>7, <1>8 DEF IInv

LEMMA Joined ==
  ASSUME NEW a \in Seq(Int \X Int), NEW b \in Seq(Int \X Int)
  PROVE  a \o b \in Seq(Int \X Int) /\ Len(a \o b) = Len(a) + Len(b)
<1> DEFINE S == Int \X Int
<1>1. a \in Seq(S) /\ b \in Seq(S)
  OBVIOUS
<1> HIDE DEF S
<1>2. a \o b \in Seq(S) /\ Len(a \o b) = Len(a) + Len(b)
  BY <1>1, ConcatProperties
<1>3. QED
  BY <1>2 DEF S

LEMMA ItemsTyped ==
  ASSUME NEW e \in EventStates, e.n > 0
  PROVE  Items(e) \in Seq(Int \X Int) /\ Len(Items(e)) = e.n
<1>1. e.n \in Nat /\ e.conn \in Int /\ e.first \in Int
  BY Constants DEF EventStates
<1>2. \A i \in 1..e.n : <<e.conn, e.first + i - 1>> \in Int \X Int
  BY <1>1
<1>3. Items(e) \in [1..e.n -> Int \X Int]
  BY <1>2 DEF Items
<1>4. QED
  BY <1>1, <1>3, SeqDef, LenProperties

\* The slot of the engine's socket without a pending RECV.
LEMMA ReadSlot ==
  ASSUME IInv, NEW s \in Socks, sockets[s].bIsUsed,
         sockets' = [sockets EXCEPT ![s].bIsRecvPending = FALSE]
  PROVE  /\ sockets' \in [Socks -> SlotStates] /\ sockets'[s].bIsUsed
         /\ sockets'[s].session = sockets[s].session /\ ~sockets'[s].bIsRecvPending
         /\ \A u \in Socks : u # s => sockets'[u] = sockets[u]
<1>1. sockets[s] \in [bIsUsed : {TRUE}, session : 1..(SessionRange - 1),
                      bIsRecvPending : BOOLEAN, buffer : BOOLEAN]
  BY UsedSlot DEF IInv
<1> DEFINE r == [sockets[s] EXCEPT !.bIsRecvPending = FALSE]
<1>2. /\ r \in [bIsUsed : {TRUE}, session : 1..(SessionRange - 1),
                bIsRecvPending : BOOLEAN, buffer : BOOLEAN]
      /\ r.bIsUsed /\ r.session = sockets[s].session /\ ~r.bIsRecvPending
  BY <1>1
<1>3. sockets' = [sockets EXCEPT ![s] = r] /\ r \in SlotStates
  BY <1>2 DEF SlotStates
<1> HIDE DEF r
<1>4. QED
  BY <1>2, <1>3, Typed

\* Data for the engine.
LEMMA GotStep ==
  ASSUME IInv, events # <<>>, events' = Tail(events), Answers(1), events[1].n > 0,
         events[1].sock = tcpClientSocket, Connected,
         sockets' = [sockets EXCEPT ![events[1].sock].bIsRecvPending = FALSE],
         got' = got \o Items(events[1]),
         UNCHANGED <<nextTcpSock, sessionId, adapterVars, winc, conn, deaf, refusals>>
  PROVE  IInv'
<1> DEFINE t == tcpClientSocket
           e == events[1]
<1>1. /\ Len(events) \in Nat /\ events' \in Seq(EventStates) /\ 1 \in 1..Len(events)
      /\ e \in EventStates
      /\ \A i \in 1..Len(events') : i + 1 \in 1..Len(events) /\ i + 1 # 1 /\ events'[i] = events[i + 1]
  BY Tailed
<1>2. t \in Socks /\ sockets[t].bIsUsed
  BY InUse DEF Connected
<1>3. /\ sockets' \in [Socks -> SlotStates] /\ sockets'[t].bIsUsed
      /\ sockets'[t].session = sockets[t].session /\ ~sockets'[t].bIsRecvPending
      /\ \A u \in Socks : u # t => sockets'[u] = sockets[u]
  BY <1>2, ReadSlot
<1>4. Items(e) \in Seq(Int \X Int) /\ Len(Items(e)) = e.n
  BY <1>1, ItemsTyped
<1>5. got' \in Seq(Int \X Int) /\ Len(got') = Len(got) + e.n
  <2>1. got \in Seq(Int \X Int) /\ got' = got \o Items(e)
    BY Typed
  <2> HIDE DEF e
  <2>2. QED
    BY <1>4, <2>1, Joined
<1>6. /\ UNCHANGED <<tcpClientSocket, socketState, orphan, spare>>
      /\ socketState = "SOCKET_CONNECTED" /\ orphan = "none"
  BY DEF adapterVars, Connected, Phantom, IInv, Types, Orphaned
<1>7. Types' /\ Turns' /\ WincRecent' /\ ~spare'
  BY <1>1, <1>3, <1>5, <1>6 DEF IInv, Types, Turns, WincRecent, Recent, SlotAgo
<1>8. SocketOwned'
  BY <1>2, <1>3, <1>6 DEF IInv, SocketOwned, Phantom
<1>9. EventsRecent'
  BY <1>1, <1>6 DEF IInv, EventsRecent, Recent, SlotAgo
<1>10. Opening'
  BY <1>1, <1>6, NotOpening DEF Opening, Asked
<1>11. Known'
  BY <1>1, <1>3, <1>6 DEF IInv, Known
<1>12. Orphaned' /\ Quiet'
  BY <1>6 DEF Orphaned, Quiet
<1>13. Served'
  <2>1. Answered
    BY <1>1 DEF Answered
  <2>2. /\ winc[t].posted = 0 /\ ~deaf /\ winc[t].passed = Len(got) + e.n
        /\ \A j \in 1..Len(events) : Answers(j) => j = 1
    BY <1>1, <2>1 DEF IInv, Served
  <2>3. \A i \in 1..Len(events') : Answers(i)' <=> Answers(i + 1)
    BY <1>1 DEF Answers
  <2>4. \A i \in 1..Len(events') : ~Answers(i)'
    BY <1>1, <2>2, <2>3
  <2>5. ~Answered'
    BY <2>4 DEF Answered
  <2>6. QED
    BY <1>3, <1>5, <1>6, <2>2, <2>4, <2>5 DEF Served
<1>14. QED
  BY <1>7, <1>8, <1>9, <1>10, <1>11, <1>12, <1>13 DEF IInv

\* An event of the present session is about the present socket, which is connected.
LEMMA SessionMatches ==
  ASSUME IInv, events # <<>>, events[1].op # "connect",
         events[1].session = sockets[events[1].sock].session
  PROVE  events[1].sock = tcpClientSocket /\ events[1].conn = conn /\ Connected
<1>1. events[1] \in EventStates /\ 1 \in 1..Len(events)
  BY HeadTyped
<1>2. /\ Recent(events[1].conn, events[1].sock) /\ events[1].session # 0
      /\ events[1].sock \in Socks /\ events[1].conn \in Nat
  BY <1>1, Constants DEF IInv, EventsRecent, EventStates
<1>3. sockets[events[1].sock] # Cleared
  BY <1>2 DEF Cleared
<1>4. socketState # "NOT_A_SOCKET" /\ ~Phantom /\ events[1].sock = tcpClientSocket
  BY <1>2, <1>3, NotInUse
<1>5. events[1].conn = conn
  BY <1>2, <1>4, RecentCurrent
<1>6. socketState \in SocketStates
  BY DEF IInv, Types
<1>7. QED
  BY <1>1, <1>4, <1>5, <1>6 DEF IInv, Quiet, SocketStates, Connected

\* If it is of another session, it is about a slot that is not in use.
LEMMA SessionDiffers ==
  ASSUME IInv, events # <<>>, events[1].op # "connect",
         events[1].session # sockets[events[1].sock].session
  PROVE  /\ [sockets EXCEPT ![events[1].sock].bIsRecvPending = FALSE] = sockets
         /\ Connected => ~Answers(1)
<1> DEFINE s == events[1].sock
<1>1. events[1] \in EventStates /\ 1 \in 1..Len(events)
  BY HeadTyped
<1>2. Recent(events[1].conn, s) /\ s \in Socks /\ events[1].conn \in Nat
  BY <1>1, Constants DEF IInv, EventsRecent, EventStates
<1>3. s = tcpClientSocket <=> events[1].conn = conn
  BY <1>2, RecentCurrent
<1>4. events[1].conn = conn => socketState = "NOT_A_SOCKET" \/ Phantom
  <2>1. SUFFICES ASSUME events[1].conn = conn, socketState # "NOT_A_SOCKET", ~Phantom PROVE FALSE
    OBVIOUS
  <2>2. socketState \in SocketStates
    BY DEF IInv, Types
  <2>3. Connected
    BY <1>1, <2>1, <2>2 DEF IInv, Quiet, SocketStates, Connected
  <2>4. QED
    BY <1>1, <1>3, <2>1, <2>3 DEF IInv, Known
<1>5. sockets[s] = Cleared
  BY <1>2, <1>3, <1>4, NotInUse
<1>6. [sockets EXCEPT ![s].bIsRecvPending = FALSE] = sockets
  <2>1. [Cleared EXCEPT !.bIsRecvPending = FALSE] = Cleared
    BY ClearedUnread
  <2>2. [sockets EXCEPT ![s].bIsRecvPending = FALSE] = [sockets EXCEPT ![s] = Cleared]
    BY <1>5, <2>1
  <2>3. sockets \in [Socks -> SlotStates]
    BY Typed
  <2> HIDE DEF s
  <2>4. [sockets EXCEPT ![s] = Cleared] = sockets
    BY <1>2, <1>5, <2>3
  <2>5. QED
    BY <2>2, <2>4
<1>7. QED
  BY <1>4, <1>6 DEF Answers, Connected

\* A CONNECT reply, although it carries no session, is about the present socket or
\* finds another slot than the adapter's.
LEMMA ConnectIsCurrent ==
  ASSUME IInv, events # <<>>, events[1].op = "connect"
  PROVE  /\ events[1].sock = tcpClientSocket <=> Asked(1)
         /\ Asked(1) =>
              /\ tcpClientSocket \in Socks
              /\ \/ socketState = "SOCKET_IN_PROGRESS" /\ orphan = "none"
                 \/ socketState = "NOT_A_SOCKET" /\ orphan = "owed"
              /\ \A s \in Socks : ~(winc[s].status = "opening" /\ winc[s].conn = conn)
              /\ \A i \in 1..Len(events) : Asked(i) => i = 1
<1>1. events[1] \in EventStates /\ 1 \in 1..Len(events)
  BY HeadTyped
<1>2. tcpClientSocket \in Socks /\ (events[1].sock = tcpClientSocket <=> events[1].conn = conn)
  BY <1>1, EventCurrent
<1>3. ASSUME Asked(1)
      PROVE  /\ socketState = "SOCKET_IN_PROGRESS" \/ orphan = "owed"
             /\ \A s \in Socks : ~(winc[s].status = "opening" /\ winc[s].conn = conn)
             /\ \A i \in 1..Len(events) : Asked(i) => i = 1
  BY <1>1, <1>3 DEF IInv, Opening
<1>4. QED
  BY <1>2, <1>3 DEF Asked, IInv, Types, Orphaned

LEMMA ConnectEventStep ==
  ASSUME IInv, events # <<>>, events' = Tail(events), events[1].op = "connect",
         ConnectEvent(events[1]),
         UNCHANGED <<nextTcpSock, sessionId, tcpClientSocket, conn, deaf>>
  PROVE  IInv'
<1> DEFINE e == events[1]
<1>1. CASE ~Asked(1)
  <2>1. e.sock # tcpClientSocket
    BY <1>1, ConnectIsCurrent
  <2>2. NotForClient(e) /\ sockets' = sockets
    BY <2>1 DEF ConnectEvent, HandlerOf
  <2>0. UNCHANGED <<sockets, socketState, orphan, winc, refusals, got>> /\ spare' = spare
    BY <2>2 DEF NotForClient, IInv, Types
  <2>3. ~Answers(1)
    BY DEF Answers
  <2>4. QED
    BY <1>1, <2>0, <2>3, DropStep DEF driverVars, adapterVars
<1>2. CASE Asked(1)
  <2>1. /\ e.sock = tcpClientSocket /\ tcpClientSocket \in Socks
        /\ \/ socketState = "SOCKET_IN_PROGRESS" /\ orphan = "none"
           \/ socketState = "NOT_A_SOCKET" /\ orphan = "owed"
        /\ \A s \in Socks : ~(winc[s].status = "opening" /\ winc[s].conn = conn)
        /\ \A i \in 1..Len(events) : Asked(i) => i = 1
    BY <1>2, ConnectIsCurrent
  <2>2. ~NotForClient(e)
    BY <2>1 DEF NotForClient, HandlerOf
  <2>3. orphan' = IF orphan # "owed" THEN orphan ELSE IF e.n >= 0 THEN "taken" ELSE "none"
    BY <2>2 DEF ConnectEvent
  <2>4. CASE /\ e.n >= 0 /\ socketState' = "SOCKET_CONNECTED"
             /\ UNCHANGED <<sockets, winc, refusals, spare, got>>
    BY <1>2, <2>1, <2>3, <2>4, ConnectedStep, PhantomStep DEF driverVars
  <2>5. CASE e.n < 0 /\ BsdClose /\ UNCHANGED <<spare, got>>
    <3>1. /\ sockets' = [sockets EXCEPT ![tcpClientSocket] = Cleared]
          /\ winc' = winc \/ winc' = [winc EXCEPT ![tcpClientSocket] = Unknown]
          /\ socketState' = "NOT_A_SOCKET" /\ refusals' \in Nat
      BY <2>5, Typed DEF BsdClose, Shutdown, Accepted, Refused
    <3>2. /\ events' \in Seq(EventStates)
          /\ \A i \in 1..Len(events') : i + 1 \in 1..Len(events) /\ i + 1 # 1
                                        /\ events'[i] = events[i + 1]
      BY Tailed
    <3>3. /\ \A i \in 1..Len(events') : \E j \in 1..Len(events) : events'[i] = events[j]
          /\ \A i \in 1..Len(events') : ~(events'[i].op = "connect" /\ events'[i].conn = conn)
      BY <2>1, <3>2 DEF Asked
    <3>4. orphan' = "none"
      <4>1. e.n \in Int
        BY HeadTyped, Constants DEF EventStates
      <4>2. QED
        BY <2>1, <2>3, <2>5, <4>1
    <3>5. QED
      BY <2>1, <2>5, <3>1, <3>2, <3>3, <3>4, ClosedStep
  <2>6. QED
    BY <2>2, <2>4, <2>5 DEF ConnectEvent
<1>3. QED
  BY <1>1, <1>2

LEMMA SendEventStep ==
  ASSUME IInv, events # <<>>, events' = Tail(events), events[1].op = "send",
         SendEvent(events[1]),
         UNCHANGED <<nextTcpSock, sessionId, tcpClientSocket, conn, deaf>>
  PROVE  IInv'
<1> DEFINE e == events[1]
<1>1. ~Answers(1) /\ ~Asked(1)
  BY DEF Answers, Asked
<1>2. UNCHANGED <<sockets, winc, refusals, orphan, spare, got, socketState>>
  <2>1. CASE e.session = sockets[e.sock].session
    <3>1. e.sock = tcpClientSocket /\ socketState = "SOCKET_CONNECTED"
      BY <2>1, SessionMatches DEF Connected
    <3>2. ~NotForClient(e)
      BY <3>1 DEF NotForClient, HandlerOf
    <3>3. QED
      BY <2>1, <3>1, <3>2 DEF SendEvent
  <2>2. CASE e.session # sockets[e.sock].session
    BY <2>2 DEF SendEvent
  <2>3. QED
    BY <2>1, <2>2
<1>3. QED
  BY <1>1, <1>2, DropStep DEF driverVars, adapterVars

LEMMA RecvEventStep ==
  ASSUME IInv, events # <<>>, events' = Tail(events), events[1].op = "recv",
         RecvEvent(events[1]),
         UNCHANGED <<nextTcpSock, sessionId, tcpClientSocket, conn, deaf>>
  PROVE  IInv'
<1> DEFINE e == events[1]
           read == [sockets EXCEPT ![e.sock].bIsRecvPending = FALSE]
<1>1. CASE e.session # sockets[e.sock].session
  <2>1. read = sockets /\ (Connected => ~Answers(1)) /\ ~Asked(1)
    BY <1>1, SessionDiffers DEF Asked
  <2>2. sockets' = read /\ UNCHANGED <<socketState, orphan, winc, refusals, spare, got>>
    BY <1>1 DEF RecvEvent
  <2>3. QED
    BY <2>1, <2>2, DropStep DEF driverVars, adapterVars
<1>2. CASE e.session = sockets[e.sock].session
  <2>1. /\ e.sock = tcpClientSocket /\ e.conn = conn /\ Connected
        /\ socketState = "SOCKET_CONNECTED" /\ ~Phantom /\ orphan = "none"
    BY <1>2, SessionMatches DEF Connected, Phantom, IInv, Types, Orphaned
  <2>2. tcpClientSocket \in Socks /\ sockets[tcpClientSocket].bIsUsed
    BY <2>1, InUse
  <2>3. Answers(1) /\ 1 \in 1..Len(events)
    BY <2>1, HeadTyped DEF Answers
  <2>4. sockets[tcpClientSocket].buffer
    BY <2>1, <2>3 DEF IInv, Served
  <2>5. ~NotForClient(e)
    BY <2>1 DEF NotForClient, HandlerOf
  <2>6. \/ /\ e.n > 0 /\ got' = got \o Items(e) /\ sockets' = read
           /\ UNCHANGED <<socketState, winc, refusals, orphan, spare>>
        \/ e.n <= 0 /\ BsdClose /\ UNCHANGED <<orphan, spare, got>>
    BY <1>2, <2>1, <2>2, <2>4, <2>5 DEF RecvEvent
  <2>7. CASE /\ e.n > 0 /\ got' = got \o Items(e) /\ sockets' = read
             /\ UNCHANGED <<socketState, winc, refusals, orphan, spare>>
    BY <2>1, <2>3, <2>7, GotStep DEF adapterVars
  <2>8. CASE e.n <= 0 /\ BsdClose /\ UNCHANGED <<orphan, spare, got>>
    <3>1. /\ sockets' = [sockets EXCEPT ![tcpClientSocket] = Cleared]
          /\ winc' = winc \/ winc' = [winc EXCEPT ![tcpClientSocket] = Unknown]
          /\ socketState' = "NOT_A_SOCKET" /\ refusals' \in Nat
      BY <2>8, Typed DEF BsdClose, Shutdown, Accepted, Refused
    <3>2. /\ events' \in Seq(EventStates)
          /\ \A i \in 1..Len(events') : i + 1 \in 1..Len(events) /\ events'[i] = events[i + 1]
      BY Tailed
    <3>3. /\ \A i \in 1..Len(events) : ~Asked(i)
          /\ \A s \in Socks : ~(winc[s].status = "opening" /\ winc[s].conn = conn)
      BY <2>1, NotOpening
    <3>4. /\ \A i \in 1..Len(events') : \E j \in 1..Len(events) : events'[i] = events[j]
          /\ \A i \in 1..Len(events') : ~(events'[i].op = "connect" /\ events'[i].conn = conn)
      BY <3>2, <3>3 DEF Asked
    <3>5. QED
      BY <2>1, <2>2, <2>8, <3>1, <3>2, <3>3, <3>4, ClosedStep
  <2>9. QED
    BY <2>6, <2>7, <2>8
<1>3. QED
  BY <1>1, <1>2

LEMMA HandleEventStep == ASSUME IInv, HandleEvent PROVE IInv'
<1>1. events # <<>> /\ Head(events) = events[1] /\ events[1] \in EventStates
  BY HeadTyped DEF HandleEvent
<1>2. /\ events' = Tail(events)
      /\ UNCHANGED <<nextTcpSock, sessionId, tcpClientSocket, conn, deaf>>
  BY DEF HandleEvent
<1>3. events[1].op \in {"connect", "send", "recv"}
  BY <1>1 DEF EventStates
<1>4. CASE events[1].op = "connect"
  <2>1. ConnectEvent(events[1])
    BY <1>1, <1>4 DEF HandleEvent
  <2>2. QED
    BY <1>1, <1>2, <1>4, <2>1, ConnectEventStep
<1>5. CASE events[1].op = "send"
  <2>1. SendEvent(events[1])
    BY <1>1, <1>5 DEF HandleEvent
  <2>2. QED
    BY <1>1, <1>2, <1>5, <2>1, SendEventStep
<1>6. CASE events[1].op = "recv"
  <2>1. RecvEvent(events[1])
    BY <1>1, <1>6 DEF HandleEvent
  <2>2. QED
    BY <1>1, <1>2, <1>6, <2>1, RecvEventStep
<1>7. QED
  BY <1>3, <1>4, <1>5, <1>6

-----------------------------------------------------------------------------
(* A socket is made.                                                         *)

LEMMA Turned ==
  ASSUME NEW s \in Socks
  PROVE  /\ (s + 0) % TcpSlots = s
         /\ (s + 1) % TcpSlots = IF s + 1 = TcpSlots THEN 0 ELSE s + 1
<1>1. s \in Nat /\ s < TcpSlots /\ TcpSlots \in Nat /\ TcpSlots > 0
  BY Constants DEF Socks
<1>2. (s + 0) % TcpSlots = s
  BY <1>1
<1>3. CASE s + 1 = TcpSlots
  <2>1. TcpSlots % TcpSlots = 0
    BY <1>1
  <2>2. QED
    BY <1>2, <1>3, <2>1
<1>4. CASE s + 1 # TcpSlots
  <2>1. s + 1 < TcpSlots
    BY <1>1, <1>4
  <2>2. (s + 1) % TcpSlots = s + 1
    BY <1>1, <2>1
  <2>3. QED
    BY <1>2, <1>4, <2>2
<1>5. QED
  BY <1>3, <1>4

LEMMA NextSessionInRange ==
  ASSUME NEW k \in 0..(SessionRange - 1)
  PROVE  NextSession(k) \in 1..(SessionRange - 1)
<1>1. CASE k + 1 = SessionRange
  <2>1. (k + 1) % SessionRange = 0
    BY <1>1, Constants
  <2>2. QED
    BY <2>1, Constants DEF NextSession
<1>2. CASE k + 1 # SessionRange
  <2>1. (k + 1) % SessionRange = k + 1
    BY <1>2, Constants
  <2>2. QED
    BY <1>2, <2>1, Constants DEF NextSession
<1>3. QED
  BY <1>1, <1>2

\* All slots are free, so the new socket's is the next one in turn.
LEMMA FirstFree ==
  ASSUME IInv, socketState = "NOT_A_SOCKET"
  PROVE  LET free == {i \in 0..(TcpSlots - 1) : ~sockets[(nextTcpSock + i) % TcpSlots].bIsUsed}
         IN free # {} /\ Min(free) = 0
<1> DEFINE Free == {i \in 0..(TcpSlots - 1) : ~sockets[(nextTcpSock + i) % TcpSlots].bIsUsed}
<1>1. nextTcpSock \in Socks
  BY DEF IInv, Types
<1>2. 0 \in 0..(TcpSlots - 1)
  BY Constants
<1>3. sockets[nextTcpSock] = Cleared
  BY <1>1, NotInUse
<1>4. 0 \in Free
  BY <1>1, <1>2, <1>3, Turned DEF Cleared
<1>5. \A i \in Free : i \in Nat /\ i >= 0
  BY Constants
<1> HIDE DEF Free
<1>6. Min(Free) = 0
  <2>1. Min(Free) = CHOOSE x \in Free : \A y \in Free : x <= y
    BY DEF Min
  <2>2. 0 \in Free /\ \A y \in Free : 0 <= y
    BY <1>4, <1>5
  <2>3. Min(Free) \in Free /\ \A y \in Free : Min(Free) <= y
    BY <2>1, <2>2
  <2>4. QED
    BY <1>5, <2>2, <2>3
<1>7. QED
  BY <1>4, <1>6 DEF Free

\* What CreateSocket does once that is known.
LEMMA Created ==
  ASSUME IInv, CreateSocket
  PROVE  LET s == nextTcpSock
             k == NextSession(sessionId)
         IN /\ socketState = "NOT_A_SOCKET" /\ conn < MaxSockets /\ s \in Socks
            /\ \A i \in 1..Len(events) : conn - events[i].conn < MaxLate
            /\ nextTcpSock' = IF s + 1 = TcpSlots THEN 0 ELSE s + 1
            /\ sessionId' = k /\ k \in 1..(SessionRange - 1)
            /\ sockets' = [sockets EXCEPT ![s] = [Cleared EXCEPT !.bIsUsed = TRUE, !.session = k]]
            /\ winc' = [winc EXCEPT ![s] = Unknown]
            /\ tcpClientSocket' = s /\ socketState' = "SOCKET_CLOSED"
            /\ conn' = conn + 1 /\ got' = <<>> /\ deaf' = FALSE /\ orphan' = "none"
            /\ UNCHANGED <<spare, events, refusals>>
<1> DEFINE Free == {i \in 0..(TcpSlots - 1) : ~sockets[(nextTcpSock + i) % TcpSlots].bIsUsed}
<1>1. socketState = "NOT_A_SOCKET" /\ UNCHANGED <<spare, events, refusals>>
  BY DEF CreateSocket
<1>2. Free # {} /\ Min(Free) = 0
  BY <1>1, FirstFree
<1>3. nextTcpSock \in Socks /\ sessionId \in 0..(SessionRange - 1)
  BY DEF IInv, Types
<1>4. /\ (nextTcpSock + Min(Free)) % TcpSlots = nextTcpSock
      /\ (nextTcpSock + 1) % TcpSlots = IF nextTcpSock + 1 = TcpSlots THEN 0 ELSE nextTcpSock + 1
  BY <1>2, <1>3, Turned
<1>5. NextSession(sessionId) \in 1..(SessionRange - 1)
  BY <1>3, NextSessionInRange
<1>6. /\ conn < MaxSockets /\ \A i \in 1..Len(events) : conn - events[i].conn < MaxLate
      /\ LET s == (nextTcpSock + Min(Free)) % TcpSlots
         IN /\ nextTcpSock' = (s + 1) % TcpSlots
            /\ sessionId' = NextSession(sessionId)
            /\ sockets' = [sockets EXCEPT ![s] =
                             [Cleared EXCEPT !.bIsUsed = TRUE, !.session = sessionId']]
            /\ winc' = [winc EXCEPT ![s] = Unknown]
            /\ tcpClientSocket' = s
            /\ socketState' = "SOCKET_CLOSED"
            /\ conn' = conn + 1 /\ got' = <<>> /\ deaf' = FALSE /\ orphan' = "none"
  BY <1>2 DEF CreateSocket
<1> HIDE DEF Free
<1>7. QED
  BY <1>1, <1>3, <1>4, <1>5, <1>6

LEMMA FreshSlot ==
  ASSUME NEW k \in 1..(SessionRange - 1)
  PROVE  LET f == [Cleared EXCEPT !.bIsUsed = TRUE, !.session = k]
         IN /\ f \in SlotStates /\ f.bIsUsed /\ f.session = k /\ ~f.bIsRecvPending
BY DEF Cleared, SlotStates

\* The slot of an earlier socket is counted from the new one, and is not the new one's
\* unless the slots have gone round.
LEMMA Shifted ==
  ASSUME IInv, nextTcpSock \in Socks, tcpClientSocket' = nextTcpSock, conn' = conn + 1,
         NEW c \in Nat, NEW s \in Socks, Recent(c, s)
  PROVE  /\ conn - c < TcpSlots - 1 => Recent(c, s)' /\ s # nextTcpSock
         /\ s # nextTcpSock => Recent(c, s)'
         /\ c # conn'
<1>1. conn \in Nat /\ c <= conn /\ c >= 1 /\ conn - c < TcpSlots /\ conn # 0
  BY Typed, Constants DEF Recent
<1>2. /\ tcpClientSocket \in Nat /\ tcpClientSocket < TcpSlots
      /\ nextTcpSock = IF tcpClientSocket + 1 = TcpSlots THEN 0 ELSE tcpClientSocket + 1
  BY <1>1, Constants DEF IInv, Turns, Socks
<1>3. s = IF conn - c <= tcpClientSocket THEN tcpClientSocket - (conn - c)
          ELSE tcpClientSocket - (conn - c) + TcpSlots
  BY DEF Recent, SlotAgo
<1>4. Recent(c, s)' <=> /\ conn' - c < TcpSlots
                        /\ s = IF conn' - c <= nextTcpSock THEN nextTcpSock - (conn' - c)
                               ELSE nextTcpSock - (conn' - c) + TcpSlots
  BY <1>1 DEF Recent, SlotAgo
<1>5. QED
  BY <1>1, <1>2, <1>3, <1>4, Constants

LEMMA CreateSocketStep == ASSUME IInv, CreateSocket PROVE IInv'
<1> DEFINE s == nextTcpSock
           k == NextSession(sessionId)
           f == [Cleared EXCEPT !.bIsUsed = TRUE, !.session = k]
<1>1. /\ socketState = "NOT_A_SOCKET" /\ conn < MaxSockets /\ s \in Socks
      /\ \A i \in 1..Len(events) : conn - events[i].conn < MaxLate
      /\ nextTcpSock' = IF s + 1 = TcpSlots THEN 0 ELSE s + 1
      /\ sessionId' = k /\ k \in 1..(SessionRange - 1)
      /\ sockets' = [sockets EXCEPT ![s] = f] /\ winc' = [winc EXCEPT ![s] = Unknown]
      /\ tcpClientSocket' = s /\ socketState' = "SOCKET_CLOSED"
      /\ conn' = conn + 1 /\ got' = <<>> /\ deaf' = FALSE /\ orphan' = "none"
      /\ UNCHANGED <<spare, events, refusals>>
  BY Created
<1>2. f \in SlotStates /\ f.bIsUsed /\ ~f.bIsRecvPending
  BY <1>1, FreshSlot
<1> HIDE DEF f, k
<1>3. /\ sockets' \in [Socks -> SlotStates] /\ sockets'[s] = f
      /\ \A u \in Socks : u # s => sockets'[u] = sockets[u]
  BY <1>1, <1>2, Typed
<1>4. /\ winc' \in [Socks -> WincStates] /\ winc'[s] = Unknown
      /\ \A u \in Socks : u # s => winc'[u] = winc[u]
  BY <1>1, UnknownWinc, WincSet
<1>5. conn \in Nat /\ conn + 1 \in 0..MaxSockets /\ conn + 1 # 0
  BY <1>1, Typed, Constants
<1>6. Types'
  <2>1. nextTcpSock' \in Socks
    BY <1>1, Constants DEF Socks
  <2>2. sessionId' \in 0..(SessionRange - 1)
    BY <1>1, Constants
  <2>3. got' \in Seq(Int \X Int)
    BY <1>1, EmptySeq
  <2>4. QED
    BY <1>1, <1>3, <1>4, <1>5, <2>1, <2>2, <2>3 DEF IInv, Types, SocketStates
<1>7. SocketOwned'
  <2>1. \A u \in Socks : u # s => ~sockets'[u].bIsUsed
    BY <1>1, <1>3, NotInUse DEF Cleared
  <2>2. {u \in Socks : sockets'[u].bIsUsed} = {s}
    BY <1>1, <1>2, <1>3, <2>1
  <2>3. QED
    BY <1>1, <2>2 DEF SocketOwned, Phantom
<1>8. Turns' /\ ~spare'
  BY <1>1, <1>5 DEF IInv, Turns
<1>9. /\ WincRecent'
      /\ \A u \in Socks : winc'[u] # Unknown => winc'[u].conn # conn'
  <2>1. ASSUME NEW u \in Socks, winc'[u] # Unknown
        PROVE  Recent(winc[u].conn, u)' /\ winc'[u].session # 0 /\ winc'[u].conn # conn'
    <3>1. u # s /\ winc'[u] = winc[u]
      BY <1>4, <2>1
    <3>2. Recent(winc[u].conn, u) /\ winc[u].session # 0
      BY <2>1, <3>1 DEF IInv, WincRecent
    <3>3. winc[u].conn \in Nat
      BY Typed, Constants DEF WincStates
    <3>4. \E c \in Nat : c = winc[u].conn
      BY <3>3
    <3>5. PICK c \in Nat : c = winc[u].conn
      BY <3>4
    <3>6. Recent(c, u)' /\ c # conn'
      BY <1>1, <3>1, <3>2, <3>5, Shifted
    <3>7. QED
      BY <3>1, <3>2, <3>5, <3>6 DEF Recent, SlotAgo
  <2>2. QED
    BY <2>1 DEF WincRecent
<1>10. /\ EventsRecent'
       /\ \A i \in 1..Len(events) : events[i].conn # conn'
  <2>1. ASSUME NEW i \in 1..Len(events)
        PROVE  /\ events'[i].session # 0 /\ events[i].conn # conn'
               /\ Recent(events[i].conn, events[i].sock)'
    <3>1. Recent(events[i].conn, events[i].sock) /\ events[i].session # 0
      BY DEF IInv, EventsRecent
    <3>2. events[i] \in EventStates
      BY Typed, ElementOfSeq
    <3>3. events[i].conn \in Nat /\ events[i].sock \in Socks
      BY <3>2, Constants DEF EventStates
    <3>4. conn - events[i].conn < TcpSlots - 1
      BY <1>1, <1>5, <3>3, Constants
    <3>5. PICK c \in Nat, u \in Socks : c = events[i].conn /\ u = events[i].sock
      BY <3>3
    <3>6. Recent(c, u)' /\ c # conn'
      BY <1>1, <3>1, <3>4, <3>5, Shifted
    <3>7. QED
      BY <1>1, <3>1, <3>5, <3>6 DEF Recent, SlotAgo
  <2>2. QED
    BY <1>1, <2>1 DEF EventsRecent
<1>11. Opening'
  <2>1. \A i \in 1..Len(events') : ~Asked(i)'
    BY <1>1, <1>10 DEF Asked
  <2>2. \A u \in Socks : ~(winc'[u].status = "opening" /\ winc'[u].conn = conn')
    BY <1>9 DEF Unknown
  <2>3. QED
    BY <2>1, <2>2 DEF Opening
<1>12. Quiet'
  BY <1>1, <1>2, <1>3, <1>4, <1>10 DEF Quiet, Unknown
<1>13. Orphaned' /\ Known' /\ Served'
  BY <1>1 DEF Orphaned, Connected, Known, Served
<1>14. QED
  BY <1>6, <1>7, <1>8, <1>9, <1>10, <1>11, <1>12, <1>13 DEF IInv

-----------------------------------------------------------------------------
LEMMA NextIInv == IInv /\ [Next]_vars => IInv'
<1> SUFFICES ASSUME IInv, [Next]_vars PROVE IInv'
  OBVIOUS
<1>1. ASSUME Send PROVE IInv'
  BY <1>1, SendStep
<1>2. ASSUME Recv PROVE IInv'
  BY <1>2, RecvStep
<1>3. ASSUME Host PROVE IInv'
  BY <1>1, <1>2, <1>3, CreateSocketStep, OptionFailsStep, ConnectStep, CloseStep, ReInitStep
     DEF Host
<1>4. ASSUME Module PROVE IInv'
  BY <1>4, AnswerConnectStep, AnswerSendStep, AnswerGoneStep, PassDataStep, ConnectionLostStep
     DEF Module
<1>5. ASSUME UNCHANGED vars PROVE IInv'
  BY <1>5, RefusedOnly, Typed DEF vars, history
<1>6. QED
  BY <1>3, <1>4, <1>5, HandleEventStep DEF Next

LEMMA InductiveInvariant == Spec => []IInv
BY InitIInv, NextIInv, PTL DEF Spec

-----------------------------------------------------------------------------
(* The theorems.                                                             *)

\* Every variable of the driver and the adapter keeps a value the code can store in it
\* (socket.c, bsdWINC.c), and a slot in use never has the session of a cleared one.
THEOREM SocketsTypeCorrect == Spec => []TypeOK
<1>1. IInv => TypeOK
  BY DEF IInv, Types, TypeOK, SlotStates, EventStates
<1>2. QED
  BY <1>1, InductiveInvariant, PTL

\* No slot of gastrSockets is lost: the engine's is in use while it has a socket, and no
\* other ever is, whichever requests the module refuses, however late it answers and
\* whatever the socket is doing when reInit clears the table.  The one exception is
\* named: a phantom has no slot.
THEOREM SocketOwnedCorrect == Spec => []SocketOwned
<1>1. IInv => SocketOwned
  BY DEF IInv
<1>2. QED
  BY <1>1, InductiveInvariant, PTL

\* A socket the adapter counts as connected has been connected by the module, under the
\* slot's session, although m2m_ip_cb cannot check the session of a CONNECT reply.  Only
\* the reply of the very socket that reInit forgot while it was in progress, if it
\* comes before another is made, is taken for a connection that is not there.
THEOREM ConnectedIsRealCorrect == Spec => []ConnectedIsReal
<1>1. IInv => ConnectedIsReal
  BY DEF IInv, Known, Connected, ConnectedIsReal
<1>2. QED
  BY <1>1, InductiveInvariant, PTL

\* BSD_SocketHandler never gives data to the table's empty entry, for any byte at address
\* 0: a RECV reply is the engine's socket's, or its session is not the slot's any more.
THEOREM SpareUnusedCorrect == Spec => []SpareUnused
<1>1. IInv => SpareUnused
  BY DEF IInv, SpareUnused
<1>2. QED
  BY <1>1, InductiveInvariant, PTL

\* The events that answer the present socket are those of its slot and session.
LEMMA WaitingIsAnswers ==
  ASSUME IInv, Connected
  PROVE  Waiting("recv", tcpClientSocket) = {i \in 1..Len(events) : Answers(i)}
BY EventCurrent DEF Waiting, Answers, IInv, Known

\* Nothing is owed to a phantom.
LEMMA PhantomServed ==
  ASSUME IInv, Phantom
  PROVE  /\ winc[tcpClientSocket].posted = 0 /\ ~sockets[tcpClientSocket].bIsRecvPending
         /\ Waiting("recv", tcpClientSocket) = {}
<1>1. tcpClientSocket \in Socks /\ winc[tcpClientSocket].posted = 0
  BY ClientSlot DEF Phantom, IInv, Orphaned
<1>2. sockets[tcpClientSocket] = Cleared
  BY <1>1, NotInUse
<1>3. \A i \in 1..Len(events) : events[i].session # 0
  BY DEF IInv, EventsRecent
<1>4. QED
  BY <1>1, <1>2, <1>3 DEF Waiting, Cleared

\* bIsRecvPending tells whether the module owes the connected socket a RECV reply, and it
\* never owes more than one: recv is called on every turn of CLOUD_task, m2m_ip_cb resets
\* the flag before it looks at a late reply's session.
THEOREM RecvServedCorrect == Spec => []RecvServed
<1>1. ASSUME IInv, Connected
      PROVE  winc[tcpClientSocket].posted + Cardinality(Waiting("recv", tcpClientSocket))
               = IF sockets[tcpClientSocket].bIsRecvPending /\ ~deaf THEN 1 ELSE 0
  <2> DEFINE w == winc[tcpClientSocket]
             f == sockets[tcpClientSocket]
             A == {i \in 1..Len(events) : Answers(i)}
  <2>1. /\ w.posted \in {0, 1} /\ (w.posted = 1 => f.bIsRecvPending /\ ~Answered)
        /\ \A i \in 1..Len(events) : Answers(i) =>
             f.bIsRecvPending /\ \A j \in 1..Len(events) : Answers(j) => j = i
        /\ (deaf => f.bIsRecvPending /\ w.posted = 0 /\ ~Answered)
        /\ (f.bIsRecvPending /\ ~deaf => w.posted = 1 \/ Answered)
    BY <1>1 DEF IInv, Served
  <2>2. Waiting("recv", tcpClientSocket) = A
    BY <1>1, WaitingIsAnswers
  <2>3. CASE Answered
    <3>1. PICK i \in 1..Len(events) : Answers(i)
      BY <2>3 DEF Answered
    <3>2. A = {i}
      BY <2>1, <3>1
    <3>3. Cardinality(A) = 1
      BY <3>2, FS_Singleton
    <3>4. f.bIsRecvPending /\ w.posted = 0 /\ ~deaf
      BY <2>1, <2>3, <3>1
    <3> HIDE DEF A
    <3>5. QED
      BY <2>2, <3>3, <3>4
  <2>4. CASE ~Answered
    <3>1. A = {}
      BY <2>4 DEF Answered
    <3>2. Cardinality(A) = 0
      BY <3>1, FS_EmptySet
    <3>3. w.posted = IF f.bIsRecvPending /\ ~deaf THEN 1 ELSE 0
      BY <2>1, <2>4
    <3> HIDE DEF A
    <3>4. QED
      BY <2>2, <3>2, <3>3
  <2>5. QED
    BY <2>3, <2>4
<1>2. ASSUME IInv, Phantom
      PROVE  winc[tcpClientSocket].posted + Cardinality(Waiting("recv", tcpClientSocket))
               = IF sockets[tcpClientSocket].bIsRecvPending /\ ~deaf THEN 1 ELSE 0
  <2>1. Cardinality(Waiting("recv", tcpClientSocket)) = 0
    BY <1>2, PhantomServed, FS_EmptySet
  <2>2. winc[tcpClientSocket].posted = 0 /\ ~sockets[tcpClientSocket].bIsRecvPending
    BY <1>2, PhantomServed
  <2>3. QED
    BY <2>1, <2>2
<1>3. IInv => RecvServed
  BY <1>1, <1>2 DEF RecvServed, Connected
<1>4. QED
  BY <1>3, InductiveInvariant, PTL

\* Every event is a step of the abstract connection, or none.
LEMMA EventRefines == ASSUME IInv, HandleEvent PROVE [Link!Next]_Link!vars
<1> DEFINE e == events[1]
<1>1. events # <<>> /\ Head(events) = e /\ e \in EventStates /\ 1 \in 1..Len(events)
  BY HeadTyped DEF HandleEvent
<1>2. conn' = conn /\ tcpClientSocket' = tcpClientSocket
  BY DEF HandleEvent
<1>3. e.op \in {"connect", "send", "recv"}
  BY <1>1 DEF EventStates
<1>4. CASE e.op = "connect"
  <2>1. ConnectEvent(e)
    BY <1>1, <1>4 DEF HandleEvent
  <2>2. CASE ~Asked(1)
    <3>1. e.sock # tcpClientSocket
      BY <1>1, <1>4, <2>2, ConnectIsCurrent
    <3>2. UNCHANGED <<socketState, orphan, got>>
      BY <2>1, <3>1 DEF ConnectEvent, NotForClient, HandlerOf
    <3>3. QED
      BY <1>2, <3>2 DEF Link!vars
  <2>3. CASE Asked(1)
    <3>1. /\ e.sock = tcpClientSocket
          /\ \/ socketState = "SOCKET_IN_PROGRESS" /\ orphan = "none"
             \/ socketState = "NOT_A_SOCKET" /\ orphan = "owed"
      BY <1>1, <1>4, <2>3, ConnectIsCurrent
    <3>2. /\ got' = got
          /\ \/ e.n >= 0 /\ socketState' = "SOCKET_CONNECTED"
             \/ e.n < 0 /\ socketState' = "NOT_A_SOCKET"
          /\ orphan' = IF orphan # "owed" THEN orphan ELSE IF e.n >= 0 THEN "taken" ELSE "none"
      BY <2>1, <3>1 DEF ConnectEvent, NotForClient, HandlerOf, BsdClose
    <3>3. e.n \in Int
      BY <1>1, Constants DEF EventStates
    <3>4. CASE socketState = "SOCKET_IN_PROGRESS" /\ orphan = "none"
      BY <1>2, <3>2, <3>4 DEF Link!Next, Link!Opened, Link!Close
    <3>5. CASE socketState = "NOT_A_SOCKET" /\ orphan = "owed"
      BY <1>2, <3>2, <3>3, <3>5 DEF Link!Next, Link!OldReply
    <3>6. QED
      BY <3>1, <3>4, <3>5
  <2>4. QED
    BY <2>2, <2>3
<1>5. CASE e.op = "send"
  <2>1. SendEvent(e)
    BY <1>1, <1>5 DEF HandleEvent
  <2>2. e.session = sockets[e.sock].session =>
          e.sock = tcpClientSocket /\ socketState = "SOCKET_CONNECTED"
    BY <1>1, <1>5, SessionMatches DEF Connected
  <2>3. UNCHANGED <<socketState, orphan, got>>
    BY <2>1, <2>2 DEF SendEvent, NotForClient, HandlerOf
  <2>4. QED
    BY <1>2, <2>3 DEF Link!vars
<1>6. CASE e.op = "recv"
  <2>1. RecvEvent(e)
    BY <1>1, <1>6 DEF HandleEvent
  <2>2. CASE e.session # sockets[e.sock].session
    BY <1>2, <2>1, <2>2 DEF RecvEvent, Link!vars
  <2>3. CASE e.session = sockets[e.sock].session
    <3>1. /\ e.sock = tcpClientSocket /\ e.conn = conn /\ Connected
          /\ socketState = "SOCKET_CONNECTED" /\ orphan = "none"
      BY <1>1, <1>6, <2>3, SessionMatches DEF Connected, Phantom, IInv, Types, Orphaned
    <3>2. /\ orphan' = orphan
          /\ \/ e.n > 0 /\ got' = got \o Items(e) /\ socketState' = socketState
             \/ UNCHANGED <<socketState, got>>
             \/ socketState' = "NOT_A_SOCKET" /\ got' = got
      BY <2>1, <2>3, <3>1 DEF RecvEvent, NotForClient, HandlerOf, BsdClose
    <3>3. CASE e.n > 0 /\ got' = got \o Items(e) /\ socketState' = socketState
      <4>1. Answers(1)
        BY <1>6, <3>1 DEF Answers
      <4>2. e.first = Len(got) + 1 /\ Len(got) \in Nat
        BY <1>1, <3>1, <3>3, <4>1, Typed, LenProperties DEF IInv, Served
      <4>3. e.n \in 1..MaxData /\ e.n \in Nat
        BY <1>1, <3>3, Constants DEF EventStates
      <4>4. Items(e) = [i \in 1..e.n |-> <<conn, Len(got) + i>>]
        <5>1. \A i \in 1..e.n : e.first + i - 1 = Len(got) + i
          BY <4>2, <4>3
        <5>2. QED
          BY <3>1, <5>1 DEF Items
      <4>5. Link!Read
        BY <1>2, <3>1, <3>2, <3>3, <4>3, <4>4 DEF Link!Read
      <4>6. QED
        BY <4>5 DEF Link!Next
    <3>4. CASE UNCHANGED <<socketState, got>>
      BY <1>2, <3>2, <3>4 DEF Link!vars
    <3>5. CASE socketState' = "NOT_A_SOCKET" /\ got' = got
      BY <1>2, <3>1, <3>2, <3>5 DEF Link!Next, Link!Close
    <3>6. QED
      BY <3>2, <3>3, <3>4, <3>5
  <2>4. QED
    BY <2>2, <2>3
<1>7. QED
  BY <1>3, <1>4, <1>5, <1>6

LEMMA LinkStep == IInv /\ [Next]_vars => [Link!Next]_Link!vars
<1> SUFFICES ASSUME IInv, [Next]_vars PROVE [Link!Next]_Link!vars
  OBVIOUS
<1>1. ASSUME CreateSocket PROVE [Link!Next]_Link!vars
  BY <1>1, Created DEF Link!Next, Link!Create
<1>2. ASSUME OptionFails \/ Close PROVE [Link!Next]_Link!vars
  BY <1>2 DEF OptionFails, Close, BsdClose, Link!Next, Link!Close
<1>3. ASSUME Connect PROVE [Link!Next]_Link!vars
  BY <1>3 DEF Connect, Link!Next, Link!Connect, Link!vars
<1>4. ASSUME Send \/ Recv PROVE [Link!Next]_Link!vars
  BY <1>4 DEF Send, Recv, Link!vars, adapterVars, history
<1>8. ASSUME ReInit PROVE [Link!Next]_Link!vars
  BY <1>8 DEF ReInit, history, Link!Next, Link!Reset
<1>5. ASSUME Module PROVE [Link!Next]_Link!vars
  BY <1>5 DEF Module, AnswerConnect, AnswerSend, AnswerGone, PassData, ConnectionLost,
     Link!vars, adapterVars, history
<1>6. ASSUME UNCHANGED vars PROVE [Link!Next]_Link!vars
  BY <1>6 DEF vars, adapterVars, history, Link!vars
<1>7. QED
  BY <1>1, <1>2, <1>3, <1>4, <1>5, <1>6, <1>8, EventRefines DEF Next, Host

\* The driver and the adapter implement TcpLink: what recvCallBack is given is the present
\* connection's data, from its first item on, none missing, none twice and none of an
\* earlier connection, for any number of slots, sockets and items.
THEOREM SocketsImplementLink == Spec => ImplementsLink
<1>1. Init => Link!Init
  BY DEF Init, Link!Init
<1>2. QED
  BY <1>1, LinkStep, InductiveInvariant, PTL DEF Spec, ImplementsLink, Link!Spec
===============================================================================
