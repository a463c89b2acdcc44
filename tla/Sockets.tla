------------------------------- MODULE Sockets -------------------------------
(* The socket driver of the WINC module (socket.c) under the BSD adapter     *)
(* (bsdWINC.c), as the cloud service and the MQTT engine use them.  Requests *)
(* to the module's firmware are answered later, by events that wait in one   *)
(* queue while the host goes on: the socket an event is about may have been  *)
(* closed by then, or its slot given to another.                             *)
EXTENDS Integers, Sequences, FiniteSets, SequencesExt

CONSTANTS TcpSlots,       \* TCP_SOCK_MAX
          SessionRange,   \* gu16SessionID counts modulo this number
          NullByte,       \* the byte at address 0, see HandlerOf
          MaxLate,        \* an event is handled before so many more sockets are made
          Refusable,      \* requests the module may have no memory for
          MaxRefusals,    \* bound: how often in a behaviour
          MaxSockets,     \* bound: sockets made in a behaviour
          MaxData,        \* bound: items that arrive on a connection
          MaxSends        \* bound: sends whose answer has not been handled

Requests == {"connect", "send", "recv", "close", "option"}

ASSUME SizesAssumption ==
  TcpSlots \in Nat \ {0} /\ SessionRange \in Nat \ {0, 1} /\ NullByte \in Nat
\* CLOUD_task makes a socket every half second at most, the main loop handles an
\* event on every turn.
ASSUME PromptAssumption == MaxLate \in 1..(TcpSlots - 1)
ASSUME RefusalsAssumption == Refusable \subseteq Requests /\ MaxRefusals \in Nat
ASSUME BoundsAssumption == MaxSockets \in Nat /\ MaxData \in Nat /\ MaxSends \in Nat

VARIABLES
  sockets,          \* gastrSockets
  nextTcpSock,      \* u8NextTcpSock
  sessionId,        \* gu16SessionID
  tcpClientSocket,  \* the engine's socket, which the handler table points to
  socketState,      \* socketState of that entry of the table
  orphan,           \* history: the CONNECT reply of a socket that reInit forgot
  spare,            \* history: data was given to the table's other entry
  winc,             \* the module's side of each socket
  events,           \* the module's events the host has not handled yet
  conn,             \* history: sockets made so far
  got,              \* history: what recvCallBack was given since the last was made
  deaf,             \* history: the module refused this socket's RECV request
  refusals          \* history: requests refused so far

driverVars  == <<sockets, nextTcpSock, sessionId>>
adapterVars == <<tcpClientSocket, socketState, orphan, spare>>
history     == <<conn, got, deaf, refusals>>
vars        == <<driverVars, adapterVars, winc, events, history>>

Socks        == 0..(TcpSlots - 1)
NoSocket     == -1
SocketStates == {"NOT_A_SOCKET", "SOCKET_CLOSED", "SOCKET_IN_PROGRESS", "SOCKET_CONNECTED"}

\* A slot that is not used has been cleared; buffer: pu8UserBuffer is not NULL.
Cleared == [bIsUsed |-> FALSE, session |-> 0, bIsRecvPending |-> FALSE, buffer |-> FALSE]

\* The module's side: its session, the RECV and SEND requests it has not
\* answered, and how many items of which connection it has passed on.
Unknown == [session |-> 0, status |-> "none", posted |-> 0, sending |-> 0, passed |-> 0,
            conn |-> 0]

\* gu16SessionID skips 0, the session of a cleared slot.
NextSessionZero(k) == (k + 1) % SessionRange

NextSession(k) == IF (k + 1) % SessionRange = 0 THEN 1 ELSE k + 1

\* The events of one kind that are still to come for the socket in slot s.
Waiting(op, s) == {i \in 1..Len(events) : events[i].op = op /\ events[i].sock = s
                                            /\ events[i].session = sockets[s].session}

-------------------------------------------------------------------------------
(* Requests to the module.                                                    *)

\* hif_send: the module takes the request, or has no memory for it.
Accepted      == UNCHANGED refusals
Refused(kind) == kind \in Refusable /\ refusals < MaxRefusals /\ refusals' = refusals + 1

\* Fault: a slot whose CLOSE is refused stays in use.
ShutdownKeepsRefused(s) ==
  \/ /\ Accepted
     /\ winc' = [winc EXCEPT ![s] = Unknown]
     /\ sockets' = [sockets EXCEPT ![s] = Cleared]
  \/ Refused("close") /\ UNCHANGED <<winc, sockets>>

\* shutdown: the slot is cleared even when the module never hears of it.  One that
\* is not used is refused by the driver itself.
Shutdown(s) ==
  /\ \/ sockets[s].bIsUsed /\ Accepted /\ winc' = [winc EXCEPT ![s] = Unknown]
     \/ sockets[s].bIsUsed /\ Refused("close") /\ UNCHANGED winc
     \/ ~sockets[s].bIsUsed /\ Accepted /\ UNCHANGED winc
  /\ sockets' = [sockets EXCEPT ![s] = Cleared]

\* BSD_close of the engine's socket.
BsdClose == Shutdown(tcpClientSocket) /\ socketState' = "NOT_A_SOCKET"

-------------------------------------------------------------------------------
(* What CLOUD_task and the engine call.                                       *)

\* BSD_socket: the first free slot from nextTcpSock on.  The module is assumed to
\* forget what it knew under that number (SSL_CREATE, whose result is ignored, for
\* a slot whose CLOSE was refused or which reInit forgot).
CreateSocket ==
  /\ socketState = "NOT_A_SOCKET" /\ conn < MaxSockets
  /\ \A i \in 1..Len(events) : conn - events[i].conn < MaxLate
  /\ LET Turn(i) == (nextTcpSock + i) % TcpSlots
         free    == {i \in 0..(TcpSlots - 1) : ~sockets[Turn(i)].bIsUsed}
     IN IF free = {}
        THEN /\ tcpClientSocket' = NoSocket
             /\ UNCHANGED <<driverVars, socketState, orphan, winc, conn, got, deaf>>
        ELSE LET s == Turn(Min(free))
             IN /\ nextTcpSock' = (s + 1) % TcpSlots
                /\ sessionId' = NextSession(sessionId)
                /\ sockets' = [sockets EXCEPT ![s] =
                                 [Cleared EXCEPT !.bIsUsed = TRUE, !.session = sessionId']]
                /\ winc' = [winc EXCEPT ![s] = Unknown]
                /\ tcpClientSocket' = s
                /\ socketState' = "SOCKET_CLOSED" /\ orphan' = "none"
                /\ conn' = conn + 1 /\ got' = <<>> /\ deaf' = FALSE
  /\ UNCHANGED <<spare, events, refusals>>

\* connectMQTTSocket: setting the options fails and the socket is closed, or
\* BSD_connect asks for the connection.
OptionFails ==
  /\ socketState = "SOCKET_CLOSED" /\ "option" \in Refusable /\ refusals < MaxRefusals
  /\ sockets' = [sockets EXCEPT ![tcpClientSocket] = Cleared]
  /\ winc' = [winc EXCEPT ![tcpClientSocket] = Unknown]
  /\ socketState' = "NOT_A_SOCKET"
  /\ refusals' = refusals + 1
  /\ UNCHANGED <<nextTcpSock, sessionId, tcpClientSocket, orphan, spare, events, conn, got,
                 deaf>>

Connect ==
  /\ socketState = "SOCKET_CLOSED"
  /\ \/ /\ Accepted
        /\ winc' = [winc EXCEPT ![tcpClientSocket] =
             [Unknown EXCEPT !.session = sockets[tcpClientSocket].session,
                             !.status = "opening", !.conn = conn]]
        /\ socketState' = "SOCKET_IN_PROGRESS"
     \/ Refused("connect") /\ UNCHANGED <<winc, socketState>>
  /\ UNCHANGED <<driverVars, tcpClientSocket, orphan, spare, events, conn, got, deaf>>

\* send and recv do nothing for a slot that is not used.
Usable == socketState = "SOCKET_CONNECTED" /\ sockets[tcpClientSocket].bIsUsed

Send ==
  /\ Usable
  /\ winc[tcpClientSocket].sending + Cardinality(Waiting("send", tcpClientSocket)) < MaxSends
  /\ \/ Accepted /\ winc' = [winc EXCEPT ![tcpClientSocket].sending = @ + 1]
     \/ Refused("send") /\ UNCHANGED winc
  /\ UNCHANGED <<driverVars, adapterVars, events, conn, got, deaf>>

\* Fault: another RECV is requested although one is outstanding.
RecvAgain ==
  /\ Usable
  /\ sockets' = [sockets EXCEPT ![tcpClientSocket].bIsRecvPending = TRUE,
                                ![tcpClientSocket].buffer = TRUE]
  /\ winc[tcpClientSocket].posted < 2
  /\ winc' = [winc EXCEPT ![tcpClientSocket].posted = @ + 1]
  /\ UNCHANGED <<nextTcpSock, sessionId, adapterVars, events, history>>

\* recv, which CLOUD_task calls on every turn.  It sets bIsRecvPending before it
\* knows whether the module takes the request.
Recv ==
  /\ Usable
  /\ sockets' = [sockets EXCEPT ![tcpClientSocket].bIsRecvPending = TRUE,
                                ![tcpClientSocket].buffer = TRUE]
  /\ IF sockets[tcpClientSocket].bIsRecvPending
     THEN UNCHANGED <<winc, deaf, refusals>>
     ELSE \/ /\ Accepted
             /\ winc' = [winc EXCEPT ![tcpClientSocket].posted = @ + 1]
             /\ UNCHANGED deaf
          \/ Refused("recv") /\ deaf' = TRUE /\ UNCHANGED winc
  /\ UNCHANGED <<nextTcpSock, sessionId, adapterVars, events, conn, got>>

\* MQTT_Close.
Close ==
  /\ socketState = "SOCKET_CONNECTED"
  /\ BsdClose
  /\ UNCHANGED <<nextTcpSock, sessionId, tcpClientSocket, orphan, spare, events, conn, got,
                 deaf>>

\* Fault: the connection is counted as up until it is asked for again.
ReInitKeepsState ==
  /\ sockets' = [s \in Socks |-> Cleared] /\ sessionId' = 0
  /\ UNCHANGED <<nextTcpSock, adapterVars, winc, events, history>>

\* reInit takes the driver down and up, by cloudResetTask or "wifi -set" and
\* whatever the socket is doing.  The module is not told, and owes the reply to a
\* CONNECT.  nextTcpSock is a static variable and keeps its value, tcpClientSocket
\* and so the handler table too.
ReInit ==
  /\ sockets' = [s \in Socks |-> Cleared] /\ sessionId' = 0
  /\ socketState' = "NOT_A_SOCKET"
  /\ orphan' = IF socketState = "SOCKET_IN_PROGRESS" THEN "owed" ELSE orphan
  /\ UNCHANGED <<nextTcpSock, tcpClientSocket, spare, winc, events, history>>

-------------------------------------------------------------------------------
(* The module and the network behind it.                                      *)

Event(op, s, n) == [op |-> op, sock |-> s, session |-> winc[s].session, n |-> n,
                    first |-> winc[s].passed + 1, conn |-> winc[s].conn]

Tell(e) == events' = Append(events, e)

AnswerConnect(s) ==
  /\ winc[s].status = "opening"
  /\ \/ winc' = [winc EXCEPT ![s].status = "up"] /\ Tell(Event("connect", s, 0))
     \/ winc' = [winc EXCEPT ![s].status = "failed"] /\ Tell(Event("connect", s, -1))
  /\ UNCHANGED <<driverVars, adapterVars, history>>

AnswerSend(s) ==
  /\ winc[s].sending > 0
  /\ winc' = [winc EXCEPT ![s].sending = @ - 1]
  /\ Tell(Event("send", s, 0))
  /\ UNCHANGED <<driverVars, adapterVars, history>>

\* A RECV on a connection that is lost.
AnswerGone(s) ==
  /\ winc[s].status = "gone" /\ winc[s].posted > 0
  /\ winc' = [winc EXCEPT ![s].posted = @ - 1]
  /\ Tell(Event("recv", s, -1))
  /\ UNCHANGED <<driverVars, adapterVars, history>>

PassData(s) ==
  /\ winc[s].status = "up" /\ winc[s].posted > 0
  /\ \E n \in 1..(MaxData - winc[s].passed) :
       /\ winc' = [winc EXCEPT ![s].posted = @ - 1, ![s].passed = @ + n]
       /\ Tell(Event("recv", s, n))
  /\ UNCHANGED <<driverVars, adapterVars, history>>

ConnectionLost(s) ==
  /\ winc[s].status = "up"
  /\ winc' = [winc EXCEPT ![s].status = "gone"]
  /\ UNCHANGED <<driverVars, adapterVars, events, history>>

-------------------------------------------------------------------------------
(* Events.                                                                    *)

\* getSocketInfo looks through a table of two entries.  The second is never
\* filled in: its socket pointer is NULL, so it stands for the socket whose
\* number is the byte at address 0.
HandlerOf(s) == IF s = tcpClientSocket THEN "client"
                ELSE IF s = NullByte THEN "spare" ELSE "none"

\* BSD_SocketHandler finds another entry than the client's.
NotForClient(e) ==
  /\ HandlerOf(e.sock) # "client"
  /\ spare' = (spare \/ (HandlerOf(e.sock) = "spare" /\ e.op = "recv" /\ e.n > 0))
  /\ UNCHANGED <<socketState, orphan, winc, refusals, got>>

\* SOCKET_MSG_CONNECT: m2m_ip_cb looks at no session here, and nobody at the slot.
ConnectEvent(e) ==
  \/ /\ HandlerOf(e.sock) = "client"
     /\ \/ e.n >= 0 /\ socketState' = "SOCKET_CONNECTED" /\ UNCHANGED <<sockets, winc, refusals>>
        \/ e.n < 0 /\ BsdClose
     /\ orphan' = IF orphan # "owed" THEN orphan ELSE IF e.n >= 0 THEN "taken" ELSE "none"
     /\ UNCHANGED <<spare, got>>
  \/ NotForClient(e) /\ UNCHANGED sockets

SendEvent(e) ==
  /\ IF e.session = sockets[e.sock].session
     THEN \/ /\ HandlerOf(e.sock) = "client"
             /\ socketState' = "SOCKET_CONNECTED"
             /\ UNCHANGED <<winc, refusals, orphan, spare, got>>
          \/ NotForClient(e)
     ELSE UNCHANGED <<socketState, orphan, winc, refusals, spare, got>>
  /\ UNCHANGED sockets

Items(e) == [i \in 1..e.n |-> <<e.conn, e.first + i - 1>>]

\* Fault: the session of a RECV reply is not looked at.
RecvEventUnchecked(e) ==
  LET read == [sockets EXCEPT ![e.sock].bIsRecvPending = FALSE]
  IN \/ /\ HandlerOf(e.sock) = "client" /\ e.n > 0
        /\ got' = got \o Items(e)
        /\ socketState' = "SOCKET_CONNECTED"
        /\ sockets' = read
        /\ UNCHANGED <<winc, refusals, orphan, spare>>
     \/ /\ HandlerOf(e.sock) = "client" /\ e.n <= 0
        /\ Shutdown(e.sock) /\ socketState' = "NOT_A_SOCKET"
        /\ UNCHANGED <<orphan, spare, got>>
     \/ NotForClient(e) /\ sockets' = read

\* Fault: the end of the connection is not acted upon.
RecvEventIgnoresError(e) ==
  /\ sockets' = [sockets EXCEPT ![e.sock].bIsRecvPending = FALSE]
  /\ IF e.session # sockets[e.sock].session
     THEN UNCHANGED <<socketState, orphan, winc, refusals, spare, got>>
     ELSE \/ /\ HandlerOf(e.sock) = "client"
             /\ got' = got \o Items(e)
             /\ socketState' = "SOCKET_CONNECTED"
             /\ UNCHANGED <<winc, refusals, orphan, spare>>
          \/ NotForClient(e)

\* The slot's bIsRecvPending is reset before the session is looked at.  Data goes
\* to recvCallBack in pieces of the user's buffer (Socket_ReadSocketData), and
\* nowhere without a buffer; anything else closes the socket.
RecvEvent(e) ==
  LET read == [sockets EXCEPT ![e.sock].bIsRecvPending = FALSE]
      current == e.session = sockets[e.sock].session
      ignored == e.n > 0 /\ ~(sockets[e.sock].bIsUsed /\ sockets[e.sock].buffer)
  IN IF ~current \/ ignored
     THEN sockets' = read /\ UNCHANGED <<socketState, orphan, winc, refusals, spare, got>>
     ELSE \/ /\ HandlerOf(e.sock) = "client" /\ e.n > 0
             /\ got' = got \o Items(e)
             /\ socketState' = "SOCKET_CONNECTED"
             /\ sockets' = read
             /\ UNCHANGED <<winc, refusals, orphan, spare>>
          \/ /\ HandlerOf(e.sock) = "client" /\ e.n <= 0
             /\ BsdClose
             /\ UNCHANGED <<orphan, spare, got>>
          \/ NotForClient(e) /\ sockets' = read

\* m2m_ip_cb on the oldest event.
HandleEvent ==
  /\ events # <<>>
  /\ LET e == Head(events)
     IN CASE e.op = "connect" -> ConnectEvent(e)
          [] e.op = "send"    -> SendEvent(e)
          [] e.op = "recv"    -> RecvEvent(e)
  /\ events' = Tail(events)
  /\ UNCHANGED <<nextTcpSock, sessionId, tcpClientSocket, conn, deaf>>

-------------------------------------------------------------------------------
Init ==
  /\ sockets = [s \in Socks |-> Cleared] /\ nextTcpSock = 0 /\ sessionId = 0
  /\ tcpClientSocket = NoSocket /\ socketState = "NOT_A_SOCKET"
  /\ orphan = "none" /\ spare = FALSE
  /\ winc = [s \in Socks |-> Unknown]
  /\ events = <<>>
  /\ conn = 0 /\ got = <<>> /\ deaf = FALSE /\ refusals = 0

Host == CreateSocket \/ OptionFails \/ Connect \/ Send \/ Recv \/ Close \/ ReInit

Module == \E s \in Socks : \/ AnswerConnect(s) \/ AnswerSend(s) \/ AnswerGone(s)
                            \/ PassData(s) \/ ConnectionLost(s)

Next == Host \/ Module \/ HandleEvent

Spec == Init /\ [][Next]_vars

\* The main loop calls CLOUD_task and handles events again and again, and the
\* module answers what it was asked.
Fairness ==
  /\ WF_vars(Recv) /\ WF_vars(HandleEvent)
  /\ \A s \in Socks : WF_vars(AnswerGone(s))

FairSpec == Spec /\ Fairness

-------------------------------------------------------------------------------
(* Properties.                                                                *)

\* Every variable holds a value the code can store in it; in particular no used
\* slot has the session of a cleared one.
TypeOK ==
  /\ \A s \in Socks :
       \/ sockets[s] = Cleared
       \/ sockets[s] \in [bIsUsed : {TRUE}, session : 1..(SessionRange - 1),
                          bIsRecvPending : BOOLEAN, buffer : BOOLEAN]
  /\ nextTcpSock \in Socks /\ sessionId \in 0..(SessionRange - 1)
  /\ tcpClientSocket \in Socks \cup {NoSocket} /\ socketState \in SocketStates
  /\ events \in Seq([op : {"connect", "send", "recv"}, sock : Socks,
                     session : 0..(SessionRange - 1), n : -1..MaxData,
                     first : 1..(MaxData + 1), conn : 0..MaxSockets])

\* The CONNECT reply of a socket that reInit forgot, with "wifi -set" while the
\* connection was being made, makes the entry of its number connected although
\* the driver has no socket there.
Phantom == socketState = "SOCKET_CONNECTED" /\ orphan = "taken"

\* The only slot in use is the engine's, and exactly while the engine has a
\* socket: none is lost by failures, late events and reInit, to be used up one by
\* one, and but for a phantom none is missing.
SocketOwned ==
  {s \in Socks : sockets[s].bIsUsed} =
    IF socketState = "NOT_A_SOCKET" \/ Phantom THEN {} ELSE {tcpClientSocket}

\* A socket that counts as connected has been connected by the module, under the
\* very session the slot now has, although CONNECT replies carry no session: the
\* phantom is the only one that is taken for another's, and no socket made since
\* is ever given an old reply.
ConnectedIsReal ==
  socketState = "SOCKET_CONNECTED" /\ ~Phantom =>
    /\ winc[tcpClientSocket].session = sockets[tcpClientSocket].session
    /\ winc[tcpClientSocket].status \in {"up", "gone"}

\* bIsRecvPending tells the truth: the module owes this socket exactly one RECV
\* reply while it is set and none while it is not, late replies of earlier
\* sockets notwithstanding.  The exception is a request that was refused.
RecvServed ==
  socketState = "SOCKET_CONNECTED" =>
    LET s    == tcpClientSocket
        owed == winc[s].posted + Cardinality(Waiting("recv", s))
    IN owed = IF sockets[s].bIsRecvPending /\ ~deaf THEN 1 ELSE 0

\* No data, however late, is given to the table's empty entry, whose recvCallBack
\* is NULL; a CONNECT reply that "wifi -set" orphaned may well find that entry.
SpareUnused == ~spare

Link == INSTANCE TcpLink WITH
  MaxRead <- MaxData, state <- socketState, reply <- orphan, conn <- conn, data <- got

\* What the engine is given is the present connection's data, from its first byte
\* on, complete and in order, and only while the socket is connected by a reply of
\* its own.
ImplementsLink == Link!Spec

\* The loss of a connection of the driver's is noticed, and the socket closed,
\* unless the RECV request that would report it was refused.  (Then the engine's
\* keep-alive has to find out: MqttCore, LinkSupervised.)
LossNoticed ==
  \A s \in Socks :
    (Usable /\ tcpClientSocket = s /\ winc[s].status = "gone" /\ ~deaf)
      ~> (socketState = "NOT_A_SOCKET" \/ deaf)
===============================================================================
