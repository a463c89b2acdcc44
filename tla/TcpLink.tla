------------------------------- MODULE TcpLink -------------------------------
(* What the MQTT engine may expect of the socket under it: one connection at *)
(* a time, and on each the bytes of that connection only, in order, none     *)
(* missing and none twice.  A socket that was taken from the layer while its *)
(* connection was being made may appear connected later, and then delivers   *)
(* nothing.  Sockets implements this specification.                          *)
EXTENDS Integers, Sequences

CONSTANT MaxRead        \* items that one event delivers, at most

VARIABLES state,        \* the state of the socket, as in bsdWINC.h
          reply,        \* the reply of a connection nobody waits for any more:
                        \* "none" is due, one is "owed", or it came, was good and
                        \* was "taken" for a connection's
          conn,         \* how many sockets have been made
          data          \* what this socket's connection has delivered, each
                        \* item named by its connection and its place there

vars == <<state, reply, conn, data>>

Init == state = "NOT_A_SOCKET" /\ reply = "none" /\ conn = 0 /\ data = <<>>

Create ==
  /\ state = "NOT_A_SOCKET" /\ state' = "SOCKET_CLOSED" /\ reply' = "none"
  /\ conn' = conn + 1 /\ data' = <<>>

Connect ==
  /\ state = "SOCKET_CLOSED" /\ state' = "SOCKET_IN_PROGRESS"
  /\ UNCHANGED <<reply, conn, data>>

Opened ==
  /\ state = "SOCKET_IN_PROGRESS" /\ state' = "SOCKET_CONNECTED"
  /\ UNCHANGED <<reply, conn, data>>

Read ==
  /\ state = "SOCKET_CONNECTED" /\ reply = "none"
  /\ \E n \in 1..MaxRead : data' = data \o [i \in 1..n |-> <<conn, Len(data) + i>>]
  /\ UNCHANGED <<state, reply, conn>>

Close ==
  /\ state # "NOT_A_SOCKET" /\ state' = "NOT_A_SOCKET"
  /\ UNCHANGED <<reply, conn, data>>

\* The layer is taken down under the socket.
Reset ==
  /\ state' = "NOT_A_SOCKET"
  /\ reply' = IF state = "SOCKET_IN_PROGRESS" THEN "owed" ELSE reply
  /\ UNCHANGED <<conn, data>>

\* The reply comes before another socket is made.
OldReply ==
  /\ state = "NOT_A_SOCKET" /\ reply = "owed"
  /\ \/ reply' = "taken" /\ state' = "SOCKET_CONNECTED"
     \/ reply' = "none" /\ UNCHANGED state
  /\ UNCHANGED <<conn, data>>

Next == Create \/ Connect \/ Opened \/ Read \/ Close \/ Reset \/ OldReply

Spec == Init /\ [][Next]_vars
===============================================================================
