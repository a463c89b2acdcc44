------------------------------- MODULE ByteFifo -------------------------------
(***************************************************************************)
(* What mqtt_exchange_buffer.c promises: bytes come out in the order they  *)
(* went in, none is invented, lost or repeated, and no more than Capacity  *)
(* are held.  ExchangeBuffer implements it.                                *)
(***************************************************************************)
EXTENDS Naturals, Sequences

CONSTANTS Bytes, Capacity

VARIABLES
  held,  \* the bytes in the buffer, the oldest first
  out    \* what the last call has handed to its caller so far

Init == held = <<>> /\ out = <<>>

Begin == out' = <<>> /\ UNCHANGED held
Clear == held' = <<>> /\ UNCHANGED out

Put(b) ==
  /\ Len(held) < Capacity
  /\ held' = Append(held, b)
  /\ UNCHANGED out

(* Take the oldest byte.                                                    *)
Get ==
  /\ held # <<>>
  /\ out' = Append(out, Head(held))
  /\ held' = Tail(held)

(* Copy the next byte and leave it.                                         *)
Look ==
  /\ Len(out) < Len(held)
  /\ out' = Append(out, held[Len(out) + 1])
  /\ UNCHANGED held

(* Copy them all.                                                           *)
LookAll == out' = held /\ UNCHANGED held

Next == Begin \/ Clear \/ (\E b \in Bytes : Put(b)) \/ Get \/ Look \/ LookAll

Spec == Init /\ [][Next]_<<held, out>>
===============================================================================
