---------------------------- MODULE ExchangeBuffer ----------------------------
(***************************************************************************)
(* The circular byte buffer of mqtt_exchange_buffer.c, one loop iteration  *)
(* a step, and MQTT_Send, which takes the bytes out of it without asking   *)
(* it.  Locations are offsets from the buffer's start.                     *)
(*                                                                         *)
(* The engine fills both buffers after MQTT_ExchangeBufferInit only; the   *)
(* calls here may also write after a read, as the code allows.             *)
(***************************************************************************)
EXTENDS Integers, Sequences

CONSTANTS
  Bytes,        \* the values of a byte
  Size,         \* bufferLength
  MaxLength     \* bound: bytes in one call

ASSUME SizeAssumption   == Size \in Nat \ {0}
ASSUME LengthAssumption == MaxLength \in Nat

VARIABLES
  mem,              \* the buffer's memory
  currentLocation,  \* where the oldest byte is
  dataLength,       \* how many there are
  call,             \* the loop that runs: "none", "write", "read", "peek"
  dend,             \* write: where the next byte goes
  data,             \* write: the bytes still to be written
  left,             \* read, peek: how many the caller still wants
  out,              \* what the last call has handed to its caller so far
  use               \* history: since its Init the buffer is only "filled",
                    \* has been "drained", or was "refilled" after that

bufferVars == <<mem, currentLocation, dataLength>>
callVars   == <<dend, data, left>>
vars       == <<bufferVars, call, callVars, out, use>>

bend == Size - 1

(* Memory beyond the buffer's end holds anything.                           *)
Cell(a) == IF a <= bend THEN {mem[a]} ELSE Bytes

-----------------------------------------------------------------------------
(* MQTT_ExchangeBufferInit.                                                 *)
BufferInit ==
  /\ call = "none"
  /\ currentLocation' = 0 /\ dataLength' = 0
  /\ use' = "filled"
  /\ UNCHANGED <<mem, call, callVars, out>>

-----------------------------------------------------------------------------
(* MQTT_ExchangeBufferWrite.                                                *)

Write(bytes) ==
  /\ call = "none"
  /\ call' = "write" /\ data' = bytes
  /\ dend' = (currentLocation + dataLength) % Size
  /\ use' = IF use = "filled" THEN use ELSE "refilled"
  /\ UNCHANGED <<bufferVars, left, out>>

(* Fault: the end of the memory is noticed one byte late.                   *)
WrappedLate == IF dend > Size THEN 0 ELSE dend

Wrapped == IF dend > bend THEN 0 ELSE dend

(* Fault: an empty buffer is taken for a full one.                          *)
FullOrEmpty == Wrapped = currentLocation

Full == dataLength # 0 /\ Wrapped = currentLocation

WriteByte ==
  /\ call = "write" /\ data # <<>> /\ ~Full
  /\ mem' = [mem EXCEPT ![Wrapped] = Head(data)]
  /\ dend' = Wrapped + 1
  /\ data' = Tail(data)
  /\ dataLength' = dataLength + 1
  /\ UNCHANGED <<currentLocation, call, left, out, use>>

(* It reports the length it was given also when it wrote less.              *)
WriteReturn ==
  /\ call = "write"
  /\ data = <<>> \/ Full
  /\ call' = "none"
  /\ UNCHANGED <<bufferVars, callVars, out, use>>

-----------------------------------------------------------------------------
(* MQTT_ExchangeBufferRead.                                                 *)

Read(length) ==
  /\ call = "none"
  /\ call' = "read" /\ left' = length /\ out' = <<>>
  /\ use' = IF use = "filled" THEN "drained" ELSE use
  /\ UNCHANGED <<bufferVars, dend, data>>

(* Fault: the location wraps one byte early.                                *)
ReadByteEarly ==
  /\ call = "read" /\ left > 0 /\ dataLength > 0
  /\ out' = Append(out, mem[currentLocation])
  /\ currentLocation' = IF currentLocation + 1 >= bend THEN 0 ELSE currentLocation + 1
  /\ dataLength' = dataLength - 1
  /\ left' = left - 1
  /\ UNCHANGED <<mem, call, dend, data, use>>

ReadByte ==
  /\ call = "read" /\ left > 0 /\ dataLength > 0
  /\ out' = Append(out, mem[currentLocation])
  /\ currentLocation' = IF currentLocation + 1 > bend THEN 0 ELSE currentLocation + 1
  /\ dataLength' = dataLength - 1
  /\ left' = left - 1
  /\ UNCHANGED <<mem, call, dend, data, use>>

ReadReturn ==
  /\ call = "read"
  /\ left = 0 \/ dataLength = 0
  /\ call' = "none"
  /\ UNCHANGED <<bufferVars, callVars, out, use>>

-----------------------------------------------------------------------------
(* MQTT_ExchangeBufferPeek.  Its pointer never moves, so that it does not   *)
(* wrap.  MQTT_ReceptionHandler, its only caller, peeks into a buffer that  *)
(* was not refilled.                                                        *)

Peek(length) ==
  /\ call = "none" /\ use # "refilled"
  /\ call' = "peek" /\ left' = length /\ out' = <<>>
  /\ UNCHANGED <<bufferVars, dend, data, use>>

PeekByte ==
  /\ call = "peek" /\ left > 0 /\ Len(out) < dataLength
  /\ \E b \in Cell(currentLocation + Len(out)) : out' = Append(out, b)
  /\ left' = left - 1
  /\ UNCHANGED <<bufferVars, call, dend, data, use>>

PeekReturn ==
  /\ call = "peek"
  /\ left = 0 \/ Len(out) >= dataLength
  /\ call' = "none"
  /\ UNCHANGED <<bufferVars, callVars, out, use>>

-----------------------------------------------------------------------------
(* MQTT_Send hands BSD_send the first dataLength bytes of the memory.  The  *)
(* TX buffer is only ever filled.                                           *)
Send ==
  /\ call = "none" /\ use = "filled"
  /\ out' = [i \in 1..dataLength |-> mem[i - 1]]
  /\ UNCHANGED <<bufferVars, call, callVars, use>>

-----------------------------------------------------------------------------
(* MQTT_ClientInitialize, with whatever malloc left in the memory.          *)
Init ==
  /\ mem \in [0..bend -> Bytes]
  /\ currentLocation = 0 /\ dataLength = 0
  /\ call = "none"
  /\ dend = 0 /\ data = <<>> /\ left = 0
  /\ out = <<>> /\ use = "filled"

Calls == UNION {[1..n -> Bytes] : n \in 0..MaxLength}

Next ==
  \/ BufferInit
  \/ \E bytes \in Calls : Write(bytes)
  \/ WriteByte
  \/ WriteReturn
  \/ \E length \in 0..MaxLength : Read(length)
  \/ ReadByte
  \/ ReadReturn
  \/ \E length \in 0..MaxLength : Peek(length)
  \/ PeekByte
  \/ PeekReturn
  \/ Send

Spec == Init /\ [][Next]_vars

-----------------------------------------------------------------------------
(* Properties.                                                              *)

(* Every variable holds a value the code can store in it; no location is    *)
(* ever more than one past the memory's end.                                *)
BufferTypeOK ==
  /\ mem \in [0..bend -> Bytes]
  /\ currentLocation \in 0..bend /\ dataLength \in 0..Size
  /\ call \in {"none", "write", "read", "peek"}
  /\ dend \in 0..Size /\ data \in Seq(Bytes) /\ left \in Nat
  /\ out \in Seq(Bytes)
  /\ use \in {"filled", "drained", "refilled"}

(* A write stops short only of a buffer without room, wherever in the       *)
(* memory its bytes begin and end.                                          *)
WriteStopsWhenFull ==
  [][ WriteReturn /\ data # <<>> => dataLength = Size ]_vars

(* Where the byte k places behind the oldest is.                            *)
Slot(k) == IF currentLocation + k > bend THEN currentLocation + k - Size
                                         ELSE currentLocation + k

contents == [i \in 1..dataLength |-> mem[Slot(i - 1)]]

(* The buffer implements ByteFifo: what is read, peeked and sent are the    *)
(* bytes written, in their order, across every wrap of the memory.  For     *)
(* Peek and Send, which do not wrap, this says that the engine's use of     *)
(* them never needs them to.                                                *)
Fifo == INSTANCE ByteFifo WITH Capacity <- Size, held <- contents

ImplementsFifo == Fifo!Spec
===============================================================================
