------------------------- MODULE ExchangeBufferProofs -------------------------
(***************************************************************************)
(* Proofs about ExchangeBuffer, for a buffer of every size and calls of    *)
(* every length: no access is out of bounds, a write stops for want of     *)
(* room only, and the buffer implements ByteFifo.                          *)
(***************************************************************************)
EXTENDS ExchangeBuffer, SequenceTheorems, TLAPS

(***************************************************************************)
(* The inductive invariant.  A running write goes on where the bytes in    *)
(* the buffer end (dend is Size there instead of 0 after the last cell);   *)
(* until a buffer is refilled its bytes do not wrap, and a buffer that is  *)
(* only filled begins at the start.                                        *)
(***************************************************************************)
WriteAtEnd ==
  call = "write" => Wrapped = Slot(dataLength)

StraightUntilRefilled ==
  /\ use # "refilled" => currentLocation + dataLength <= Size
  /\ use = "filled" => currentLocation = 0
  /\ call = "peek" => use # "refilled"
  /\ call = "read" => use # "filled"
  /\ call = "write" => use # "drained"

IInv == BufferTypeOK /\ WriteAtEnd /\ StraightUntilRefilled

(***************************************************************************)
(* The modulus of Write: its argument is less than twice the size.         *)
(***************************************************************************)
LEMMA ModSize ==
  ASSUME NEW a \in Nat, a < 2 * Size
  PROVE  a % Size = IF a < Size THEN a ELSE a - Size
BY SizeAssumption

(***************************************************************************)
(* The bytes of a buffer lie in different cells of its memory.             *)
(***************************************************************************)
LEMMA SlotRange ==
  ASSUME BufferTypeOK, NEW k \in 0..Size
  PROVE  Slot(k) \in 0..bend
BY SizeAssumption DEF BufferTypeOK, Slot, bend

LEMMA SlotInjective ==
  ASSUME BufferTypeOK, NEW j \in 0..bend, NEW k \in 0..bend, j # k
  PROVE  Slot(j) # Slot(k)
BY SizeAssumption DEF BufferTypeOK, Slot, bend

(***************************************************************************)
(* A running write finds the buffer full exactly when every cell is taken. *)
(***************************************************************************)
LEMMA FullMeansSize ==
  ASSUME IInv, call = "write"
  PROVE  /\ Full <=> dataLength = Size
         /\ Wrapped \in 0..bend
<1>1. Wrapped = Slot(dataLength)
  BY DEF IInv, WriteAtEnd
<1>2. Slot(dataLength) \in 0..bend
  BY SlotRange, SizeAssumption DEF IInv, BufferTypeOK
<1>3. dataLength # 0 /\ Slot(dataLength) = currentLocation <=> dataLength = Size
  BY SizeAssumption DEF IInv, BufferTypeOK, Slot, bend
<1>. QED BY <1>1, <1>2, <1>3 DEF Full

(***************************************************************************)
(* A call is a sequence of bytes.                                          *)
(***************************************************************************)
LEMMA CallType ==
  ASSUME NEW bytes \in Calls
  PROVE  bytes \in Seq(Bytes)
<1>1. PICK n \in 0..MaxLength : bytes \in [1..n -> Bytes]
  BY DEF Calls
<1>. QED BY <1>1, LengthAssumption

(***************************************************************************)
(* The inductive invariant holds initially and every step keeps it.        *)
(***************************************************************************)
LEMMA InitIInv == Init => IInv
BY EmptySeq, SizeAssumption
   DEF Init, IInv, BufferTypeOK, WriteAtEnd, StraightUntilRefilled, bend

LEMMA NextIInv == IInv /\ [Next]_vars => IInv'
<1>. SUFFICES ASSUME IInv, [Next]_vars PROVE IInv'
  OBVIOUS
<1>. USE SizeAssumption, LengthAssumption DEF IInv, bufferVars, callVars
<1>1. CASE BufferInit
  BY <1>1 DEF BufferInit, BufferTypeOK, WriteAtEnd, StraightUntilRefilled, bend
<1>2. ASSUME NEW bytes \in Calls, Write(bytes) PROVE IInv'
  <2>. DEFINE a == currentLocation + dataLength
  <2>1. a \in Nat /\ a < 2 * Size
    BY DEF BufferTypeOK, bend
  <2>2. dend' = Slot(dataLength)
    <3>1. a % Size = IF a < Size THEN a ELSE a - Size
      BY <2>1, ModSize
    <3>2. dend' = a % Size
      BY <1>2 DEF Write
    <3>. HIDE DEF a
    <3>3. dend' = IF a < Size THEN a ELSE a - Size
      BY <3>1, <3>2, Zenon
    <3>. USE DEF a
    <3>. QED BY <3>3 DEF BufferTypeOK, Slot, bend
  <2>3. Slot(dataLength) \in 0..bend
    BY SlotRange DEF BufferTypeOK
  <2>4. BufferTypeOK'
    BY <1>2, <2>2, <2>3, CallType DEF Write, BufferTypeOK, bend
  <2>5. WriteAtEnd'
    BY <1>2, <2>2, <2>3 DEF Write, WriteAtEnd, Wrapped, Slot, bend
  <2>6. StraightUntilRefilled'
    BY <1>2 DEF Write, StraightUntilRefilled
  <2>. QED BY <2>4, <2>5, <2>6
<1>3. CASE WriteByte
  <2>. DEFINE w == Wrapped
  <2>1. call = "write" /\ dataLength # Size /\ w \in 0..bend
    BY <1>3, FullMeansSize DEF WriteByte
  <2>2. Wrapped = Slot(dataLength)
    BY <2>1 DEF WriteAtEnd
  <2>3. Head(data) \in Bytes /\ Tail(data) \in Seq(Bytes)
    BY <1>3 DEF WriteByte, BufferTypeOK
  <2>4. /\ mem' = [mem EXCEPT ![w] = Head(data)] /\ dend' = w + 1
        /\ data' = Tail(data) /\ dataLength' = dataLength + 1
        /\ UNCHANGED <<currentLocation, call, left, out, use>>
    BY <1>3 DEF WriteByte
  <2>5. /\ currentLocation \in 0..bend /\ dataLength \in 0..Size
        /\ w = IF currentLocation + dataLength > bend
                 THEN currentLocation + dataLength - Size
                 ELSE currentLocation + dataLength
    BY <2>2 DEF BufferTypeOK, Slot
  <2>6. Wrapped' = (IF w + 1 > bend THEN 0 ELSE w + 1)
    BY <2>4 DEF Wrapped, bend
  <2>7. Slot(dataLength)' = (IF currentLocation + (dataLength + 1) > bend
                               THEN currentLocation + (dataLength + 1) - Size
                               ELSE currentLocation + (dataLength + 1))
    BY <2>4 DEF Slot, bend
  <2>. HIDE DEF w
  <2>8. BufferTypeOK'
    BY <2>1, <2>3, <2>4 DEF BufferTypeOK, bend
  <2>9. WriteAtEnd'
    BY <2>1, <2>5, <2>6, <2>7 DEF WriteAtEnd, bend
  <2>10. StraightUntilRefilled'
    BY <2>1, <2>4, <2>5 DEF BufferTypeOK, StraightUntilRefilled, bend
  <2>. QED BY <2>8, <2>9, <2>10
<1>4. CASE WriteReturn
  BY <1>4 DEF WriteReturn, BufferTypeOK, WriteAtEnd, StraightUntilRefilled, bend
<1>5. ASSUME NEW length \in 0..MaxLength, Read(length) PROVE IInv'
  BY <1>5, EmptySeq
     DEF Read, BufferTypeOK, WriteAtEnd, StraightUntilRefilled, bend
<1>6. CASE ReadByte
  <2>1. mem[currentLocation] \in Bytes
    BY DEF BufferTypeOK, bend
  <2>2. BufferTypeOK'
    BY <1>6, <2>1 DEF ReadByte, BufferTypeOK, bend
  <2>3. WriteAtEnd'
    BY <1>6 DEF ReadByte, WriteAtEnd
  <2>4. StraightUntilRefilled'
    BY <1>6 DEF ReadByte, BufferTypeOK, StraightUntilRefilled, bend
  <2>. QED BY <2>2, <2>3, <2>4
<1>7. CASE ReadReturn
  BY <1>7 DEF ReadReturn, BufferTypeOK, WriteAtEnd, StraightUntilRefilled, bend
<1>8. ASSUME NEW length \in 0..MaxLength, Peek(length) PROVE IInv'
  BY <1>8, EmptySeq
     DEF Peek, BufferTypeOK, WriteAtEnd, StraightUntilRefilled, bend
<1>9. CASE PeekByte
  <2>1. Cell(currentLocation + Len(out)) \subseteq Bytes
    BY <1>9 DEF Cell, BufferTypeOK, bend
  <2>2. BufferTypeOK'
    BY <1>9, <2>1 DEF PeekByte, BufferTypeOK, bend
  <2>3. WriteAtEnd' /\ StraightUntilRefilled'
    BY <1>9 DEF PeekByte, WriteAtEnd, StraightUntilRefilled
  <2>. QED BY <2>2, <2>3
<1>10. CASE PeekReturn
  BY <1>10 DEF PeekReturn, BufferTypeOK, WriteAtEnd, StraightUntilRefilled, bend
<1>11. CASE Send
  <2>1. [i \in 1..dataLength |-> mem[i - 1]] \in Seq(Bytes)
    <3>1. \A i \in 1..dataLength : mem[i - 1] \in Bytes
      BY DEF BufferTypeOK, bend
    <3>. QED BY <3>1 DEF BufferTypeOK
  <2>2. BufferTypeOK'
    BY <1>11, <2>1 DEF Send, BufferTypeOK, bend
  <2>3. WriteAtEnd' /\ StraightUntilRefilled'
    BY <1>11 DEF Send, WriteAtEnd, StraightUntilRefilled
  <2>. QED BY <2>2, <2>3
<1>12. CASE UNCHANGED vars
  BY <1>12 DEF vars, BufferTypeOK, WriteAtEnd, StraightUntilRefilled,
               Wrapped, Slot, bend
<1>. QED
  BY <1>1, <1>2, <1>3, <1>4, <1>5, <1>6, <1>7, <1>8, <1>9, <1>10, <1>11, <1>12
     DEF Next

LEMMA BufferInvariant == Spec => []IInv
BY InitIInv, NextIInv, PTL DEF Spec

(***************************************************************************)
(* No call leaves the buffer's memory or its length, whatever the size.    *)
(***************************************************************************)
THEOREM BufferTypeCorrect == Spec => []BufferTypeOK
<1>1. IInv => BufferTypeOK
  BY DEF IInv
<1>. QED BY <1>1, BufferInvariant, PTL

(***************************************************************************)
(* A write that returns with bytes to spare leaves a full buffer.          *)
(***************************************************************************)
THEOREM WriteStopsWhenFullHolds == Spec => WriteStopsWhenFull
<1>1. IInv /\ [Next]_vars =>
        [WriteReturn /\ data # <<>> => dataLength = Size]_vars
  BY FullMeansSize DEF WriteReturn
<1>. QED BY <1>1, BufferInvariant, PTL DEF Spec, WriteStopsWhenFull

(***************************************************************************)
(* What the buffer holds, as a sequence.                                   *)
(***************************************************************************)
LEMMA ContentsType ==
  ASSUME BufferTypeOK
  PROVE  /\ contents \in Seq(Bytes)
         /\ Len(contents) = dataLength
         /\ \A i \in 1..dataLength : contents[i] = mem[Slot(i - 1)]
<1>1. dataLength \in Nat
  BY SizeAssumption DEF BufferTypeOK
<1>2. \A i \in 1..dataLength : mem[Slot(i - 1)] \in Bytes
  <2>. TAKE i \in 1..dataLength
  <2>1. i - 1 \in 0..Size
    BY SizeAssumption DEF BufferTypeOK
  <2>. QED BY <2>1, SlotRange DEF BufferTypeOK
<1>. QED BY <1>1, <1>2 DEF contents

(***************************************************************************)
(* A byte written goes behind those the buffer holds and disturbs none.    *)
(***************************************************************************)
LEMMA WriteByteAppends ==
  ASSUME IInv, IInv', WriteByte
  PROVE  contents' = Append(contents, Head(data)) /\ dataLength < Size
<1>1. /\ call = "write" /\ dataLength # Size
      /\ Wrapped = Slot(dataLength)
  BY FullMeansSize DEF WriteByte, IInv, WriteAtEnd
<1>2. dataLength \in 0..bend
  BY <1>1, SizeAssumption DEF IInv, BufferTypeOK, bend
<1>3. /\ mem' = [mem EXCEPT ![Slot(dataLength)] = Head(data)]
      /\ dataLength' = dataLength + 1
      /\ \A k : Slot(k)' = Slot(k)
  BY <1>1 DEF WriteByte, Slot, bend
<1>4. \A i \in 1..dataLength : mem'[Slot(i - 1)] = mem[Slot(i - 1)]
  <2>. TAKE i \in 1..dataLength
  <2>1. i - 1 \in 0..bend /\ i - 1 # dataLength
    BY <1>2, SizeAssumption DEF bend
  <2>2. Slot(i - 1) # Slot(dataLength)
    BY <1>2, <2>1, SlotInjective DEF IInv
  <2>3. Slot(i - 1) \in 0..bend
    BY <1>2, <2>1, SlotRange, SizeAssumption DEF IInv, bend
  <2>. QED BY <1>3, <2>2, <2>3 DEF IInv, BufferTypeOK
<1>5. mem'[Slot(dataLength)] = Head(data)
  BY <1>2, <1>3, SlotRange, SizeAssumption DEF IInv, BufferTypeOK, bend
<1>6. contents' = [i \in 1..(dataLength + 1) |-> mem'[Slot(i - 1)]]
  BY <1>3 DEF contents
<1>7. contents \in Seq(Bytes) /\ Len(contents) = dataLength
      /\ \A i \in 1..dataLength : contents[i] = mem[Slot(i - 1)]
  BY ContentsType DEF IInv
<1>8. Head(data) \in Bytes
  BY DEF WriteByte, IInv, BufferTypeOK
<1>9. contents' = Append(contents, Head(data))
  <2>. DEFINE c == [i \in 1..(dataLength + 1) |-> mem'[Slot(i - 1)]]
              d == Append(contents, Head(data))
  <2>1. /\ d \in Seq(Bytes) /\ Len(d) = dataLength + 1
        /\ \A i \in 1..dataLength : d[i] = contents[i]
        /\ d[dataLength + 1] = Head(data)
    BY <1>7, <1>8, AppendProperties
  <2>2. \A i \in 1..(dataLength + 1) : mem'[Slot(i - 1)] = d[i]
    <3>. TAKE i \in 1..(dataLength + 1)
    <3>1. CASE i <= dataLength
      BY <1>2, <1>4, <1>7, <2>1, <3>1
    <3>2. CASE ~(i <= dataLength)
      <4>1. i - 1 = dataLength /\ i = dataLength + 1
        BY <1>2, <3>2, SizeAssumption DEF bend
      <4>. QED BY <1>5, <2>1, <4>1
    <3>. QED BY <3>1, <3>2
  <2>3. c \in Seq(Bytes) /\ Len(c) = dataLength + 1
    <3>1. \A i \in 1..(dataLength + 1) : mem'[Slot(i - 1)] \in Bytes
      BY <2>1, <2>2, ElementOfSeq
    <3>. QED BY <1>2, <3>1, SizeAssumption DEF bend
  <2>4. \A i \in 1..Len(c) : c[i] = d[i]
    BY <2>2, <2>3
  <2>. HIDE DEF c, d
  <2>5. c = d
    BY <2>1, <2>3, <2>4, SeqEqual
  <2>. QED BY <1>6, <2>5 DEF c, d
<1>. QED BY <1>2, <1>9, SizeAssumption DEF bend

(***************************************************************************)
(* A byte read is the oldest, and the others stay in their order.          *)
(***************************************************************************)
LEMMA ReadByteTakesHead ==
  ASSUME IInv, IInv', ReadByte
  PROVE  /\ contents # <<>>
         /\ out' = Append(out, Head(contents))
         /\ contents' = Tail(contents)
<1>1. contents \in Seq(Bytes) /\ Len(contents) = dataLength
      /\ \A i \in 1..dataLength : contents[i] = mem[Slot(i - 1)]
  BY ContentsType DEF IInv
<1>2. dataLength \in Nat \ {0} /\ currentLocation \in 0..bend
  BY SizeAssumption DEF IInv, BufferTypeOK, ReadByte
<1>3. Head(contents) = mem[currentLocation]
  <2>1. Slot(1 - 1) = currentLocation
    BY <1>2, SizeAssumption DEF Slot, bend
  <2>. QED BY <1>1, <1>2, <2>1
<1>4. \A i \in 1..(dataLength - 1) : Slot(i - 1)' = Slot(i)
  BY SizeAssumption DEF ReadByte, IInv, BufferTypeOK, Slot, bend
<1>5. contents' = [i \in 1..(dataLength - 1) |-> mem[Slot(i)]]
  BY <1>4 DEF ReadByte, contents
<1>6. contents # <<>>
  BY <1>1, <1>2
<1>7. /\ Tail(contents) \in Seq(Bytes)
      /\ Len(Tail(contents)) = dataLength - 1
      /\ \A i \in 1..(dataLength - 1) : Tail(contents)[i] = mem[Slot(i)]
  <2>1. /\ Tail(contents) \in Seq(Bytes)
        /\ Len(Tail(contents)) = dataLength - 1
        /\ \A i \in 1..(dataLength - 1) : Tail(contents)[i] = contents[i + 1]
    BY <1>1, <1>6, HeadTailProperties
  <2>2. \A i \in 1..(dataLength - 1) : contents[i + 1] = mem[Slot(i)]
    BY <1>1, <1>2
  <2>. QED BY <2>1, <2>2
<1>8. contents' = Tail(contents)
  <2>. DEFINE c == [i \in 1..(dataLength - 1) |-> mem[Slot(i)]]
  <2>1. \A i \in 1..(dataLength - 1) : mem[Slot(i)] \in Bytes
    BY <1>7, ElementOfSeq
  <2>2. c \in Seq(Bytes) /\ Len(c) = dataLength - 1
    BY <1>2, <2>1
  <2>3. \A i \in 1..Len(c) : c[i] = Tail(contents)[i]
    BY <1>7, <2>2
  <2>. HIDE DEF c
  <2>4. c = Tail(contents)
    BY <1>7, <2>2, <2>3, SeqEqual
  <2>. QED BY <1>5, <2>4 DEF c
<1>. QED BY <1>3, <1>6, <1>8 DEF ReadByte

(***************************************************************************)
(* As long as the bytes do not wrap, a pointer that does not wrap either   *)
(* finds them.                                                             *)
(***************************************************************************)
LEMMA PeekByteLooks ==
  ASSUME IInv, PeekByte
  PROVE  /\ Len(out) < Len(contents)
         /\ out' = Append(out, contents[Len(out) + 1])
<1>1. Len(contents) = dataLength
      /\ \A i \in 1..dataLength : contents[i] = mem[Slot(i - 1)]
  BY ContentsType DEF IInv
<1>2. Len(out) \in Nat /\ Len(out) < dataLength
  BY DEF PeekByte, IInv, BufferTypeOK
<1>3. currentLocation + Len(out) <= bend
  BY <1>2, SizeAssumption
     DEF PeekByte, IInv, BufferTypeOK, StraightUntilRefilled, bend
<1>4. out' = Append(out, mem[currentLocation + Len(out)])
  BY <1>3 DEF PeekByte, Cell
<1>5. Slot(Len(out)) = currentLocation + Len(out)
  BY <1>2, <1>3, SizeAssumption DEF Slot, bend, IInv, BufferTypeOK
<1>6. contents[Len(out) + 1] = mem[Slot(Len(out))]
  BY <1>1, <1>2 DEF IInv, BufferTypeOK
<1>. QED BY <1>1, <1>2, <1>4, <1>5, <1>6

LEMMA SendLooksAll ==
  ASSUME IInv, Send
  PROVE  out' = contents
<1>1. currentLocation = 0 /\ dataLength <= Size
  BY DEF Send, IInv, StraightUntilRefilled, BufferTypeOK
<1>2. \A i \in 1..dataLength : Slot(i - 1) = i - 1
  BY <1>1, SizeAssumption DEF Slot, bend, IInv, BufferTypeOK
<1>. QED BY <1>2 DEF Send, contents

(***************************************************************************)
(* Each step of the buffer is a step of ByteFifo or leaves it alone.       *)
(***************************************************************************)
LEMMA FifoInit == Init => Fifo!Init
BY DEF Init, Fifo!Init, contents

LEMMA FifoNext ==
  IInv /\ IInv' /\ [Next]_vars => [Fifo!Next]_<<contents, out>>
<1>. SUFFICES ASSUME IInv, IInv', [Next]_vars
              PROVE  [Fifo!Next]_<<contents, out>>
  OBVIOUS
<1>. USE DEF Fifo!Next
<1>0. UNCHANGED bufferVars => UNCHANGED contents
  BY DEF bufferVars, contents, Slot, bend
<1>1. CASE BufferInit
  <2>1. contents' = <<>>
    BY <1>1 DEF BufferInit, contents
  <2>. QED BY <1>1, <2>1 DEF BufferInit, Fifo!Clear
<1>2. ASSUME NEW bytes \in Calls, Write(bytes)
      PROVE  UNCHANGED <<contents, out>>
  BY <1>0, <1>2 DEF Write
<1>3. CASE WriteByte
  <2>1. Fifo!Put(Head(data))
    BY <1>3, WriteByteAppends, ContentsType DEF WriteByte, IInv, Fifo!Put
  <2>2. Head(data) \in Bytes
    BY <1>3 DEF WriteByte, IInv, BufferTypeOK
  <2>. QED BY <2>1, <2>2
<1>4. CASE WriteReturn
  BY <1>0, <1>4 DEF WriteReturn
<1>5. ASSUME NEW length \in 0..MaxLength, Read(length) PROVE Fifo!Begin
  BY <1>0, <1>5 DEF Read, Fifo!Begin
<1>6. CASE ReadByte
  BY <1>6, ReadByteTakesHead DEF Fifo!Get
<1>7. CASE ReadReturn
  BY <1>0, <1>7 DEF ReadReturn
<1>8. ASSUME NEW length \in 0..MaxLength, Peek(length) PROVE Fifo!Begin
  BY <1>0, <1>8 DEF Peek, Fifo!Begin
<1>9. CASE PeekByte
  BY <1>0, <1>9, PeekByteLooks DEF PeekByte, Fifo!Look
<1>10. CASE PeekReturn
  BY <1>0, <1>10 DEF PeekReturn
<1>11. CASE Send
  BY <1>0, <1>11, SendLooksAll DEF Send, Fifo!LookAll
<1>12. CASE UNCHANGED vars
  BY <1>0, <1>12 DEF vars
<1>. QED
  BY <1>1, <1>2, <1>3, <1>4, <1>5, <1>6, <1>7, <1>8, <1>9, <1>10, <1>11, <1>12
     DEF Next

(***************************************************************************)
(* The buffer of every size is a queue of bytes: what comes out is what    *)
(* went in, in order, wherever the memory wraps.                           *)
(***************************************************************************)
THEOREM BufferImplementsFifo == Spec => ImplementsFifo
BY BufferInvariant, FifoInit, FifoNext, PTL
   DEF Spec, ImplementsFifo, Fifo!Spec
===============================================================================
