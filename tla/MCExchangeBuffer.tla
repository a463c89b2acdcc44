-------------------------- MODULE MCExchangeBuffer --------------------------
(* The bytes of packets: the buffer they go through, and the codec.  The     *)
(* codec's calls touch no buffer: they are made beside one empty buffer.     *)
EXTENDS ExchangeBuffer, MqttCodec

MCInit == Init /\ codec = Idle

EmptyBuffer == Init /\ \A i, j \in 0..bend : mem[i] = mem[j]

MCNext ==
  \/ codec = Idle /\ Next /\ UNCHANGED codec
  \/ codec = Idle /\ EmptyBuffer /\ CodecCall /\ UNCHANGED vars
  \/ codec # Idle /\ codec' = Idle /\ UNCHANGED vars

MCSpec == MCInit /\ [][MCNext]_<<vars, codec>>
=============================================================================
