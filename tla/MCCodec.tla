-------------------------------- MODULE MCCodec --------------------------------
(***************************************************************************)
(* Small inputs for Codec.  A byte has 32 values, so that TLC's integers    *)
(* hold a uint32 of four of them.                                           *)
(***************************************************************************)
EXTENDS CodecInputs, Bitwise

\* The operators of BitfieldBytes are Go's & and | with "1 << shift" in a byte.
ASSUME ShiftedOK ==
  \A b \in 0 .. 255, shift \in 0 .. 8 :
    /\ shift < 8 => AndShifted(b, shift) = b & (2 ^ shift)
    /\ OrShifted(b, shift) = b | ((2 ^ shift) % 256)

\* Two bytes, of which one takes every value.
SmallFields == {[b \in 0 .. 1 |-> IF b = c THEN byte ELSE 165] : c \in 0 .. 1, byte \in 0 .. 255}

Bytes(n) == [k \in 1 .. n |-> (k * 7) % ByteValues]

\* Every length up to one more than the longest legal one.
SmallPayloads == {Bytes(n) : n \in 0 .. 2 * MaxRequestLength + 1}

\* Nothing, a whole message, a keep alive, and the start of a message.
SmallNexts == {<<>>, <<0, 0, 0, 1, 1>>, <<0, 0, 0, 0>>, <<1>>}

\* No argument, one, or three, of one to four bytes.
SmallArguments ==
  UNION {[1 .. n -> {0, 1, 70, 12345, Uint32Values - 1}] : n \in {0, 1, 3}}

SmallPStrs == {Bytes(n) : n \in {0, 1, PStrLength}}
SmallHashes == {[k \in 1 .. HashLength |-> IF k = HashLength THEN last ELSE 1] : last \in 0 .. 1}
SmallPeerIds == {[k \in 1 .. PeerIdLength |-> 2]}

\* One to three files, also empty ones.
SmallLayouts == UNION {[1 .. n -> {0, 1, 3}] : n \in 1 .. 3}
SmallBlocks == 0 .. 4

\* Lengths around a multiple of the longest request, and around Width.
SmallPieces == 0 .. Width + MaxRequestLength
===============================================================================
