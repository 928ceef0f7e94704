---------------------------- MODULE BitfieldBytes ----------------------------
(***************************************************************************)
(* The byte arithmetic of handler.go on a bit field, for the comparison of  *)
(* the sets of Bitfield with the bytes of the code.  A field is a function  *)
(* from the indices of its bytes to 0 .. 255.                               *)
(***************************************************************************)
EXTENDS Bitfield

Power == [k \in 0 .. 7 |-> <<1, 2, 4, 8, 16, 32, 64, 128>>[k + 1]]

\* "b & (1 << shift)" and "b |= 1 << shift" for a byte b and its bit of that weight; a
\* 1 that is shifted out of the byte is lost.
AndShifted(b, shift) == ((b \div Power[shift]) % 2) * Power[shift]
OrShifted(b, shift) ==
  IF shift > 7 \/ AndShifted(b, shift) # 0 THEN b ELSE b + Power[shift]

\* "field[i/8] |= 1 << shift"
OrByte(field, i, shift) == [field EXCEPT ![i \div 8] = OrShifted(@, shift)]

\* findFreePieceIndex marks a piece, or downloadPiece sets the piece it has.
MarkPiece(field, i) == OrByte(field, i, 7 - (i % 8))

\* The handler of a Have message.
MarkHave(field, i) == OrByte(field, i, 8 - (i % 8))

\* The masked byte in the two tests of findFreePieceIndex.
Masked(field, i) == AndShifted(field[i \div 8], 7 - (i % 8))
===============================================================================
