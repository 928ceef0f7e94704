------------------------------ MODULE MCDownload ------------------------------
(***************************************************************************)
(* Instances of Download for TLC.  NumHashes = 480 gives 24 pieces, of      *)
(* which 7, 15 and 23 have the least significant bit of a byte: the only    *)
(* ones the code can claim.  660 gives 33, with 31 as a fourth.             *)
(***************************************************************************)
EXTENDS DownloadComments, TLC

\* A Bitfield message of the length the handler expects.
BitfieldOf(bits) == [id |-> "Bitfield", length |-> BitFieldLength(NumHashes), bits |-> bits]
ShortBitfield == [id |-> "Bitfield", length |-> 1, bits |-> {7}]
HaveOf(i) == [id |-> "Have", index |-> i]

\* The remote has one of the pieces that can be claimed, or four.
OnePiece == {BitfieldOf({7})}
FourPieces == {BitfieldOf({7, 15, 23, 31})}
BlockOf(i) == [index |-> i, begin |-> 0, length |-> PieceLength]
Block7 == {BlockOf(7)}
Block15 == {BlockOf(15)}

\* Piece 7 in two blocks, of which the first comes with the right hash.
FirstBlock == {[index |-> 7, begin |-> 0, length |-> MaxRequestLength]}
SecondBlock ==
  {[index |-> 7, begin |-> MaxRequestLength, length |-> PieceLength - MaxRequestLength]}
BothBlocks == FirstBlock \cup SecondBlock

FourBlocks == {BlockOf(i) : i \in {7, 15, 23, 31}}

\* A message for every way of handling one; 32 is the index the length check of a
\* Have lets through, and no piece has the index of NoHash.  Where the downloader
\* waits for an UnChoke, NoHash stands for Interested and NotInterested too; where
\* it waits for a Piece, they are skipped like an UnChoke.
NoHash == [id |-> "Piece", block |-> BlockOf(NumHashes), ok |-> FALSE]
AllKinds ==
  {BitfieldOf({7, 15}), ShortBitfield, HaveOf(6), HaveOf(32), HaveOf(40), NoHash,
   [id |-> "Other"], [id |-> "Truncated"], [id |-> "Unknown"]}

Symmetry == Permutations(Peers)
===============================================================================
