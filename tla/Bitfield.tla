------------------------------- MODULE Bitfield -------------------------------
(***************************************************************************)
(* The bit fields of torc: Tracker.BitFieldHave, Tracker.BitFieldDownloading*)
(* and Peer.RemoteBitField, and the operations handler.go performs on them. *)
(*                                                                         *)
(* A bit field is the SET of its bits that are 1.  Bits are numbered the    *)
(* way the BitTorrent protocol numbers pieces: bit 8*b is the most          *)
(* significant bit of byte b and bit 8*b+7 its least significant one.       *)
(* CodecProofs compares this representation with the byte arithmetic of the *)
(* code, which is in BitfieldBytes.                                         *)
(***************************************************************************)
EXTENDS Integers

\* crypto/sha1.Size
SHA1Size == 20

\* "len(t.Pieces) / sha1.Size": the code still divides by the size of a hash,
\* although Pieces has become a slice of hashes; n is len(t.Pieces).
AmountOfPieces(n) == n \div SHA1Size

\* The number of bytes the peer handler allocates for Peer.RemoteBitField.
BitFieldLength(n) == ((n \div SHA1Size) \div 8) + 1

\* The bit set in byte b by "1 << shift": none once the 1 is shifted out of the
\* byte.
Bit(b, shift) == IF shift > 7 THEN {} ELSE {8 * b + 7 - shift}

\* Mutant of OrHave: the shift counts from the wrong end of the byte.
OrHave_Reversed(bits, i) == bits \cup Bit(i \div 8, i % 8)

\* The Have message of the remote peer for piece i, "OR:ing in a 1":
\*     RemoteBitField[i/8] |= 1 << (8 - i%8)
OrHave(bits, i) == bits \cup Bit(i \div 8, 8 - (i % 8))

\* Mutant of SetPiece: the shift of OrHave is used here too.
SetPiece_WrongShift(bits, i) == bits \cup Bit(i \div 8, 8 - (i % 8))

\* "bits[i/8] |= 1 << (7 - i%8)", used for both bit fields of the Tracker.
SetPiece(bits, i) == bits \cup Bit(i \div 8, 7 - (i % 8))

\* Mutant of LocalAvailable: the field is not looked at.
LocalAvailable_Always(downloading, i) == TRUE

\* findFreePieceIndex, localAvailable == 0.
LocalAvailable(downloading, i) == i \notin downloading

\* findFreePieceIndex, remoteAvailable == 1: the masked byte is 0 or
\* 2^(7 - i%8), so it equals 1 only for the least significant bit of a byte.
RemoteAvailable(remote, i) == i \in remote /\ 7 - (i % 8) = 0

\* The pieces the loop of findFreePieceIndex would stop at.
FreePieces(downloading, remote, n) ==
  {i \in 0 .. AmountOfPieces(n) - 1 :
     LocalAvailable(downloading, i) /\ RemoteAvailable(remote, i)}

\* The piece the loop does stop at, the lowest one, in a set: no piece, no member.
FindFreePieceIndex(downloading, remote, n) ==
  {i \in FreePieces(downloading, remote, n) :
     \A j \in FreePieces(downloading, remote, n) : i <= j}

\* The handler accepts a Have message unless "int(byteShift) > len(field)".
HaveFits(i, n) == ~ (i \div 8 > BitFieldLength(n))

\* Indexing the field panics outside of 0 .. len(field)-1.
HavePanics(i, n) == HaveFits(i, n) /\ i \div 8 >= BitFieldLength(n)
===============================================================================
