--------------------------------- MODULE Wire ---------------------------------
(***************************************************************************)
(* The bytes of the peer protocol as peer.go and handshake.go write and     *)
(* read them.  A stream is a sequence of bytes 0 .. ByteValues-1; what a    *)
(* Read returns is a prefix of it whose length TCP chooses.                 *)
(***************************************************************************)
EXTENDS TorrentData

CONSTANT ByteValues   \* 256; smaller for TLC, whose integers have 32 bits

ASSUME WireOK == ByteValues \in Nat \ {0, 1}

KeepAlive == -1   \* bittorrent.KeepAlive

\* binary.BigEndian.Uint32, and PutUint32 with its shifts "v >> 8", "v >> 16", "v >> 24"
Uint32(b) == ((b[1] * ByteValues + b[2]) * ByteValues + b[3]) * ByteValues + b[4]
PutUint32(n) ==
  LET by8  == n \div ByteValues
      by16 == by8 \div ByteValues
      by24 == by16 \div ByteValues
  IN  <<by24 % ByteValues, by16 % ByteValues, by8 % ByteValues, n % ByteValues>>

\* Mutant of Frame: the id is not counted.
Frame_NoId(id, payload) == <<0, 0, 0, Len(payload) % ByteValues, id>> \o payload

\* What Send and SendData put on the wire: only the last byte of the length prefix
\* is ever written.
Frame(id, payload) == <<0, 0, 0, (1 + Len(payload)) % ByteValues, id>> \o payload

\* The ids of the messages that carry numbers; Choke, UnChoke, Interested and
\* NotInterested, which carry none, are 0 .. 3, and Cancel is the last id there is.
Have == 4
Request == 6
Cancel == 8

\* Mutant of NumbersOf: the length of a block is forgotten.
NumbersOf_Short(id) == IF id = Have THEN 1 ELSE IF id \in {Request, Cancel} THEN 2 ELSE 0

\* How many of them.
NumbersOf(id) == IF id = Have THEN 1 ELSE IF id \in {Request, Cancel} THEN 3 ELSE 0

\* Send, whose arguments are uint32s: what it writes, which is nothing when it returns
\* an error, for a Bitfield, a Piece and any other id, or the wrong count of numbers.
\* A message without numbers ignores its arguments.
Send(id, input) ==
  IF id = KeepAlive THEN <<0, 0, 0, 0>>
  ELSE IF id \in 0 .. 3 THEN Frame(id, <<>>)
  ELSE IF id \in {Have, Request, Cancel} /\ Len(input) = NumbersOf(id)
         THEN Frame(id, FlattenSeq([k \in 1 .. Len(input) |-> PutUint32(input[k])]))
  ELSE <<>>

\* SendData, for Bitfield and Piece.
SendData(id, payload) == Frame(id, payload)

-------------------------------------------------------------------------------
Refused == [is |-> "error"]
Panics == [is |-> "panic"]
Received(id, data, rest) == [is |-> "message", id |-> id, data |-> data, rest |-> rest]

\* Mutant of DataLen: the subtraction does not wrap.
DataLen_NoWrap(prefix) == IF prefix = 0 THEN 0 ELSE prefix - 1

\* How many values a uint32 has.
Uint32Values == ByteValues * ByteValues * ByteValues * ByteValues

\* "binary.BigEndian.Uint32(header[:4]) - 1" in 32 bits
DataLen(prefix) == (prefix - 1) % Uint32Values

\* Recv when its first Read returns n bytes of the stream: a read of four bytes is
\* taken for a keep alive.  An id beyond the last one has no name, and to log it
\* panics.  The payload is read until it is complete; when it never is, the deadline
\* or the end of the stream is the error.
Recv(stream, n) ==
  LET dataLen == DataLen(Uint32(SubSeq(stream, 1, 4)))
  IN  IF n < 4 THEN Refused
      ELSE IF n = 4 THEN Received(KeepAlive, <<>>, SubSeq(stream, 5, Len(stream)))
      ELSE IF dataLen > 2 * MaxRequestLength THEN Refused
      ELSE IF stream[5] > Cancel THEN Panics
      ELSE IF Len(stream) < 5 + dataLen THEN Refused
      ELSE Received(stream[5], SubSeq(stream, 6, 5 + dataLen),
                    SubSeq(stream, 6 + dataLen, Len(stream)))

-------------------------------------------------------------------------------
PStrLength == 19
ReservedLength == 8
HashLength == 20     \* sha1.Size
PeerIdLength == 20

\* sendHandshake: <pstrlen><pstr><reserved><info_hash><peer_id>
SendHandshake(pstr, infoHash, peerId) ==
  <<Len(pstr)>> \o pstr \o [k \in 1 .. ReservedLength |-> 0] \o infoHash \o peerId

\* Mutant of HashStart: the reserved bytes are forgotten.
HashStart_NoReserved(lenpstr) == lenpstr

\* "start := lenpstr + len(bt.Reserved)", in what follows the first byte
HashStart(lenpstr) == lenpstr + ReservedLength

\* recvHandshake when its second Read returns n bytes: one Read must return all of
\* them, and only the info hash is looked at.
AcceptsHandshake(stream, n, infoHash) ==
  LET lenpstr  == stream[1]
      response == SubSeq(stream, 2, 1 + n)
      start    == HashStart(lenpstr)
  IN  /\ n = 49 + lenpstr - 1
      /\ SubSeq(response, start + 1, start + HashLength) = infoHash
===============================================================================
