--------------------------------- MODULE Codec ---------------------------------
(***************************************************************************)
(* The pure parts of torc that count and place bytes: bit fields, messages, *)
(* handshakes, blocks of a torrent's files and the ranges of a piece.  A    *)
(* behaviour picks one input, and the invariants compare what the code      *)
(* computes for it with what the protocol or the layout says.               *)
(***************************************************************************)
EXTENDS Wire, BitfieldBytes

VARIABLE input   \* the input under test; kind tells which

Byte == 0 .. ByteValues - 1

CONSTANTS
  FieldLength,   \* the bytes of a bit field
  Fields,        \* bit fields
  Ids,           \* the ids of messages, but for KeepAlive
  Payloads,      \* what Bitfield and Piece messages carry
  Arguments,     \* the arguments of Send
  Nexts,         \* what follows a message in its stream
  PStrs,         \* names of protocols in a handshake
  Hashes,        \* info hashes
  PeerIds,
  Layouts,       \* the lengths of the files of a torrent
  BlockLengths,
  Width,         \* 2^32, the values of begin; smaller for TLC
  PieceLengths

\* The longest message of Send has 12 bytes of numbers and 13 as its length, which a
\* byte holds; the longest legal length, 2^15, lies between 12 and the limit of a uint32,
\* and the length of a request, 2^14, divides 2^32.
ASSUME CodecOK ==
  /\ ByteValues > 13 /\ 12 <= 2 * MaxRequestLength /\ 2 * MaxRequestLength + 1 < Uint32Values
  /\ FieldLength \in Nat /\ Fields \subseteq [0 .. FieldLength - 1 -> 0 .. 255]
  /\ Ids \subseteq Byte /\ Nexts \subseteq Seq(Byte)
  /\ Payloads \subseteq Seq(Byte) /\ \A p \in Payloads : Len(p) + 1 < Uint32Values
  /\ Arguments \subseteq Seq(0 .. Uint32Values - 1) /\ \A args \in Arguments : Len(args) \in {0, 1, 3}
  /\ PStrs \subseteq Seq(Byte)
  /\ Hashes \subseteq Seq(Byte) /\ \A h \in Hashes : Len(h) = HashLength
  /\ PeerIds \subseteq Seq(Byte) /\ \A id \in PeerIds : Len(id) = PeerIdLength
  /\ Layouts \subseteq Seq(Nat) \ {<<>>} /\ BlockLengths \subseteq Nat
  /\ Width \in Nat \ {0} /\ Width % MaxRequestLength = 0 /\ PieceLengths \subseteq Nat

-------------------------------------------------------------------------------
(* Bit fields.                                                                 *)

FieldInputs == [kind : {"field"}, field : Fields, piece : 0 .. 8 * FieldLength - 1]
PickField == input' \in FieldInputs

BitsOf(field) == {i \in 0 .. 8 * FieldLength - 1 : Masked(field, i) # 0}

\* handler.go:141-143, 310-324: an update of the bytes of a bit field does to the
\* pieces what it does to the set of them, also where the 1 is shifted out of the
\* byte or falls on another piece's bit.
SameBits ==
  input.kind = "field" =>
    /\ BitsOf(MarkPiece(input.field, input.piece)) = SetPiece(BitsOf(input.field), input.piece)
    /\ BitsOf(MarkHave(input.field, input.piece)) = OrHave(BitsOf(input.field), input.piece)

-------------------------------------------------------------------------------
(* Messages of the peer protocol.  Conforming is how the protocol frames them; a *)
(* first Read returns one to five bytes.                                         *)

Conforming(id, payload) ==
  IF id = KeepAlive THEN PutUint32(0) ELSE PutUint32(1 + Len(payload)) \o <<id>> \o payload

MessageInputs ==
  {m \in [kind : {"message"}, id : Ids \cup {KeepAlive}, payload : Payloads \cup {<<>>},
          read : 1 .. 5, next : Nexts] :
     /\ m.id = KeepAlive => m.payload = <<>>
     /\ m.read <= Len(Conforming(m.id, m.payload) \o m.next)}
PickMessage == input' \in MessageInputs

\* peer.go:188-222: unless the first Read stops after four bytes of a longer
\* message, Recv returns the message that was sent and stops at the next one, or
\* fails; it does not fail on a whole header of a message of legal length.  A keep
\* alive that shares its Read with the next message is such a failure.
RecvInSync ==
  input.kind = "message" /\ input.id <= Cancel =>
    LET m      == input
        result == Recv(Conforming(m.id, m.payload) \o m.next, m.read)
        sent   == Received(m.id, m.payload, m.next)
    IN  /\ m.id = KeepAlive \/ m.read # 4 => result \in {sent, Refused}
        /\ m.id # KeepAlive /\ m.read = 5 /\ Len(m.payload) <= 2 * MaxRequestLength => result = sent

\* peer.go:154-174: the remote finds in the stream what SendData was given, and the
\* next message after it, if one byte holds the length of the message.
SentIsRead ==
  input.kind = "message" /\ input.id \in 0 .. Cancel /\ Len(input.payload) <= 2 * MaxRequestLength =>
    (Len(input.payload) <= ByteValues - 2 =>
       Recv(SendData(input.id, input.payload) \o input.next, 5)
         = Received(input.id, input.payload, input.next))

CommandInputs == [kind : {"command"}, id : Ids \cup {KeepAlive}, args : Arguments, next : Nexts]
PickCommand == input' \in CommandInputs

\* The numbers of a message as bittorrent.go and the protocol have them.
Carries(id) == CASE id = Have -> 1 [] id \in {Request, Cancel} -> 3 [] OTHER -> 0

\* peer.go:84-147, handler.go:134: a message that Send writes reaches the remote with
\* its id and the numbers its kind has, in their order, and the next message starts
\* after them.  Nothing is written if there are too few or too many numbers, or for a
\* message that is not for Send.
NumbersArrive ==
  input.kind = "command" =>
    LET sent   == Send(input.id, input.args)
        count  == Carries(input.id)
        result == Recv(sent \o input.next, IF input.id = KeepAlive THEN 4 ELSE 5)
    IN  IF input.id \in {KeepAlive} \cup 0 .. 3 \/ (count > 0 /\ Len(input.args) = count)
          THEN /\ sent # <<>>
               /\ result.is = "message" /\ result.id = input.id /\ result.rest = input.next
               /\ Len(result.data) = 4 * count
               /\ \A k \in 1 .. count : Uint32(SubSeq(result.data, 4 * k - 3, 4 * k)) = input.args[k]
          ELSE sent = <<>>

\* The second Read of a handshake returns some of the bytes it has room for.
HandshakeInputs ==
  {h \in [kind : {"handshake"}, pstr : PStrs, ours : Hashes, theirs : Hashes, peerId : PeerIds,
          read : 0 .. 48 + ByteValues] :
     h.read <= 48 + Len(h.pstr)}
PickHandshake == input' \in HandshakeInputs

\* handshake.go:66-131: of two clients each accepts the handshake of the other if
\* and only if they are about the same torrent and one Read returns all of it.
HandshakeAgrees ==
  input.kind = "handshake" =>
    (AcceptsHandshake(SendHandshake(input.pstr, input.theirs, input.peerId), input.read, input.ours)
       <=> input.ours = input.theirs /\ input.read = 48 + Len(input.pstr))

-------------------------------------------------------------------------------
(* Files and ranges.                                                           *)

\* The files that may be there when a block is read, with their sizes.
Disks(lengths) ==
  {disk \in UNION {[paths -> 0 .. Total(lengths)] : paths \in SUBSET DOMAIN lengths} :
     \A k \in DOMAIN disk : disk[k] <= lengths[k]}

\* Blocks of a torrent that are written, and blocks that are read.
WritesOf(lengths) ==
  {b \in [kind : {"write"}, lengths : {lengths}, at : 0 .. Total(lengths), length : BlockLengths,
          faults : [DOMAIN lengths -> Faults]] :
     b.at + b.length <= Total(lengths)}
ReadsOf(lengths) ==
  {b \in [kind : {"read"}, lengths : {lengths}, at : 0 .. Total(lengths), length : BlockLengths,
          disk : Disks(lengths)] :
     b.at + b.length <= Total(lengths)}
BlockInputs == UNION {WritesOf(lengths) \cup ReadsOf(lengths) : lengths \in Layouts}
PickBlock == input' \in BlockInputs

\* bencode.go:388-450, tracker.go:78-82: the files follow one another without a gap
\* and without an overlap, and together they are what is left to download.
FilesTile ==
  input.kind \in {"write", "read"} =>
    LET files == FilesOf(input.lengths)
        Holds(k, byte) == files[k].index <= byte /\ byte < files[k].index + files[k].length
    IN  \A byte \in 0 .. LeftOf(files) - 1 :
          \E k \in DOMAIN files : \A j \in DOMAIN files : Holds(j, byte) <=> j = k

\* Every piece of a file that was moved lies inside its file, at the place where the
\* torrent has those bytes of the block; the pieces follow one another in the block.
InPlace(s, files, at) ==
  \A k \in DOMAIN s.done :
    LET d == s.done[k]
    IN  /\ d.count = 0 \/ /\ 0 <= d.pos /\ d.pos + d.count <= files[d.path].length
                          /\ files[d.path].index + d.pos = at + d.from
        /\ d.from = Total([j \in 1 .. k - 1 |-> s.done[j].count])

\* torrent.go:150-203: whatever fails, WriteData puts what it writes where it belongs,
\* and it reports an error only if something did.  A block inside the first file is
\* written whole.
WritesInPlace ==
  input.kind = "write" =>
    LET files == FilesOf(input.lengths)
        s     == WriteData(files, input.faults, input.at, input.length)
    IN  /\ InPlace(s, files, input.at)
        /\ s.is = "error" => \E k \in DOMAIN files : input.faults[k] # "none"
        /\ input.at + input.length <= files[1].length /\ input.faults[1] = "none" =>
             s.is = "done" /\ s.off = input.length

\* torrent.go:224-265: what ReadData takes from a file is what belongs at that place of
\* the block, and a block inside what there is of the first file is read whole.
ReadsInPlace ==
  input.kind = "read" =>
    LET files == FilesOf(input.lengths)
        s     == ReadData(files, input.disk, input.at, input.length)
    IN  /\ InPlace(s, files, input.at)
        /\ 1 \in DOMAIN input.disk /\ input.at + input.length <= input.disk[1] =>
             s.is = "done" /\ s.off = input.length

\* What the comment at torrent.go:173-176 says: when there are more data than bytes
\* left in the file, the rest of them is written in the next file.
ContinuesInNextFile ==
  input.kind = "write" =>
    LET files == FilesOf(input.lengths)
        s     == WriteData(files, input.faults, input.at, input.length)
    IN  input.at < files[1].length /\ (\A k \in DOMAIN files : input.faults[k] = "none") =>
          s.off = input.length

PickPiece == input' \in [kind : {"piece"}, plen : PieceLengths]

\* handler.go:252-294: the requests for a piece cover it without a gap, an overlap
\* or a byte too much, up to a length of 2^32 - MaxRequestLength; begin wraps for a
\* longer one, such as the last piece of a large torrent, and the loop has no end.
RequestsCover ==
  input.kind = "piece" =>
    LET rounds == Rounds(input.plen, Width)
    IN  IF input.plen <= Width - MaxRequestLength
          THEN /\ Cardinality(rounds) = 1
               /\ \A ks \in rounds :
                    /\ UNION {Asks(input.plen, Width, k) : k \in ks} = 0 .. input.plen - 1
                    /\ \A j, k \in ks :
                         j # k => Asks(input.plen, Width, j) \cap Asks(input.plen, Width, k) = {}
                    /\ \A k \in ks :
                         Cardinality(Asks(input.plen, Width, k)) \in 1 .. MaxRequestLength
          ELSE rounds = {}

-------------------------------------------------------------------------------
Init == input = [kind |-> "none"]
Next ==
  /\ input.kind = "none"
  /\ PickField \/ PickMessage \/ PickCommand \/ PickHandshake \/ PickBlock \/ PickPiece
Spec == Init /\ [][Next]_input
===============================================================================
