----------------------------- MODULE CodecProofs -----------------------------
(***************************************************************************)
(* Theorems about the peer protocol, for payloads of every length, for the  *)
(* 256 values of a byte as for fewer, and for hashes with any bytes.        *)
(***************************************************************************)
EXTENDS Codec, SequenceTheorems, TLAPS

-------------------------------------------------------------------------------
(* The inputs *)

\* The input under test is none yet, or one of the kind it says.
InputOK ==
  \/ input = [kind |-> "none"] \/ input \in FieldInputs \/ input \in MessageInputs
  \/ input \in CommandInputs \/ input \in HandshakeInputs \/ input \in BlockInputs
  \/ input \in [kind : {"piece"}, plen : PieceLengths]

\* Every input that is picked is of its kind.
THEOREM InputAlways == Spec => []InputOK
<1>1. Init => InputOK
  BY DEF Init, InputOK
<1>2. InputOK /\ [Next]_input => InputOK'
  BY DEF InputOK, Next, PickField, PickMessage, PickCommand, PickHandshake, PickBlock, PickPiece
<1>3. QED
  BY <1>1, <1>2, PTL DEF Spec

\* The kind of an input tells which it is.
LEMMA InputKind ==
  ASSUME InputOK
  PROVE  /\ input.kind = "field" => input \in FieldInputs
         /\ input.kind = "message" => input \in MessageInputs
         /\ input.kind = "command" => input \in CommandInputs
         /\ input.kind = "handshake" => input \in HandshakeInputs
         /\ input.kind = "write" => \E lengths \in Layouts : input \in WritesOf(lengths)
         /\ input.kind = "read" => \E lengths \in Layouts : input \in ReadsOf(lengths)
         /\ input.kind = "piece" => input.plen \in PieceLengths
<1>1. /\ input \in FieldInputs => input.kind = "field"
      /\ input \in MessageInputs => input.kind = "message"
      /\ input \in CommandInputs => input.kind = "command"
      /\ input \in HandshakeInputs => input.kind = "handshake"
      /\ input \in BlockInputs => \E lengths \in Layouts : input \in WritesOf(lengths) \/ input \in ReadsOf(lengths)
  BY DEF FieldInputs, MessageInputs, CommandInputs, HandshakeInputs, BlockInputs
<1>2. \A lengths \in Layouts :
        /\ input \in WritesOf(lengths) => input.kind = "write"
        /\ input \in ReadsOf(lengths) => input.kind = "read"
  BY DEF WritesOf, ReadsOf
<1>3. input \in [kind : {"piece"}, plen : PieceLengths] => input.kind = "piece" /\ input.plen \in PieceLengths
  OBVIOUS
<1>4. input = [kind |-> "none"] => input.kind = "none"
  OBVIOUS
<1>5. QED
  BY <1>1, <1>2, <1>3, <1>4 DEF InputOK

\* What is a byte is a number.
LEMMA BytesAreInts == Byte \subseteq Int /\ \A s \in Seq(Byte) : s \in Seq(Int)
BY WireOK DEF Byte

\* What is written after something else follows it in the stream.
LEMMA Joined ==
  ASSUME NEW s \in Seq(Int), NEW t \in Seq(Int)
  PROVE  /\ s \o t \in Seq(Int) /\ Len(s \o t) = Len(s) + Len(t)
         /\ \A i \in 1 .. Len(s) : (s \o t)[i] = s[i]
         /\ \A i \in 1 .. Len(t) : (s \o t)[Len(s) + i] = t[i]
OBVIOUS

\* A part of a stream that agrees with t is t.
LEMMA PartIs ==
  ASSUME NEW s \in Seq(Int), NEW t \in Seq(Int), NEW from \in Nat, from + Len(t) <= Len(s),
         \A i \in 1 .. Len(t) : s[from + i] = t[i]
  PROVE  SubSeq(s, from + 1, from + Len(t)) = t
<1>1. Len(t) \in Nat /\ \A i \in 1 .. Len(t) : t[i] \in Int
  OBVIOUS
<1>2. \A i \in from + 1 .. from + Len(t) : s[i] \in Int
  BY <1>1
<1> DEFINE part == SubSeq(s, from + 1, from + Len(t))
<1>3. /\ part \in Seq(Int) /\ Len(part) = Len(t)
      /\ \A i \in 1 .. Len(t) : part[i] = s[from + i]
  BY <1>1, <1>2
<1> HIDE DEF part
<1>4. part = t
  BY <1>1, <1>3, SeqEqual
<1>5. QED
  BY <1>4 DEF part

-------------------------------------------------------------------------------
(* Bit fields *)

\* The weights of the bits of a byte.
LEMMA PowerIs ==
  /\ Power[0] = 1 /\ Power[1] = 2 /\ Power[2] = 4 /\ Power[3] = 8
  /\ Power[4] = 16 /\ Power[5] = 32 /\ Power[6] = 64 /\ Power[7] = 128
BY DEF Power

\* The bits of a byte by their weights, and the byte they make.
Digits(b) == [t \in 0 .. 7 |-> (b \div Power[t]) % 2]
Value(d) == d[0] + 2 * d[1] + 4 * d[2] + 8 * d[3] + 16 * d[4] + 32 * d[5] + 64 * d[6] + 128 * d[7]

\* The digits in numbers.
LEMMA DigitsAre ==
  ASSUME NEW x \in Int
  PROVE  /\ Digits(x)[0] = x % 2
         /\ Digits(x)[1] = (x \div 2) % 2 /\ Digits(x)[2] = (x \div 4) % 2
         /\ Digits(x)[3] = (x \div 8) % 2 /\ Digits(x)[4] = (x \div 16) % 2
         /\ Digits(x)[5] = (x \div 32) % 2 /\ Digits(x)[6] = (x \div 64) % 2
         /\ Digits(x)[7] = (x \div 128) % 2
<1>1. /\ (x \div 1) % 2 = x % 2
      /\ \A t \in 0 .. 7 : Digits(x)[t] = (x \div Power[t]) % 2
  BY DEF Digits
<1>2. QED
  BY <1>1, PowerIs

\* Every byte is the value of its bits.
LEMMA DigitsValue ==
  ASSUME NEW b \in 0 .. 255
  PROVE  Digits(b) \in [0 .. 7 -> {0, 1}] /\ Value(Digits(b)) = b
<1> DEFINE d == Digits(b)
<1>0. b \in Int
  OBVIOUS
<1>1. /\ d[0] = b % 2 /\ d[1] = (b \div 2) % 2 /\ d[2] = (b \div 4) % 2 /\ d[3] = (b \div 8) % 2
      /\ d[4] = (b \div 16) % 2 /\ d[5] = (b \div 32) % 2 /\ d[6] = (b \div 64) % 2 /\ d[7] = (b \div 128) % 2
  BY <1>0, DigitsAre
<1>2. d = [t \in 0 .. 7 |-> d[t]]
  BY DEF Digits
<1> HIDE DEF d
<1>3. \A t \in 0 .. 7 : d[t] \in {0, 1}
  BY <1>1
<1>4. d \in [0 .. 7 -> {0, 1}]
  BY <1>2, <1>3
<1>5. d[0] + 2 * d[1] + 4 * d[2] + 8 * d[3] + 16 * d[4] + 32 * d[5] + 64 * d[6] + 128 * d[7] = b
  BY <1>1
<1>6. QED
  BY <1>4, <1>5 DEF d, Value

\* Eight bits make a byte, out of which they can be read again.
LEMMA ValueDigits ==
  ASSUME NEW d \in [0 .. 7 -> {0, 1}]
  PROVE  Value(d) \in 0 .. 255 /\ Digits(Value(d)) = d
<1> DEFINE x == Value(d)
<1>1. x = d[0] + 2 * d[1] + 4 * d[2] + 8 * d[3] + 16 * d[4] + 32 * d[5] + 64 * d[6] + 128 * d[7]
  BY DEF Value
<1>2. /\ d[0] \in {0, 1} /\ d[1] \in {0, 1} /\ d[2] \in {0, 1} /\ d[3] \in {0, 1}
      /\ d[4] \in {0, 1} /\ d[5] \in {0, 1} /\ d[6] \in {0, 1} /\ d[7] \in {0, 1}
  OBVIOUS
<1> HIDE DEF x
<1>3. x \in 0 .. 255
  BY <1>1, <1>2
<1>4. /\ d[0] = x % 2 /\ d[1] = (x \div 2) % 2 /\ d[2] = (x \div 4) % 2 /\ d[3] = (x \div 8) % 2
      /\ d[4] = (x \div 16) % 2 /\ d[5] = (x \div 32) % 2 /\ d[6] = (x \div 64) % 2 /\ d[7] = (x \div 128) % 2
  <2>1. d[0] = x % 2
    BY <1>1, <1>2
  <2>2. d[1] = (x \div 2) % 2
    BY <1>1, <1>2
  <2>3. d[2] = (x \div 4) % 2
    BY <1>1, <1>2
  <2>4. d[3] = (x \div 8) % 2
    BY <1>1, <1>2
  <2>5. d[4] = (x \div 16) % 2
    BY <1>1, <1>2
  <2>6. d[5] = (x \div 32) % 2
    BY <1>1, <1>2
  <2>7. d[6] = (x \div 64) % 2
    BY <1>1, <1>2
  <2>8. d[7] = (x \div 128) % 2
    BY <1>1, <1>2
  <2>9. QED
    BY <2>1, <2>2, <2>3, <2>4, <2>5, <2>6, <2>7, <2>8
<1> DEFINE e == Digits(x)
<1>5. /\ e[0] = d[0] /\ e[1] = d[1] /\ e[2] = d[2] /\ e[3] = d[3]
      /\ e[4] = d[4] /\ e[5] = d[5] /\ e[6] = d[6] /\ e[7] = d[7]
  <2>1. x \in Int
    BY <1>3
  <2>2. QED
    BY <1>4, <2>1, DigitsAre
<1>6. e = [t \in 0 .. 7 |-> e[t]]
  BY DEF Digits
<1> HIDE DEF e
<1>7. \A t \in 0 .. 7 : e[t] = d[t]
  BY <1>5
<1>8. e = d
  BY <1>6, <1>7
<1>9. QED
  BY <1>3, <1>8 DEF e, x

\* Adding the weight of a bit that is 0 sets it and leaves the others.
LEMMA OneBit ==
  ASSUME NEW b \in 0 .. 255, NEW s \in 0 .. 7, Digits(b)[s] = 0
  PROVE  b + Power[s] \in 0 .. 255 /\ Digits(b + Power[s]) = [Digits(b) EXCEPT ![s] = 1]
<1> DEFINE d == Digits(b)
           e == [d EXCEPT ![s] = 1]
<1>1. d \in [0 .. 7 -> {0, 1}] /\ Value(d) = b /\ d[s] = 0
  BY DigitsValue
<1> HIDE DEF d
<1>2. e \in [0 .. 7 -> {0, 1}] /\ \A t \in 0 .. 7 : e[t] = IF t = s THEN 1 ELSE d[t]
  BY <1>1
<1> HIDE DEF e
<1>3. Value(e) = b + Power[s]
  BY <1>1, <1>2, PowerIs DEF Value
<1>4. Value(e) \in 0 .. 255 /\ Digits(Value(e)) = e
  BY <1>2, ValueDigits
<1>5. QED
  BY <1>3, <1>4 DEF d, e

\* A masked byte is 0 or the weight of its bit, which is 1 only for the last bit.
LEMMA MaskedBit ==
  ASSUME NEW b \in 0 .. 255, NEW t \in 0 .. 7
  PROVE  /\ AndShifted(b, t) # 0 <=> Digits(b)[t] = 1
         /\ AndShifted(b, t) = 1 <=> Digits(b)[t] = 1 /\ t = 0
<1>1. Power[t] \in 1 .. 128 /\ (Power[t] = 1 <=> t = 0)
  BY PowerIs
<1>2. Digits(b)[t] \in {0, 1}
  BY DigitsValue
<1>3. AndShifted(b, t) = Digits(b)[t] * Power[t]
  BY DEF AndShifted, Digits
<1>4. CASE Digits(b)[t] = 0
  BY <1>1, <1>3, <1>4
<1>5. CASE Digits(b)[t] = 1
  BY <1>1, <1>3, <1>5
<1>6. QED
  BY <1>2, <1>4, <1>5

\* OR:ing a shifted 1 into a byte sets the bit of that weight, if the 1 is still in it,
\* and leaves the others.
LEMMA BitSet ==
  ASSUME NEW b \in 0 .. 255, NEW s \in 0 .. 8
  PROVE  /\ OrShifted(b, s) \in 0 .. 255
         /\ \A t \in 0 .. 7 : AndShifted(OrShifted(b, s), t) # 0 <=> AndShifted(b, t) # 0 \/ s = t
<1>1. CASE s = 8
  <2>1. OrShifted(b, s) = b
    BY <1>1 DEF OrShifted
  <2>2. QED
    BY <1>1, <2>1
<1>2. CASE s # 8 /\ AndShifted(b, s) # 0
  BY <1>2 DEF OrShifted
<1>3. CASE s # 8 /\ AndShifted(b, s) = 0
  <2>1. s \in 0 .. 7 /\ ~ (s > 7)
    BY <1>3
  <2>2. OrShifted(b, s) = b + Power[s]
    BY <1>3, <2>1 DEF OrShifted
  <2>3. Digits(b) \in [0 .. 7 -> {0, 1}]
    BY DigitsValue
  <2>4. Digits(b)[s] = 0
    <3>1. Digits(b)[s] # 1
      BY <1>3, <2>1, MaskedBit
    <3>2. QED
      BY <2>1, <2>3, <3>1
  <2> DEFINE x == b + Power[s]
  <2>5. x \in 0 .. 255 /\ Digits(x) = [Digits(b) EXCEPT ![s] = 1]
    BY <2>1, <2>4, OneBit
  <2> HIDE DEF x
  <2>6. ASSUME NEW t \in 0 .. 7
        PROVE  AndShifted(x, t) # 0 <=> AndShifted(b, t) # 0 \/ s = t
    <3>1. Digits(x)[t] = IF t = s THEN 1 ELSE Digits(b)[t]
      BY <2>3, <2>5
    <3>2. AndShifted(x, t) # 0 <=> Digits(x)[t] = 1
      BY <2>5, MaskedBit
    <3>3. AndShifted(b, t) # 0 <=> Digits(b)[t] = 1
      BY MaskedBit
    <3>4. QED
      BY <3>1, <3>2, <3>3
  <2>7. QED
    BY <2>2, <2>5, <2>6 DEF x
<1>4. QED
  BY <1>1, <1>2, <1>3

\* Where the bit of a piece is.
LEMMA PieceAt ==
  ASSUME NEW i \in 0 .. 8 * FieldLength - 1
  PROVE  i \div 8 \in 0 .. FieldLength - 1 /\ i % 8 \in 0 .. 7 /\ i = 8 * (i \div 8) + (i % 8)
BY CodecOK

\* An update of the bytes of a bit field does to the set of its bits what Bit says.
LEMMA UpdateBits ==
  ASSUME NEW field \in [0 .. FieldLength - 1 -> 0 .. 255], NEW i \in 0 .. 8 * FieldLength - 1, NEW s \in 0 .. 8
  PROVE  BitsOf(OrByte(field, i, s)) = BitsOf(field) \cup Bit(i \div 8, s)
<1> DEFINE b == i \div 8
           new == OrByte(field, i, s)
<1>1. b \in 0 .. FieldLength - 1 /\ FieldLength \in Nat
  BY PieceAt, CodecOK
<1>2. \A c \in 0 .. FieldLength - 1 : new[c] = IF c = b THEN OrShifted(field[b], s) ELSE field[c]
  BY <1>1 DEF OrByte
<1> HIDE DEF b, new
<1>3. ASSUME NEW j \in 0 .. 8 * FieldLength - 1
      PROVE  Masked(new, j) # 0 <=> Masked(field, j) # 0 \/ j \in Bit(b, s)
  <2> DEFINE c == j \div 8
             t == 7 - (j % 8)
  <2>1. c \in 0 .. FieldLength - 1 /\ j % 8 \in 0 .. 7 /\ j = 8 * c + (j % 8)
    BY PieceAt
  <2>2. t \in 0 .. 7 /\ j = 8 * c + 7 - t
    BY <1>1, <2>1
  <2>3. /\ Masked(new, j) = AndShifted(new[c], t)
        /\ Masked(field, j) = AndShifted(field[c], t)
    BY DEF Masked
  <2> HIDE DEF c, t
  <2>4. j \in Bit(b, s) <=> c = b /\ t = s
    <3>1. CASE s = 8
      <4>1. s > 7 /\ t # s
        BY <2>2, <3>1
      <4>2. QED
        BY <4>1 DEF Bit
    <3>2. CASE s \in 0 .. 7
      <4>1. ~ (s > 7)
        BY <3>2
      <4>2. j \in Bit(b, s) <=> j = 8 * b + 7 - s
        BY <4>1 DEF Bit
      <4>3. j = 8 * b + 7 - s <=> c = b /\ t = s
        BY <1>1, <2>1, <2>2, <3>2
      <4>4. QED
        BY <4>2, <4>3
    <3>3. QED
      BY <3>1, <3>2
  <2>5. CASE c = b
    <3>1. field[b] \in 0 .. 255
      BY <1>1
    <3>2. AndShifted(OrShifted(field[b], s), t) # 0 <=> AndShifted(field[b], t) # 0 \/ s = t
      BY <2>2, <3>1, BitSet
    <3>3. QED
      BY <1>1, <1>2, <2>3, <2>4, <2>5, <3>2
  <2>6. CASE c # b
    BY <1>2, <2>1, <2>3, <2>4, <2>6
  <2>7. QED
    BY <2>5, <2>6
<1>4. Bit(b, s) \subseteq 0 .. 8 * FieldLength - 1
  BY <1>1 DEF Bit
<1>5. QED
  BY <1>3, <1>4 DEF BitsOf, new, b

\* The byte arithmetic on bit fields is the one on sets of pieces: marking a piece adds
\* it; a Have adds the piece before the announced one, or nothing.
THEOREM SameBitsAlways == Spec => []SameBits
<1>1. ASSUME InputOK, input.kind = "field"
      PROVE  /\ BitsOf(MarkPiece(input.field, input.piece)) = SetPiece(BitsOf(input.field), input.piece)
             /\ BitsOf(MarkHave(input.field, input.piece)) = OrHave(BitsOf(input.field), input.piece)
  <2> DEFINE i == input.piece
  <2>1. input.field \in [0 .. FieldLength - 1 -> 0 .. 255] /\ i \in 0 .. 8 * FieldLength - 1
    BY <1>1, InputKind, CodecOK DEF FieldInputs
  <2>2. i % 8 \in 0 .. 7
    BY <2>1, PieceAt
  <2> HIDE DEF i
  <2>3. 7 - (i % 8) \in 0 .. 8 /\ 8 - (i % 8) \in 0 .. 8
    BY <2>2
  <2>4. BitsOf(OrByte(input.field, i, 7 - (i % 8))) = BitsOf(input.field) \cup Bit(i \div 8, 7 - (i % 8))
    BY <2>1, <2>3, UpdateBits
  <2>5. BitsOf(OrByte(input.field, i, 8 - (i % 8))) = BitsOf(input.field) \cup Bit(i \div 8, 8 - (i % 8))
    BY <2>1, <2>3, UpdateBits
  <2>6. QED
    BY <2>4, <2>5 DEF i, MarkPiece, MarkHave, SetPiece, OrHave
<1>2. InputOK => SameBits
  BY <1>1 DEF SameBits
<1>3. QED
  BY <1>2, InputAlways, PTL

-------------------------------------------------------------------------------
(* The handshake *)

\* The fields of a handshake are where the reader looks for them.
LEMMA HandshakeBytes ==
  ASSUME NEW pstr \in Seq(Int), NEW infoHash \in Seq(Int), Len(infoHash) = HashLength,
         NEW peerId \in Seq(Int), Len(peerId) = PeerIdLength
  PROVE  LET sent == SendHandshake(pstr, infoHash, peerId)
         IN  /\ sent \in Seq(Int) /\ Len(sent) = 49 + Len(pstr) /\ sent[1] = Len(pstr)
             /\ \A k \in 1 .. HashLength : sent[9 + Len(pstr) + k] = infoHash[k]
<1> DEFINE zeros == [k \in 1 .. ReservedLength |-> 0]
           a == <<Len(pstr)>> \o pstr
           b == a \o zeros
           c == b \o infoHash
           d == c \o peerId
<1>1. /\ Len(pstr) \in Nat /\ <<Len(pstr)>> \in Seq(Int) /\ Len(<<Len(pstr)>>) = 1
      /\ <<Len(pstr)>>[1] = Len(pstr)
  OBVIOUS
<1>2. zeros \in Seq(Int) /\ Len(zeros) = 8
  BY DEF ReservedLength
<1>3. a \in Seq(Int) /\ Len(a) = 1 + Len(pstr) /\ a[1] = Len(pstr)
  BY <1>1, Joined
<1>4. SendHandshake(pstr, infoHash, peerId) = d
  BY DEF SendHandshake
<1> HIDE DEF zeros, a
<1>5. b \in Seq(Int) /\ Len(b) = Len(a) + Len(zeros) /\ \A i \in 1 .. Len(a) : b[i] = a[i]
  BY <1>2, <1>3, Joined
<1> HIDE DEF b
<1>6. /\ c \in Seq(Int) /\ Len(c) = Len(b) + Len(infoHash) /\ \A i \in 1 .. Len(b) : c[i] = b[i]
      /\ \A i \in 1 .. Len(infoHash) : c[Len(b) + i] = infoHash[i]
  BY <1>5, Joined
<1> HIDE DEF c
<1>7. d \in Seq(Int) /\ Len(d) = Len(c) + Len(peerId) /\ \A i \in 1 .. Len(c) : d[i] = c[i]
  BY <1>6, Joined
<1> HIDE DEF d
<1>8. Len(a) = 1 + Len(pstr) /\ Len(b) = 9 + Len(pstr) /\ Len(c) = 29 + Len(pstr)
  BY <1>1, <1>2, <1>3, <1>5, <1>6 DEF HashLength
<1>9. d[1] = Len(pstr)
  <2>1. 1 \in 1 .. Len(a) /\ 1 \in 1 .. Len(b) /\ 1 \in 1 .. Len(c)
    BY <1>1, <1>8
  <2>2. QED
    BY <2>1, <1>3, <1>5, <1>6, <1>7
<1>10. ASSUME NEW k \in 1 .. HashLength
       PROVE  d[9 + Len(pstr) + k] = infoHash[k]
  <2>1. 9 + Len(pstr) + k \in 1 .. Len(c) /\ 9 + Len(pstr) + k = Len(b) + k /\ k \in 1 .. Len(infoHash)
    BY <1>1, <1>8 DEF HashLength
  <2>2. QED
    BY <2>1, <1>6, <1>7
<1>11. QED
  BY <1>1, <1>4, <1>7, <1>8, <1>9, <1>10 DEF HashLength, PeerIdLength

\* A client accepts the handshake of another if and only if they are about the same
\* torrent and one Read returns all of it, whatever the other fields are.
THEOREM HandshakeDecides ==
  ASSUME NEW pstr \in Seq(Int), NEW peerId \in Seq(Int), Len(peerId) = PeerIdLength,
         NEW ours \in Seq(Int), Len(ours) = HashLength,
         NEW theirs \in Seq(Int), Len(theirs) = HashLength,
         NEW n \in 0 .. 48 + Len(pstr)
  PROVE  AcceptsHandshake(SendHandshake(pstr, theirs, peerId), n, ours)
           <=> ours = theirs /\ n = 48 + Len(pstr)
<1> DEFINE sent == SendHandshake(pstr, theirs, peerId)
           response == SubSeq(sent, 2, 1 + n)
           start == Len(pstr) + ReservedLength
           hash == SubSeq(response, start + 1, start + HashLength)
<1>1. /\ sent \in Seq(Int) /\ Len(sent) = 49 + Len(pstr) /\ sent[1] = Len(pstr)
      /\ \A k \in 1 .. HashLength : sent[9 + Len(pstr) + k] = theirs[k]
  <2>1. sent \in Seq(Int) /\ Len(sent) = 49 + Len(pstr) /\ sent[1] = Len(pstr)
    BY HandshakeBytes
  <2>2. \A k \in 1 .. HashLength : sent[9 + Len(pstr) + k] = theirs[k]
    BY HandshakeBytes
  <2>3. QED
    BY <2>1, <2>2
<1> HIDE DEF sent
<1>2. AcceptsHandshake(sent, n, ours) <=> n = 48 + Len(pstr) /\ hash = ours
  <2>1. AcceptsHandshake(sent, n, ours) <=>
          /\ n = 49 + sent[1] - 1
          /\ SubSeq(response, sent[1] + ReservedLength + 1, sent[1] + ReservedLength + HashLength) = ours
    BY DEF AcceptsHandshake, HashStart
  <2> HIDE DEF response
  <2>2. sent[1] = Len(pstr) /\ Len(pstr) \in Nat
    BY <1>1
  <2>3. n = 49 + Len(pstr) - 1 <=> n = 48 + Len(pstr)
    BY <2>2
  <2>4. QED
    BY <2>1, <2>2, <2>3
<1>3. ASSUME n = 48 + Len(pstr)
      PROVE  hash = theirs
  <2>1. Len(pstr) \in Nat
    OBVIOUS
  <2>2. /\ response \in Seq(Int) /\ Len(response) = 48 + Len(pstr)
        /\ \A i \in 1 .. 48 + Len(pstr) : response[i] = sent[1 + i]
    BY <1>1, <1>3, <2>1
  <2> HIDE DEF response
  <2>3. \A k \in 1 .. HashLength : response[start + k] = theirs[k]
    <3>1. ASSUME NEW k \in 1 .. HashLength
          PROVE  start + k \in 1 .. 48 + Len(pstr) /\ 1 + (start + k) = 9 + Len(pstr) + k
      BY <2>1 DEF HashLength, ReservedLength
    <3> HIDE DEF start
    <3>2. QED
      BY <1>1, <2>2, <3>1
  <2>4. start \in Nat /\ start + Len(theirs) <= Len(response)
    BY <2>1, <2>2 DEF HashLength, ReservedLength
  <2> HIDE DEF start
  <2>5. QED
    BY <2>2, <2>3, <2>4, PartIs
<1>4. QED
  BY <1>2, <1>3 DEF sent

\* Of two clients each accepts the handshake of the other if and only if they are
\* about the same torrent and one Read returns all of it.
THEOREM HandshakesAgree == Spec => []HandshakeAgrees
<1>1. ASSUME InputOK, input.kind = "handshake"
      PROVE  AcceptsHandshake(SendHandshake(input.pstr, input.theirs, input.peerId), input.read, input.ours)
               <=> input.ours = input.theirs /\ input.read = 48 + Len(input.pstr)
  <2>1. /\ input.pstr \in PStrs /\ input.ours \in Hashes /\ input.theirs \in Hashes /\ input.peerId \in PeerIds
        /\ input.read \in 0 .. 48 + Len(input.pstr)
    BY <1>1, InputKind, CodecOK DEF HandshakeInputs
  <2>2. /\ input.pstr \in Seq(Int) /\ input.peerId \in Seq(Int) /\ Len(input.peerId) = PeerIdLength
        /\ input.ours \in Seq(Int) /\ Len(input.ours) = HashLength
        /\ input.theirs \in Seq(Int) /\ Len(input.theirs) = HashLength
    BY <2>1, CodecOK, BytesAreInts
  <2>3. QED
    BY <2>1, <2>2, HandshakeDecides
<1>2. InputOK => HandshakeAgrees
  BY <1>1 DEF HandshakeAgrees
<1>3. QED
  BY <1>2, InputAlways, PTL

-------------------------------------------------------------------------------
(* Messages *)

\* A number is its quotient and its remainder.
LEMMA Quotient ==
  ASSUME NEW n \in Nat
  PROVE  /\ n \div ByteValues \in Nat /\ n % ByteValues \in Byte
         /\ n = (n \div ByteValues) * ByteValues + (n % ByteValues)
<1>1. ByteValues \in Nat /\ ByteValues > 0
  BY WireOK
<1>2. n \div ByteValues \in Nat /\ n % ByteValues \in 0 .. ByteValues - 1
  BY <1>1
<1> DEFINE q == n \div ByteValues
           r == n - ByteValues * q
<1>3. q \in Nat
  BY <1>2
<1>4. r \in 0 .. ByteValues - 1
  <2>1. ByteValues * q <= n
    BY <1>1
  <2>2. n < ByteValues * q + ByteValues
    BY <1>1
  <2> HIDE DEF q
  <2>3. QED
    BY <1>1, <1>3, <2>1, <2>2
<1>5. n = ByteValues * q + r
  BY <1>1, <1>3
<1> HIDE DEF q, r
<1>6. (ByteValues * q + r) % ByteValues = r
  BY <1>1, <1>3, <1>4
<1>7. n = q * ByteValues + (n % ByteValues)
  <2>1. n % ByteValues = r
    BY <1>5, <1>6
  <2>2. n = q * ByteValues + r
    BY <1>1, <1>3, <1>4, <1>5
  <2>3. QED
    BY <1>1, <1>3, <1>4, <2>1, <2>2
<1>8. QED
  BY <1>1, <1>2, <1>7 DEF Byte, q

\* A number that is a byte is written as it is.
LEMMA OneByte ==
  ASSUME NEW n \in Byte
  PROVE  n % ByteValues = n
BY WireOK DEF Byte

\* What PutUint32 writes is four bytes, and Uint32 reads the number out of them.
LEMMA Uint32Written ==
  ASSUME NEW n \in 0 .. Uint32Values - 1
  PROVE  PutUint32(n) \in Seq(Byte) /\ Len(PutUint32(n)) = 4 /\ Uint32(PutUint32(n)) = n
<1> DEFINE by8  == n \div ByteValues
           by16 == by8 \div ByteValues
           by24 == by16 \div ByteValues
<1>1. ByteValues \in Nat /\ ByteValues > 0 /\ n \in Nat
  BY WireOK
<1>2. PutUint32(n) = <<by24 % ByteValues, by16 % ByteValues, by8 % ByteValues, n % ByteValues>>
  BY DEF PutUint32
<1>3. by8 \in Nat /\ n % ByteValues \in Byte /\ n = by8 * ByteValues + (n % ByteValues)
  BY <1>1, Quotient
<1>4. by8 < ByteValues * ByteValues * ByteValues
  <2>1. n < ByteValues * (ByteValues * ByteValues * ByteValues)
    BY <1>1 DEF Uint32Values
  <2>2. QED
    BY <1>1, <2>1
<1> HIDE DEF by8
<1>5. by16 \in Nat /\ by8 % ByteValues \in Byte /\ by8 = by16 * ByteValues + (by8 % ByteValues)
  BY <1>3, Quotient
<1>6. by16 < ByteValues * ByteValues
  <2>1. by8 < ByteValues * (ByteValues * ByteValues)
    BY <1>1, <1>4
  <2>2. QED
    BY <1>1, <1>3, <2>1
<1> HIDE DEF by16
<1>7. by24 \in Nat /\ by16 % ByteValues \in Byte /\ by16 = by24 * ByteValues + (by16 % ByteValues)
  BY <1>5, Quotient
<1>8. by24 < ByteValues
  BY <1>1, <1>5, <1>6
<1> HIDE DEF by24
<1>9. by24 % ByteValues = by24 /\ by24 \in Byte
  BY <1>1, <1>7, <1>8 DEF Byte
<1> DEFINE a == by16 % ByteValues  b == by8 % ByteValues  c == n % ByteValues
<1>10. PutUint32(n) = <<by24, a, b, c>>
  BY <1>2, <1>9
<1>11. a \in Byte /\ b \in Byte /\ c \in Byte
  BY <1>3, <1>5, <1>7
<1>12. n = by8 * ByteValues + c /\ by8 = by16 * ByteValues + b /\ by16 = by24 * ByteValues + a
  <2>1. n = by8 * ByteValues + c
    BY <1>1, <1>3
  <2>2. by8 = by16 * ByteValues + b
    BY <1>1, <1>3, <1>5
  <2>3. by16 = by24 * ByteValues + a
    BY <1>1, <1>5, <1>7
  <2>4. QED
    BY <2>1, <2>2, <2>3
<1> HIDE DEF a, b, c
<1>13. PutUint32(n) \in Seq(Byte) /\ Len(PutUint32(n)) = 4
  BY <1>9, <1>10, <1>11
<1>14. Uint32(PutUint32(n)) = ((by24 * ByteValues + a) * ByteValues + b) * ByteValues + c
  BY <1>10 DEF Uint32
<1>15. QED
  BY <1>12, <1>13, <1>14

\* A uint32 has more values than a byte.
LEMMA Uint32Wide == Uint32Values \in Nat /\ Uint32Values >= ByteValues
<1>1. ByteValues \in Nat /\ ByteValues >= 2
  BY WireOK
<1> DEFINE square == ByteValues * ByteValues
<1>2. square \in Nat /\ square >= ByteValues
  BY <1>1
<1> DEFINE cube == square * ByteValues
<1> HIDE DEF square
<1>3. cube \in Nat /\ cube >= ByteValues
  BY <1>1, <1>2
<1> HIDE DEF cube
<1>4. cube * ByteValues \in Nat /\ cube * ByteValues >= ByteValues
  BY <1>1, <1>3
<1>5. Uint32Values = cube * ByteValues
  BY DEF Uint32Values, cube, square
<1>6. QED
  BY <1>4, <1>5

\* The subtraction in Recv is exact, but for a length prefix of 0.
LEMMA DataLenIs ==
  ASSUME NEW prefix \in 0 .. Uint32Values - 1
  PROVE  DataLen(prefix) = IF prefix = 0 THEN Uint32Values - 1 ELSE prefix - 1
<1>1. Uint32Values \in Nat \ {0}
  BY Uint32Wide, WireOK
<1>2. CASE prefix = 0
  BY <1>1, <1>2 DEF DataLen
<1>3. CASE prefix # 0
  <2>1. prefix - 1 \in 0 .. Uint32Values - 1
    BY <1>1, <1>3
  <2>2. (prefix - 1) % Uint32Values = prefix - 1
    BY <1>1, <2>1
  <2>3. QED
    BY <1>3, <2>2 DEF DataLen
<1>4. QED
  BY <1>2, <1>3

\* A message of the protocol and what follows it.
Message(prefix, id, payload, next) == prefix \o <<id>> \o payload \o next

\* Its length, and where its parts are.
HasParts(stream, prefix, id, payload, next) ==
  /\ stream \in Seq(Int) /\ Len(stream) = 5 + Len(payload) + Len(next)
  /\ SubSeq(stream, 1, 4) = prefix /\ stream[5] = id
  /\ SubSeq(stream, 6, 5 + Len(payload)) = payload
  /\ SubSeq(stream, 6 + Len(payload), Len(stream)) = next

\* Where the parts of a message are: its prefix, its id, its payload and the rest.
LEMMA MessageParts ==
  ASSUME NEW prefix \in Seq(Int), Len(prefix) = 4, NEW id \in Int,
         NEW payload \in Seq(Int), NEW next \in Seq(Int)
  PROVE  HasParts(Message(prefix, id, payload, next), prefix, id, payload, next)
<1> DEFINE head == prefix \o <<id>>
           frame == head \o payload
           all == frame \o next
<1>1. Len(payload) \in Nat /\ Len(next) \in Nat /\ <<id>> \in Seq(Int) /\ Len(<<id>>) = 1 /\ <<id>>[1] = id
  OBVIOUS
<1>2. Message(prefix, id, payload, next) = all
  BY DEF Message
<1>3. head \in Seq(Int) /\ Len(head) = 5 /\ head[5] = id /\ \A i \in 1 .. 4 : head[i] = prefix[i]
  <2>1. /\ head \in Seq(Int) /\ Len(head) = Len(prefix) + Len(<<id>>)
        /\ \A i \in 1 .. Len(prefix) : head[i] = prefix[i]
        /\ \A i \in 1 .. Len(<<id>>) : head[Len(prefix) + i] = <<id>>[i]
    BY <1>1, Joined
  <2> HIDE DEF head
  <2>2. head[4 + 1] = id
    BY <1>1, <2>1
  <2>3. QED
    BY <1>1, <2>1, <2>2
<1> HIDE DEF head
<1>4. /\ frame \in Seq(Int) /\ Len(frame) = 5 + Len(payload)
      /\ \A i \in 1 .. 5 : frame[i] = head[i]
      /\ \A i \in 1 .. Len(payload) : frame[5 + i] = payload[i]
  <2>1. /\ frame \in Seq(Int) /\ Len(frame) = Len(head) + Len(payload)
        /\ \A i \in 1 .. Len(head) : frame[i] = head[i]
        /\ \A i \in 1 .. Len(payload) : frame[Len(head) + i] = payload[i]
    BY <1>3, Joined
  <2> HIDE DEF frame
  <2>2. QED
    BY <1>3, <2>1
<1> HIDE DEF frame
<1>5. /\ all \in Seq(Int) /\ Len(all) = 5 + Len(payload) + Len(next)
      /\ \A i \in 1 .. 5 + Len(payload) : all[i] = frame[i]
      /\ \A i \in 1 .. Len(next) : all[5 + Len(payload) + i] = next[i]
  <2>1. /\ all \in Seq(Int) /\ Len(all) = Len(frame) + Len(next)
        /\ \A i \in 1 .. Len(frame) : all[i] = frame[i]
        /\ \A i \in 1 .. Len(next) : all[Len(frame) + i] = next[i]
    BY <1>4, Joined
  <2> HIDE DEF all
  <2>2. QED
    BY <1>4, <2>1
<1> HIDE DEF all
<1>6. all[5] = id /\ SubSeq(all, 1, 4) = prefix
  <2>1. \A i \in 1 .. 5 : all[i] = head[i]
    <3>1. \A i \in 1 .. 5 : i \in 1 .. 5 + Len(payload)
      BY <1>1
    <3>2. QED
      BY <3>1, <1>4, <1>5
  <2>2. \A i \in 1 .. Len(prefix) : all[0 + i] = prefix[i]
    BY <2>1, <1>3
  <2>3. SubSeq(all, 0 + 1, 0 + Len(prefix)) = prefix
    <3>1. 0 \in Nat /\ 0 + Len(prefix) <= Len(all)
      BY <1>1, <1>5
    <3>2. QED
      BY <1>5, <2>2, <3>1, PartIs
  <2>4. QED
    BY <1>3, <2>1, <2>3
<1>7. SubSeq(all, 6, 5 + Len(payload)) = payload
  <2>1. \A i \in 1 .. Len(payload) : all[5 + i] = payload[i]
    <3>1. \A i \in 1 .. Len(payload) : 5 + i \in 1 .. 5 + Len(payload)
      BY <1>1
    <3>2. QED
      BY <3>1, <1>4, <1>5
  <2>2. SubSeq(all, 5 + 1, 5 + Len(payload)) = payload
    BY <1>1, <1>5, <2>1, PartIs
  <2>3. QED
    BY <2>2
<1>8. SubSeq(all, 6 + Len(payload), Len(all)) = next
  <2> DEFINE from == 5 + Len(payload)
  <2>1. from \in Nat /\ from + Len(next) = Len(all) /\ from + 1 = 6 + Len(payload)
    BY <1>1, <1>5
  <2>2. \A i \in 1 .. Len(next) : all[from + i] = next[i]
    BY <1>5
  <2> HIDE DEF from
  <2>3. SubSeq(all, from + 1, from + Len(next)) = next
    BY <1>5, <2>1, <2>2, PartIs
  <2>4. QED
    BY <2>1, <2>3
<1>9. QED
  BY <1>2, <1>5, <1>6, <1>7, <1>8 DEF HasParts

\* What Recv makes of a message it knows whose header its first Read returns: it fails
\* or returns as many bytes as the length prefix says.
LEMMA MessageTaken ==
  ASSUME NEW prefix \in Seq(Int), Len(prefix) = 4, NEW id \in Int, id <= Cancel,
         NEW payload \in Seq(Int), NEW next \in Seq(Int), NEW n \in Nat, n >= 5
  PROVE  LET stream == Message(prefix, id, payload, next)
             size   == DataLen(Uint32(prefix))
         IN  Recv(stream, n) =
               IF size > 2 * MaxRequestLength \/ Len(stream) < 5 + size THEN Refused
               ELSE Received(id, SubSeq(stream, 6, 5 + size), SubSeq(stream, 6 + size, Len(stream)))
<1> DEFINE stream == Message(prefix, id, payload, next)
<1>1. HasParts(stream, prefix, id, payload, next)
  BY MessageParts
<1> HIDE DEF stream
<1>2. ~ (n < 4) /\ n # 4 /\ ~ (id > Cancel)
  BY DEF Cancel
<1>3. QED
  BY <1>1, <1>2 DEF Recv, stream, HasParts

\* A message whose prefix is right is returned whole, if its length is legal.
LEMMA MessageReceived ==
  ASSUME NEW prefix \in Seq(Int), Len(prefix) = 4, NEW id \in Int, id <= Cancel,
         NEW payload \in Seq(Int), NEW next \in Seq(Int), NEW n \in Nat, n >= 5,
         Uint32(prefix) = 1 + Len(payload), 1 + Len(payload) < Uint32Values
  PROVE  Recv(Message(prefix, id, payload, next), n) =
           IF Len(payload) > 2 * MaxRequestLength THEN Refused ELSE Received(id, payload, next)
<1> DEFINE stream == Message(prefix, id, payload, next)
           size == DataLen(Uint32(prefix))
<1>1. Len(payload) \in Nat /\ Len(next) \in Nat /\ Uint32Values \in Nat
  BY Uint32Wide
<1>2. size = Len(payload)
  <2>1. 1 + Len(payload) \in 0 .. Uint32Values - 1 /\ 1 + Len(payload) # 0 /\ 1 + Len(payload) - 1 = Len(payload)
    BY <1>1
  <2>2. QED
    BY <2>1, DataLenIs
<1>3. HasParts(stream, prefix, id, payload, next)
  BY MessageParts
<1>4. Recv(stream, n) = IF size > 2 * MaxRequestLength \/ Len(stream) < 5 + size THEN Refused
                        ELSE Received(id, SubSeq(stream, 6, 5 + size), SubSeq(stream, 6 + size, Len(stream)))
  BY MessageTaken
<1> HIDE DEF stream, size
<1>5. ~ (Len(stream) < 5 + size)
  BY <1>1, <1>2, <1>3 DEF HasParts
<1>6. QED
  BY <1>2, <1>3, <1>4, <1>5 DEF stream, HasParts

\* A message that SendData writes, and what is sent after it.
Stream(id, payload, next) == SendData(id, payload) \o next

\* Its length prefix is one byte after three zeros.
LEMMA StreamIs ==
  ASSUME NEW id \in Int, NEW payload \in Seq(Int), NEW next \in Seq(Int)
  PROVE  LET x == (1 + Len(payload)) % ByteValues
         IN  /\ Stream(id, payload, next) = Message(<<0, 0, 0, x>>, id, payload, next)
             /\ x \in Byte /\ <<0, 0, 0, x>> \in Seq(Int) /\ Len(<<0, 0, 0, x>>) = 4
             /\ Uint32(<<0, 0, 0, x>>) = x
<1> DEFINE x == (1 + Len(payload)) % ByteValues
<1>1. x \in Byte /\ x \in Int /\ ByteValues \in Nat
  BY WireOK DEF Byte
<1>2. Stream(id, payload, next) = <<0, 0, 0, x, id>> \o payload \o next
  BY DEF Stream, SendData, Frame
<1> HIDE DEF x
<1>3. <<0, 0, 0, x, id>> = <<0, 0, 0, x>> \o <<id>>
  BY <1>1
<1>4. Stream(id, payload, next) = Message(<<0, 0, 0, x>>, id, payload, next)
  BY <1>2, <1>3 DEF Message
<1>5. Uint32(<<0, 0, 0, x>>) = x
  BY <1>1 DEF Uint32
<1>6. <<0, 0, 0, x>> \in Seq(Int) /\ Len(<<0, 0, 0, x>>) = 4
  BY <1>1
<1>7. QED
  BY <1>1, <1>4, <1>5, <1>6 DEF x

\* Recv returns the messages of legal length that SendData writes, if one byte holds the
\* length of the message (peer.go:159).
THEOREM SentIsReceived ==
  ASSUME NEW id \in 0 .. Cancel, NEW payload \in Seq(Int), NEW next \in Seq(Int),
         Len(payload) <= 2 * MaxRequestLength, Len(payload) <= ByteValues - 2,
         NEW n \in Nat, n >= 5
  PROVE  Recv(Stream(id, payload, next), n) = Received(id, payload, next)
<1> DEFINE x == (1 + Len(payload)) % ByteValues
           prefix == <<0, 0, 0, x>>
           stream == Message(prefix, id, payload, next)
<1>1. /\ Len(payload) \in Nat /\ ByteValues \in Nat /\ ByteValues >= 2 /\ id \in Int /\ id <= Cancel
      /\ MaxRequestLength \in Nat /\ Uint32Values \in Nat /\ Uint32Values >= ByteValues
  BY WireOK, DataOK, Uint32Wide DEF Cancel
<1>2. Stream(id, payload, next) = stream /\ prefix \in Seq(Int) /\ Len(prefix) = 4 /\ Uint32(prefix) = x
  BY <1>1, StreamIs
<1> HIDE DEF prefix
<1>3. x = 1 + Len(payload) /\ 1 + Len(payload) < Uint32Values
  <2>1. 1 + Len(payload) \in Byte /\ 1 + Len(payload) < Uint32Values
    BY <1>1 DEF Byte
  <2>2. (1 + Len(payload)) % ByteValues = 1 + Len(payload)
    BY <2>1, OneByte
  <2>3. QED
    BY <1>1, <2>1, <2>2
<1> HIDE DEF x
<1>4. Recv(stream, n) = IF Len(payload) > 2 * MaxRequestLength THEN Refused ELSE Received(id, payload, next)
  BY <1>1, <1>2, <1>3, MessageReceived
<1> HIDE DEF stream
<1>5. QED
  BY <1>1, <1>2, <1>4

\* What SendData is given is read by the remote, if one byte holds its length.
THEOREM SentIsAlwaysRead == Spec => []SentIsRead
<1>1. ASSUME InputOK, input.kind = "message", input.id \in 0 .. Cancel,
             Len(input.payload) <= 2 * MaxRequestLength, Len(input.payload) <= ByteValues - 2
      PROVE  Recv(SendData(input.id, input.payload) \o input.next, 5)
               = Received(input.id, input.payload, input.next)
  <2>1. input.payload \in Payloads \cup {<<>>} /\ input.next \in Nexts
    BY <1>1, InputKind DEF MessageInputs
  <2>2. input.payload \in Seq(Int) /\ input.next \in Seq(Int)
    <3>1. Payloads \subseteq Seq(Byte) /\ Nexts \subseteq Seq(Byte) /\ <<>> \in Seq(Byte)
      BY CodecOK
    <3>2. input.payload \in Seq(Byte) /\ input.next \in Seq(Byte)
      BY <2>1, <3>1
    <3>3. QED
      BY <3>2, BytesAreInts
  <2>3. Recv(Stream(input.id, input.payload, input.next), 5) = Received(input.id, input.payload, input.next)
    BY <1>1, <2>2, SentIsReceived
  <2>4. QED
    BY <2>3 DEF Stream
<1>2. InputOK => SentIsRead
  BY <1>1 DEF SentIsRead
<1>3. QED
  BY <1>2, InputAlways, PTL

\* A keep alive and what follows it.
LEMMA KeepAliveTaken ==
  ASSUME NEW next \in Seq(Int), NEW n \in 1 .. 5
  PROVE  Recv(PutUint32(0) \o next, n) = IF n = 4 THEN Received(KeepAlive, <<>>, next) ELSE Refused
<1> DEFINE zeros == PutUint32(0)
           stream == zeros \o next
<1>1. 0 \in 0 .. Uint32Values - 1 /\ Uint32Values \in Nat /\ MaxRequestLength \in Nat
      /\ Uint32Values - 1 > 2 * MaxRequestLength
  BY Uint32Wide, WireOK, DataOK, CodecOK
<1>2. zeros \in Seq(Byte) /\ Len(zeros) = 4 /\ Uint32(zeros) = 0
  BY <1>1, Uint32Written
<1>3. zeros \in Seq(Int)
  BY <1>2, BytesAreInts
<1> HIDE DEF zeros
<1>4. /\ stream \in Seq(Int) /\ Len(stream) = 4 + Len(next)
      /\ \A i \in 1 .. 4 : stream[i] = zeros[i]
      /\ \A i \in 1 .. Len(next) : stream[4 + i] = next[i]
  <2>1. /\ stream \in Seq(Int) /\ Len(stream) = Len(zeros) + Len(next)
        /\ \A i \in 1 .. Len(zeros) : stream[i] = zeros[i]
        /\ \A i \in 1 .. Len(next) : stream[Len(zeros) + i] = next[i]
    BY <1>3, Joined
  <2> HIDE DEF stream
  <2>2. QED
    BY <1>2, <2>1
<1> HIDE DEF stream
<1>5. SubSeq(stream, 1, 4) = zeros
  <2>1. SubSeq(stream, 0 + 1, 0 + Len(zeros)) = zeros
    BY <1>2, <1>3, <1>4, PartIs
  <2>2. QED
    BY <1>2, <2>1
<1>6. SubSeq(stream, 5, Len(stream)) = next
  <2>1. SubSeq(stream, 4 + 1, 4 + Len(next)) = next
    BY <1>4, PartIs
  <2>2. QED
    BY <1>4, <2>1
<1>7. DataLen(0) = Uint32Values - 1
  BY <1>1, DataLenIs
<1>8. Recv(stream, n) = IF n = 4 THEN Received(KeepAlive, <<>>, next) ELSE Refused
  <2>1. CASE n < 4
    BY <2>1 DEF Recv
  <2>2. CASE n = 4
    <3>1. Recv(stream, 4) = Received(KeepAlive, <<>>, SubSeq(stream, 5, Len(stream)))
      BY DEF Recv
    <3>2. QED
      BY <1>6, <2>2, <3>1
  <2>3. CASE n = 5
    <3>1. DataLen(Uint32(SubSeq(stream, 1, 4))) > 2 * MaxRequestLength
      BY <1>1, <1>2, <1>5, <1>7
    <3>2. QED
      BY <2>3, <3>1 DEF Recv
  <2>4. QED
    BY <2>1, <2>2, <2>3
<1>9. QED
  BY <1>8 DEF stream, zeros

\* Recv returns the messages that conform to the protocol as they were sent, or fails,
\* unless its first Read stops after four bytes of a longer message.
THEOREM RecvAlwaysInSync == Spec => []RecvInSync
<1> DEFINE m == input
           stream == Conforming(m.id, m.payload) \o m.next
           result == Recv(stream, m.read)
           sent == Received(m.id, m.payload, m.next)
<1>1. ASSUME InputOK, input.kind = "message", input.id <= Cancel
      PROVE  /\ m.id = KeepAlive \/ m.read # 4 => result \in {sent, Refused}
             /\ m.id # KeepAlive /\ m.read = 5 /\ Len(m.payload) <= 2 * MaxRequestLength => result = sent
  <2>1. /\ m.id \in Ids \cup {KeepAlive} /\ m.payload \in Payloads \cup {<<>>} /\ m.next \in Nexts
        /\ m.read \in 1 .. 5 /\ (m.id = KeepAlive => m.payload = <<>>)
    BY <1>1, InputKind DEF MessageInputs
  <2>2. /\ m.id # KeepAlive => m.id \in Int /\ m.id \in Byte
        /\ m.payload \in Seq(Int) /\ m.next \in Seq(Int)
        /\ 1 + Len(m.payload) \in 0 .. Uint32Values - 1
    <3>1. /\ Ids \subseteq Byte /\ Payloads \subseteq Seq(Byte) /\ Nexts \subseteq Seq(Byte) /\ <<>> \in Seq(Byte)
          /\ \A p \in Payloads : Len(p) + 1 < Uint32Values
      BY CodecOK
    <3>2. (m.id # KeepAlive => m.id \in Byte) /\ m.payload \in Seq(Byte) /\ m.next \in Seq(Byte)
      BY <2>1, <3>1
    <3>3. Len(m.payload) + 1 < Uint32Values
      <4>1. Len(<<>>) + 1 < Uint32Values
        <5>1. Len(<<>>) = 0 /\ 1 < Uint32Values
          BY WireOK, Uint32Wide
        <5>2. QED
          BY <5>1
      <4>2. QED
        BY <2>1, <3>1, <4>1
    <3>4. 1 + Len(m.payload) \in 0 .. Uint32Values - 1
      BY <3>2, <3>3, Uint32Wide
    <3>5. QED
      BY <3>2, <3>4, BytesAreInts
  <2>3. CASE m.id = KeepAlive
    <3>1. stream = PutUint32(0) \o m.next /\ m.payload = <<>>
      BY <2>1, <2>3 DEF Conforming
    <3>2. result = IF m.read = 4 THEN Received(KeepAlive, <<>>, m.next) ELSE Refused
      BY <2>1, <2>2, <3>1, KeepAliveTaken
    <3>3. QED
      BY <2>3, <3>1, <3>2
  <2>4. CASE m.id # KeepAlive
    <3> DEFINE prefix == PutUint32(1 + Len(m.payload))
    <3>1. prefix \in Seq(Int) /\ Len(prefix) = 4 /\ Uint32(prefix) = 1 + Len(m.payload)
      BY <2>2, Uint32Written, BytesAreInts
    <3>2. stream = Message(prefix, m.id, m.payload, m.next)
      BY <2>4 DEF Conforming, Message
    <3> HIDE DEF prefix, stream
    <3>3. CASE m.read = 5
      <4>1. Recv(stream, 5) = IF Len(m.payload) > 2 * MaxRequestLength THEN Refused ELSE sent
        <5>1. 1 + Len(m.payload) < Uint32Values /\ 5 \in Nat /\ 5 >= 5
          BY <2>2, Uint32Wide
        <5>2. QED
          BY <1>1, <2>2, <2>4, <3>1, <3>2, <5>1, MessageReceived
      <4>2. Len(m.payload) \in Nat /\ MaxRequestLength \in Nat
        BY <2>2, DataOK
      <4>3. QED
        BY <3>3, <4>1, <4>2
    <3>4. CASE m.read < 4
      BY <2>4, <3>4 DEF Recv
    <3>5. CASE m.read = 4
      BY <2>4, <3>5
    <3>6. QED
      BY <2>1, <3>3, <3>4, <3>5
  <2>5. QED
    BY <2>3, <2>4
<1>2. InputOK => RecvInSync
  BY <1>1 DEF RecvInSync
<1>3. QED
  BY <1>2, InputAlways, PTL

\* FlattenSeq of three sequences joins them.
LEMMA FlattenThree ==
  ASSUME NEW s \in Seq(Seq(Int)), Len(s) = 3
  PROVE  FlattenSeq(s) = s[1] \o s[2] \o s[3]
<1> DEFINE Unfolds(f) == f = [i \in 1 .. 3 |-> IF i = 1 THEN s[i] ELSE f[i - 1] \o s[i]]
           a == s[1]
           b == a \o s[2]
           c == b \o s[3]
           w == [i \in 1 .. 3 |-> IF i = 1 THEN a ELSE IF i = 2 THEN b ELSE c]
           flatten == CHOOSE f : Unfolds(f)
<1>1. Unfolds(w)
  <2>1. w[1] = a /\ w[2] = b /\ w[3] = c
    OBVIOUS
  <2>2. ASSUME NEW i \in 1 .. 3
        PROVE  w[i] = IF i = 1 THEN s[i] ELSE w[i - 1] \o s[i]
    <3> HIDE DEF w
    <3>1. CASE i = 1
      BY <2>1, <3>1, Zenon
    <3>2. CASE i = 2
      <4>1. i # 1 /\ i - 1 = 1
        BY <3>2
      <4>2. QED
        BY <2>1, <3>2, <4>1, Zenon
    <3>3. CASE i = 3
      <4>1. i # 1 /\ i - 1 = 2
        BY <3>3
      <4>2. QED
        BY <2>1, <3>3, <4>1, Zenon
    <3>4. QED
      BY <3>1, <3>2, <3>3
  <2>3. w = [i \in 1 .. 3 |-> w[i]]
    OBVIOUS
  <2> HIDE DEF w
  <2>4. QED
    BY <2>2, <2>3, Zenon
<1>2. Unfolds(flatten)
  BY <1>1, Zenon
<1>3. FlattenSeq(s) = flatten[3]
  BY DEF FlattenSeq
<1> HIDE DEF flatten
<1>4. flatten[1] = s[1] /\ flatten[2] = flatten[1] \o s[2] /\ flatten[3] = flatten[2] \o s[3]
  <2>1. \A i \in 1 .. 3 : flatten[i] = IF i = 1 THEN s[i] ELSE flatten[i - 1] \o s[i]
    BY <1>2, Zenon
  <2>2. 1 \in 1 .. 3 /\ 2 \in 1 .. 3 /\ 3 \in 1 .. 3 /\ 2 # 1 /\ 3 # 1 /\ 2 - 1 = 1 /\ 3 - 1 = 2
    OBVIOUS
  <2>3. QED
    BY <2>1, <2>2, Zenon
<1>5. flatten[3] = s[1] \o s[2] \o s[3]
  <2>1. flatten[2] = s[1] \o s[2]
    BY <1>4, Zenon
  <2>2. QED
    BY <1>4, <2>1, Zenon
<1>6. QED
  BY <1>3, <1>5, Zenon

\* FlattenSeq of one sequence is that sequence, and of none the empty one.
LEMMA FlattenOne ==
  ASSUME NEW s \in Seq(Seq(Int)), Len(s) \in {0, 1}
  PROVE  FlattenSeq(s) = IF Len(s) = 0 THEN <<>> ELSE s[1]
<1>1. CASE Len(s) = 0
  <2>1. s = <<>>
    BY <1>1
  <2>2. QED
    BY <2>1 DEF FlattenSeq
<1>2. CASE Len(s) = 1
  <2> DEFINE Unfolds(f) == f = [i \in 1 .. 1 |-> IF i = 1 THEN s[i] ELSE f[i - 1] \o s[i]]
             w == [i \in 1 .. 1 |-> s[1]]
             flatten == CHOOSE f : Unfolds(f)
  <2>1. Unfolds(w)
    OBVIOUS
  <2>2. Unfolds(flatten)
    BY <2>1, Zenon
  <2>3. Len(s) # 0 /\ s # <<>>
    <3>1. Len(<<>>) = 0
      OBVIOUS
    <3>2. Len(s) # 0
      BY <1>2
    <3>3. QED
      BY <3>1, <3>2, Zenon
  <2>4. FlattenSeq(s) = flatten[1]
    BY <1>2, <2>3 DEF FlattenSeq
  <2> HIDE DEF flatten
  <2>5. 1 \in 1 .. 1
    OBVIOUS
  <2>6. flatten[1] = s[1]
    BY <2>2, <2>5, Zenon
  <2>7. QED
    BY <2>3, <2>4, <2>6
<1>3. QED
  BY <1>1, <1>2

\* What is in a sequence is of its set.
LEMMA ElementsIn ==
  ASSUME NEW S, NEW s \in Seq(S)
  PROVE  Len(s) \in Nat /\ \A k \in 1 .. Len(s) : s[k] \in S
OBVIOUS

\* What Send writes of its arguments.
Flat(args) == FlattenSeq([k \in 1 .. Len(args) |-> PutUint32(args[k])])

\* Every argument takes four bytes, out of which Uint32 reads it.
LEMMA ArgumentBytes ==
  ASSUME NEW args \in Seq(0 .. Uint32Values - 1), Len(args) \in {0, 1, 3}
  PROVE  /\ Flat(args) \in Seq(Int) /\ Len(Flat(args)) = 4 * Len(args)
         /\ \A k \in 1 .. Len(args) : Uint32(SubSeq(Flat(args), 4 * k - 3, 4 * k)) = args[k]
<1> DEFINE s == [k \in 1 .. Len(args) |-> PutUint32(args[k])]
<1>1. Len(args) \in Nat /\ \A k \in 1 .. Len(args) : args[k] \in 0 .. Uint32Values - 1
  BY ElementsIn
<1>2. \A k \in 1 .. Len(args) :
        PutUint32(args[k]) \in Seq(Int) /\ Len(PutUint32(args[k])) = 4 /\ Uint32(PutUint32(args[k])) = args[k]
  BY <1>1, Uint32Written, BytesAreInts
<1>3. /\ s \in Seq(Seq(Int)) /\ Len(s) = Len(args)
      /\ \A k \in 1 .. Len(args) : s[k] \in Seq(Int) /\ Len(s[k]) = 4 /\ Uint32(s[k]) = args[k]
  BY <1>1, <1>2
<1>4. Flat(args) = FlattenSeq(s)
  BY DEF Flat
<1> HIDE DEF s
<1>5. CASE Len(args) = 0
  <2>1. Flat(args) = <<>>
    BY <1>3, <1>4, <1>5, FlattenOne
  <2>2. <<>> \in Seq(Int) /\ Len(<<>>) = 4 * 0 /\ 1 .. 0 = {}
    OBVIOUS
  <2>3. QED
    BY <1>5, <2>1, <2>2
<1>6. CASE Len(args) = 1
  <2>1. Flat(args) = s[1] /\ 1 \in 1 .. Len(args)
    BY <1>3, <1>4, <1>6, FlattenOne
  <2>2. SubSeq(s[1], 1, 4) = s[1]
    <3>1. s[1] \in Seq(Int) /\ Len(s[1]) = 4
      BY <1>3, <2>1
    <3>2. \A i \in 1 .. Len(s[1]) : s[1][0 + i] = s[1][i]
      BY <3>1
    <3>3. SubSeq(s[1], 0 + 1, 0 + Len(s[1])) = s[1]
      BY <3>1, <3>2, PartIs
    <3>4. QED
      BY <3>1, <3>3
  <2>3. \A k \in 1 .. Len(args) : k = 1 /\ 4 * k - 3 = 1 /\ 4 * k = 4
    BY <1>6
  <2>4. QED
    BY <1>3, <1>6, <2>1, <2>2, <2>3
<1>7. CASE Len(args) = 3
  <2>1. 1 \in 1 .. Len(args) /\ 2 \in 1 .. Len(args) /\ 3 \in 1 .. Len(args)
    BY <1>7
  <2> DEFINE ab == s[1] \o s[2]
             abc == ab \o s[3]
  <2>0. /\ s[1] \in Seq(Int) /\ Len(s[1]) = 4 /\ s[2] \in Seq(Int) /\ Len(s[2]) = 4
        /\ s[3] \in Seq(Int) /\ Len(s[3]) = 4
    BY <1>3, <2>1
  <2>2. Flat(args) = abc
    BY <1>3, <1>4, <1>7, FlattenThree
  <2>3. ab \in Seq(Int) /\ Len(ab) = 8
        /\ \A i \in 1 .. 4 : ab[i] = s[1][i] /\ ab[4 + i] = s[2][i]
    <3>1. /\ ab \in Seq(Int) /\ Len(ab) = Len(s[1]) + Len(s[2])
          /\ \A i \in 1 .. Len(s[1]) : ab[i] = s[1][i]
          /\ \A i \in 1 .. Len(s[2]) : ab[Len(s[1]) + i] = s[2][i]
      BY <2>0, Joined
    <3> HIDE DEF ab
    <3>2. QED
      BY <2>0, <3>1
  <2> HIDE DEF ab
  <2>4. abc \in Seq(Int) /\ Len(abc) = 12
        /\ (\A i \in 1 .. 8 : abc[i] = ab[i]) /\ \A i \in 1 .. 4 : abc[8 + i] = s[3][i]
    <3>1. /\ abc \in Seq(Int) /\ Len(abc) = Len(ab) + Len(s[3])
          /\ \A i \in 1 .. Len(ab) : abc[i] = ab[i]
          /\ \A i \in 1 .. Len(s[3]) : abc[Len(ab) + i] = s[3][i]
      BY <2>0, <2>3, Joined
    <3> HIDE DEF abc
    <3>2. abc \in Seq(Int) /\ Len(abc) = 12
      BY <2>0, <2>3, <3>1
    <3>3. Len(ab) = 8 /\ Len(s[3]) = 4
      BY <2>0, <2>3
    <3>4. (\A i \in 1 .. 8 : abc[i] = ab[i]) /\ \A i \in 1 .. 4 : abc[8 + i] = s[3][i]
      BY <3>1, <3>3, Zenon
    <3>5. QED
      BY <3>2, <3>4
  <2> HIDE DEF abc
  <2>5. \A i \in 1 .. 4 : abc[i] = s[1][i] /\ abc[4 + i] = s[2][i] /\ abc[8 + i] = s[3][i]
    <3>1. ASSUME NEW i \in 1 .. 4
          PROVE  i \in 1 .. 8 /\ 4 + i \in 1 .. 8
      OBVIOUS
    <3>2. QED
      BY <2>3, <2>4, <3>1
  <2>6. ASSUME NEW k \in 1 .. 3
        PROVE  SubSeq(abc, 4 * k - 3, 4 * k) = s[k]
    <3> DEFINE from == 4 * k - 4
    <3>1. \A i \in 1 .. 4 : abc[from + i] = s[k][i]
      <4>1. CASE k = 1
        BY <2>5, <4>1
      <4>2. CASE k = 2
        BY <2>5, <4>2
      <4>3. CASE k = 3
        BY <2>5, <4>3
      <4>4. QED
        BY <4>1, <4>2, <4>3
    <3>2. from \in Nat /\ from + 4 <= 12 /\ from + 1 = 4 * k - 3 /\ from + 4 = 4 * k
      OBVIOUS
    <3> HIDE DEF from
    <3>3. s[k] \in Seq(Int) /\ Len(s[k]) = 4
      BY <1>3, <1>7
    <3>4. from + Len(s[k]) <= Len(abc) /\ \A i \in 1 .. Len(s[k]) : abc[from + i] = s[k][i]
      BY <2>4, <3>1, <3>2, <3>3
    <3>5. SubSeq(abc, from + 1, from + Len(s[k])) = s[k]
      BY <2>4, <3>2, <3>3, <3>4, PartIs
    <3>6. QED
      BY <3>2, <3>3, <3>5
  <2>7. \A k \in 1 .. Len(args) : Uint32(SubSeq(abc, 4 * k - 3, 4 * k)) = args[k]
    BY <1>3, <1>7, <2>6
  <2>8. QED
    BY <1>7, <2>2, <2>4, <2>7
<1>8. QED
  BY <1>5, <1>6, <1>7

\* A message that is written is not empty.
LEMMA FrameIsSome ==
  ASSUME NEW id, NEW payload \in Seq(Int)
  PROVE  Frame(id, payload) # <<>>
<1> DEFINE head == <<0, 0, 0, (1 + Len(payload)) % ByteValues, id>>
<1>1. Len(head \o payload) = 5 + Len(payload) /\ Len(payload) \in Nat
  OBVIOUS
<1>2. Len(head \o payload) # 0 /\ Len(<<>>) = 0
  BY <1>1
<1>3. QED
  BY <1>2 DEF Frame

\* A message of Send with its numbers is what Recv returns, and the numbers are in it.
LEMMA NumbersReceived ==
  ASSUME NEW id \in 0 .. Cancel, NEW args \in Seq(0 .. Uint32Values - 1), Len(args) \in {0, 1, 3},
         NEW next \in Seq(Int)
  PROVE  LET result == Recv(Frame(id, Flat(args)) \o next, 5)
         IN  /\ result.is = "message" /\ result.id = id /\ result.rest = next
             /\ Len(result.data) = 4 * Len(args)
             /\ \A k \in 1 .. Len(args) : Uint32(SubSeq(result.data, 4 * k - 3, 4 * k)) = args[k]
<1> DEFINE flat == Flat(args)
           result == Recv(Frame(id, flat) \o next, 5)
<1>1. /\ flat \in Seq(Int) /\ Len(flat) = 4 * Len(args)
      /\ \A k \in 1 .. Len(args) : Uint32(SubSeq(flat, 4 * k - 3, 4 * k)) = args[k]
  <2>1. flat \in Seq(Int) /\ Len(flat) = 4 * Len(args)
    BY ArgumentBytes
  <2>2. \A k \in 1 .. Len(args) : Uint32(SubSeq(flat, 4 * k - 3, 4 * k)) = args[k]
    BY ArgumentBytes
  <2>3. QED
    BY <2>1, <2>2
<1>2. Frame(id, flat) \o next = Stream(id, flat, next)
  BY DEF Stream, SendData
<1> HIDE DEF flat
<1>3. Len(flat) <= 2 * MaxRequestLength /\ Len(flat) <= ByteValues - 2
  <2>1. Len(flat) <= 12
    <3>1. 4 * 0 <= 12 /\ 4 * 1 <= 12 /\ 4 * 3 <= 12
      OBVIOUS
    <3>2. QED
      BY <1>1, <3>1
  <2>2. 12 <= 2 * MaxRequestLength /\ 13 < ByteValues /\ MaxRequestLength \in Nat /\ ByteValues \in Nat
    BY CodecOK, DataOK, WireOK
  <2>3. Len(flat) \in Nat
    BY <1>1
  <2>4. QED
    BY <2>1, <2>2, <2>3
<1>4. result = Received(id, flat, next)
  <2>1. 5 \in Nat /\ 5 >= 5
    OBVIOUS
  <2>2. Recv(Stream(id, flat, next), 5) = Received(id, flat, next)
    BY <1>1, <1>3, <2>1, SentIsReceived
  <2>3. QED
    BY <1>2, <2>2
<1> HIDE DEF result
<1>5. result.is = "message" /\ result.id = id /\ result.rest = next /\ result.data = flat
  BY <1>4 DEF Received
<1>6. QED
  BY <1>1, <1>5 DEF result, flat

\* A message of Send without numbers is what Recv returns, with nothing in it.
LEMMA BareReceived ==
  ASSUME NEW id \in 0 .. Cancel, NEW next \in Seq(Int)
  PROVE  LET result == Recv(Frame(id, <<>>) \o next, 5)
         IN  result.is = "message" /\ result.id = id /\ result.rest = next /\ Len(result.data) = 0
<1>1. /\ Flat(<<>>) = <<>>
      /\ <<>> \in Seq(0 .. Uint32Values - 1) /\ Len(<<>>) = 0
  <2>1. <<>> \in Seq(Seq(Int)) /\ Len(<<>>) = 0 /\ <<>> \in Seq(0 .. Uint32Values - 1)
    OBVIOUS
  <2>2. FlattenSeq(<<>>) = <<>>
    BY <2>1, FlattenOne
  <2>3. QED
    BY <2>1, <2>2 DEF Flat
<1>2. \A args \in Seq(0 .. Uint32Values - 1) :
        (args = <<>> /\ Len(args) = 0) =>
          LET result == Recv(Frame(id, Flat(args)) \o next, 5)
          IN  result.is = "message" /\ result.id = id /\ result.rest = next /\ Len(result.data) = 0
  <2>1. SUFFICES ASSUME NEW args \in Seq(0 .. Uint32Values - 1), Len(args) = 0
                 PROVE  LET result == Recv(Frame(id, Flat(args)) \o next, 5)
                        IN  /\ result.is = "message" /\ result.id = id /\ result.rest = next
                            /\ Len(result.data) = 0
    OBVIOUS
  <2> DEFINE result == Recv(Frame(id, Flat(args)) \o next, 5)
  <2>2. Len(args) \in {0, 1, 3}
    BY <2>1
  <2>3. result.is = "message" /\ result.id = id /\ result.rest = next /\ Len(result.data) = 4 * Len(args)
    BY <2>2, NumbersReceived
  <2> HIDE DEF result
  <2>4. Len(result.data) = 0
    BY <2>1, <2>3
  <2>5. QED
    BY <2>3, <2>4 DEF result
<1>3. QED
  BY <1>1, <1>2

\* A message that Send writes reaches the remote with the numbers its kind has, and the
\* next message starts after them; nothing is written with the wrong count of numbers,
\* and of a message that is not for Send.
THEOREM NumbersAlwaysArrive == Spec => []NumbersArrive
<1> DEFINE id == input.id
           args == input.args
           sent == Send(id, args)
           count == Carries(id)
           result == Recv(sent \o input.next, IF id = KeepAlive THEN 4 ELSE 5)
           Arrives == /\ sent # <<>>
                      /\ result.is = "message" /\ result.id = id /\ result.rest = input.next
                      /\ Len(result.data) = 4 * count
                      /\ \A k \in 1 .. count : Uint32(SubSeq(result.data, 4 * k - 3, 4 * k)) = args[k]
           ForSend == id \in {KeepAlive} \cup 0 .. 3 \/ (count > 0 /\ Len(args) = count)
<1>1. ASSUME InputOK, input.kind = "command"
      PROVE  IF ForSend THEN Arrives ELSE sent = <<>>
  <2>1. /\ id \in Byte \cup {KeepAlive} /\ args \in Seq(0 .. Uint32Values - 1) /\ Len(args) \in {0, 1, 3}
        /\ input.next \in Seq(Int)
    <3>1. id \in Ids \cup {KeepAlive} /\ args \in Arguments /\ input.next \in Nexts
      BY <1>1, InputKind DEF CommandInputs
    <3>2. Ids \subseteq Byte /\ Nexts \subseteq Seq(Byte)
      BY CodecOK
    <3>3. args \in Seq(0 .. Uint32Values - 1) /\ Len(args) \in {0, 1, 3}
      BY <3>1, CodecOK
    <3>4. QED
      BY <3>1, <3>2, <3>3, BytesAreInts
  <2>2. id \in Int /\ KeepAlive = -1 /\ (id = KeepAlive \/ id \in Nat)
    BY <2>1, WireOK DEF Byte, KeepAlive
  <2>3. count = IF id = 4 THEN 1 ELSE IF id \in {6, 8} THEN 3 ELSE 0
    BY <2>2 DEF Carries, Have, Request, Cancel
  <2>4. NumbersOf(id) = count
    BY <2>2, <2>3 DEF NumbersOf, Have, Request, Cancel
  <2> HIDE DEF id, args
  <2>5. CASE id = KeepAlive
    <3>1. sent = <<0, 0, 0, 0>> /\ sent = PutUint32(0) /\ count = 0
      <4>1. <<0, 0, 0, 0>> = PutUint32(0)
        BY WireOK DEF PutUint32
      <4>2. QED
        BY <2>2, <2>3, <2>5, <4>1 DEF Send
    <3>2. result = Received(KeepAlive, <<>>, input.next)
      <4>1. 4 \in 1 .. 5 /\ input.next \in Seq(Int)
        BY <2>1
      <4>2. Recv(PutUint32(0) \o input.next, 4) = Received(KeepAlive, <<>>, input.next)
        BY <4>1, KeepAliveTaken
      <4>3. QED
        BY <2>5, <3>1, <4>2
    <3>3. Arrives
      <4> HIDE DEF result, sent, count
      <4>1. result.is = "message" /\ result.id = id /\ result.rest = input.next /\ result.data = <<>>
        BY <2>5, <3>2 DEF Received
      <4>2. sent # <<>>
        BY <3>1
      <4>3. QED
        BY <3>1, <4>1, <4>2
    <3>4. QED
      BY <2>5, <3>3
  <2>6. CASE id \in 0 .. 3
    <3>1. sent = Frame(id, <<>>) /\ count = 0 /\ id # KeepAlive
      BY <2>2, <2>3, <2>6 DEF Send
    <3>2. <<>> \in Seq(0 .. Uint32Values - 1) /\ Len(<<>>) = 0 /\ Flat(<<>>) = <<>> /\ id \in 0 .. Cancel
      <4>1. Flat(<<>>) = FlattenSeq(<<>>)
        BY DEF Flat
      <4>2. <<>> \in Seq(Seq(Int)) /\ Len(<<>>) = 0
        OBVIOUS
      <4>3. FlattenSeq(<<>>) = <<>>
        BY <4>2, FlattenOne
      <4>4. QED
        BY <2>6, <4>1, <4>3 DEF Cancel
    <3>3. /\ result.is = "message" /\ result.id = id /\ result.rest = input.next
          /\ Len(result.data) = 4 * 0
      BY <2>1, <3>1, <3>2, BareReceived
    <3>4. sent # <<>>
      <4>1. <<>> \in Seq(Int)
        OBVIOUS
      <4>2. QED
        BY <3>1, <4>1, FrameIsSome
    <3> HIDE DEF result, sent, count
    <3>5. Arrives
      BY <3>1, <3>3, <3>4
    <3>6. QED
      BY <2>6, <3>5
  <2>7. CASE id \in {4, 6, 8} /\ Len(args) = count
    <3>1. /\ sent = Frame(id, Flat(args)) /\ id # KeepAlive /\ id \in 0 .. Cancel /\ count > 0
      BY <2>2, <2>3, <2>4, <2>7 DEF Send, Flat, Have, Request, Cancel
    <3>2. /\ result.is = "message" /\ result.id = id /\ result.rest = input.next
          /\ Len(result.data) = 4 * Len(args)
          /\ \A k \in 1 .. Len(args) : Uint32(SubSeq(result.data, 4 * k - 3, 4 * k)) = args[k]
      BY <2>1, <3>1, NumbersReceived
    <3>3. sent # <<>>
      <4>1. Len(args) \in {0, 1, 3}
        BY <2>1
      <4>2. Flat(args) \in Seq(Int)
        BY <2>1, <4>1, ArgumentBytes
      <4>3. QED
        BY <3>1, <4>2, FrameIsSome
    <3> HIDE DEF result, sent, count
    <3>4. Arrives
      BY <2>7, <3>2, <3>3
    <3>5. QED
      BY <2>7, <3>1, <3>4
  <2>8. CASE id \notin {KeepAlive} \cup 0 .. 3 /\ ~ (id \in {4, 6, 8} /\ Len(args) = count)
    <3>1. sent = <<>>
      BY <2>2, <2>4, <2>8 DEF Send, Have, Request, Cancel
    <3>2. ~ ForSend
      <4>1. count > 0 => id \in {4, 6, 8}
        BY <2>3
      <4> HIDE DEF count
      <4>2. QED
        BY <2>8, <4>1
    <3>3. QED
      BY <3>1, <3>2
  <2>9. QED
    BY <2>2, <2>5, <2>6, <2>7, <2>8
<1>2. InputOK => NumbersArrive
  BY <1>1 DEF NumbersArrive
<1>3. QED
  BY <1>2, InputAlways, PTL

===============================================================================
