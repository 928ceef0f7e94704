------------------------------- MODULE Bencode -------------------------------
(***************************************************************************)
(* The parser of bencode.go.  Content is a string, indices count from 0 as  *)
(* in the code.  A result is a value, an error (a panic the code recovers   *)
(* from included), or endless: GetNext may jump back and never return.      *)
(***************************************************************************)
EXTENDS Integers, SequencesExt

Fails == [is |-> "error"]
NotFound == [is |-> "NotFoundError"]
Endless == [is |-> "endless"]
Value(v) == [is |-> "value", value |-> v]

\* "if err != nil { return err }", and else what is done with the value.
Then(result, F(_)) == IF result.is = "value" THEN F(result.value) ELSE result

\* Slices of content: from the index on, the first n bytes, one byte.
From(content, index) == SubSeq(content, index + 1, Len(content))
First(content, n) == SubSeq(content, 1, n)
ByteAt(content, index) == SubSeq(content, index + 1, index + 1)

\* content[start:end]; Go panics when the bounds are wrong.
Slice(content, start, end) ==
  IF start <= end /\ end <= Len(content) THEN Value(SubSeq(content, start + 1, end)) ELSE Fails

\* Mutant of Inside: the "e" stays.
Inside_KeepEnd(content) == SubSeq(content, 2, Len(content))

\* Removes the letter at the start and the "e" at the end of a structure.
Inside(content) == SubSeq(content, 2, Len(content) - 1)

\* The indices at which the pattern occurs, and the first of them.
Occurs(content, pattern) ==
  {k \in 0 .. Len(content) - Len(pattern) :
     SubSeq(content, k + 1, k + Len(pattern)) = pattern}
IndexOf(content, pattern) ==
  IF Occurs(content, pattern) = {} THEN Fails ELSE Value(Min(Occurs(content, pattern)))

IsDigit(byte) == \E d \in 0 .. 9 : ToString(d) = byte
Digit(byte) == CHOOSE d \in 0 .. 9 : ToString(d) = byte

\* strconv.Atoi and ParseInt on a run of digits that may start with a minus: their
\* other forms, a plus and an overflow, are not used.
Digits(text) ==
  Len(text) > 0 /\ \A k \in 0 .. Len(text) - 1 : IsDigit(ByteAt(text, k))
Number(text) ==
  FoldLeft(LAMBDA n, d : 10 * n + d, 0, [k \in 1 .. Len(text) |-> Digit(ByteAt(text, k - 1))])
Atoi(text) ==
  IF Digits(text) THEN Value(Number(text))
  ELSE IF Len(text) > 0 /\ ByteAt(text, 0) = "-" /\ Digits(From(text, 1))
         THEN Value(- Number(From(text, 1)))
  ELSE Fails

\* getStringIndices: where the string at the start of content begins and ends.
GetStringIndices(content) ==
  Then(IndexOf(content, ":"), LAMBDA colon :
    Then(Atoi(First(content, colon)), LAMBDA length :
      Value([start |-> colon + 1, end |-> colon + 1 + length])))

-------------------------------------------------------------------------------
\* GetNext, where a string that starts at index at is skipped to: its end in the
\* slice that begins at the string, used as an index of the whole content.
AfterString(at, end) == end

\* Mutant of Opened: a list does not open a structure.
Opened_DictOnly(byte) == byte = "d"

\* The bytes that open a structure.
Opened(byte) == byte \in {"d", "l"}

\* The index GetNext goes on with after the element, or the letter, at index at.
Skip(content, at) ==
  LET byte == ByteAt(content, at)
  IN  IF Opened(byte) \/ byte = "e" THEN Value(at + 1)
      ELSE IF byte = "i" THEN
        Then(IndexOf(From(content, at), "e"), LAMBDA k : Value(at + k + 1))
      ELSE IF IsDigit(byte) THEN
        Then(GetStringIndices(From(content, at)), LAMBDA text : Value(AfterString(at, text.end)))
      ELSE Fails

\* The structures that are open after the byte.
OpenAfter(byte, openCount) ==
  openCount + (IF Opened(byte) THEN 1 ELSE IF byte = "e" THEN -1 ELSE 0)

\* The loop of GetNext from index at, with openCount structures open; seen holds the
\* rounds before.  An index that is met again with no fewer structures open is met
\* for ever.
RECURSIVE Scan(_, _, _, _)
Scan(content, at, openCount, seen) ==
  LET open == OpenAfter(ByteAt(content, at), openCount)
  IN  IF \E n \in 0 .. openCount : <<at, n>> \in seen THEN Endless
      ELSE IF at >= Len(content) \/ open < 0 THEN Fails
      ELSE Then(Skip(content, at), LAMBDA index :
             IF open = 0 THEN Slice(content, 0, index)
             ELSE Scan(content, index, open, seen \cup {<<at, openCount>>}))

\* GetNext: the bytes of the structure at the start of content.
GetNext(content) == Scan(content, 0, 0, {})

-------------------------------------------------------------------------------
RECURSIVE Decode(_), ListItems(_, _), DictItems(_, _, _)

\* The loop of Decode over the inside of a list.
ListItems(content, items) ==
  Then(GetNext(content), LAMBDA bytes :
    Then(Decode(bytes), LAMBDA item :
      IF Len(bytes) = Len(content) THEN Value([list |-> Append(items, item)])
      ELSE ListItems(From(content, Len(bytes)), Append(items, item))))

\* GetDictInterfaces, "offset += len(valueBytes)"
NextOffset(offset, end, length) == offset + length

\* GetDictInterfaces on the inside of a dictionary: start and end are indices from
\* offset on, used as indices of content.
DictItems(content, offset, entries) ==
  Then(GetStringIndices(From(content, offset)), LAMBDA text :
    Then(Slice(content, text.start, text.end), LAMBDA key :
      Then(GetNext(From(content, text.end)), LAMBDA bytes :
        Then(Decode(bytes), LAMBDA item :
          LET after == NextOffset(offset, text.end, Len(bytes))
          IN  IF after >= Len(content) THEN Value([dict |-> (key :> item) @@ entries])
              ELSE DictItems(content, after, (key :> item) @@ entries)))))

\* Decode; an empty list or dictionary is an error, and so is what is too short.
Decode(content) ==
  LET byte == ByteAt(content, 0)
  IN  IF Len(content) < 2 \/ (byte = "d" /\ Len(content) < 3) THEN Fails
      ELSE IF byte = "d" THEN DictItems(Inside(content), 0, <<>>)
      ELSE IF byte = "l" THEN ListItems(Inside(content), <<>>)
      ELSE IF byte = "i" THEN
        Then(IndexOf(content, "e"), LAMBDA end :
          Then(Atoi(SubSeq(content, 2, end)), LAMBDA n : Value([int |-> n])))
      ELSE IF IsDigit(byte) THEN
        Then(GetStringIndices(content), LAMBDA text :
          Then(Slice(content, text.start, text.end), LAMBDA s : Value([string |-> s])))
      ELSE Fails

-------------------------------------------------------------------------------
\* The bytes a key is looked for by: its length, a colon, its name.
Pattern(key) == ToString(Len(key)) \o ":" \o key

\* Mutant of GetDictValue: the last occurrence of the pattern is taken.
GetDictValue_Last(content, key) ==
  IF Occurs(content, Pattern(key)) = {} THEN NotFound
  ELSE GetNext(From(content, Max(Occurs(content, Pattern(key))) + Len(Pattern(key))))

\* GetDictValue: what follows the first occurrence of the pattern in content.
GetDictValue(content, key) ==
  IF Occurs(content, Pattern(key)) = {} THEN NotFound
  ELSE Then(IndexOf(content, Pattern(key)), LAMBDA k : GetNext(From(content, k + Len(Pattern(key)))))

\* GetDictInterface
GetDictInterface(content, key) == Then(GetDictValue(content, key), Decode)

\* GetInt
GetInt(content, key) ==
  Then(GetDictValue(content, key), LAMBDA bytes :
    IF Len(bytes) >= 3 /\ ByteAt(bytes, 0) = "i" /\ ByteAt(bytes, Len(bytes) - 1) = "e"
    THEN Atoi(Inside(bytes)) ELSE Fails)

\* GetString
GetString(content, key) ==
  Then(GetDictValue(content, key), LAMBDA bytes :
    Then(GetStringIndices(bytes), LAMBDA text : Slice(bytes, text.start, text.end)))

-------------------------------------------------------------------------------
\* A file of the list "files": its length is an integer, its path a list of strings.
IsFile(v) ==
  /\ "dict" \in DOMAIN v /\ {"length", "path"} \subseteq DOMAIN v.dict
  /\ "int" \in DOMAIN v.dict["length"] /\ "list" \in DOMAIN v.dict["path"]
  /\ \A k \in DOMAIN v.dict["path"].list : "string" \in DOMAIN v.dict["path"].list[k]
FileOf(v) ==
  [length |-> v.dict["length"].int,
   path   |-> [k \in DOMAIN v.dict["path"].list |-> v.dict["path"].list[k].string]]

\* The single file of a torrent that has no list of files.
SingleFile(info) ==
  Then(GetString(info, "name"), LAMBDA name :
    Then(GetInt(info, "length"), LAMBDA length :
      Value(<<[length |-> length, path |-> <<name>>]>>)))

\* The files of a list of them; anything else in it is an error.
FileList(v) ==
  IF "list" \in DOMAIN v /\ \A k \in DOMAIN v.list : IsFile(v.list[k])
  THEN Value([k \in DOMAIN v.list |-> FileOf(v.list[k])]) ELSE Fails

\* GetFiles after it has found the dictionary "info".
InfoFiles(info) ==
  IF GetDictValue(info, "files") = NotFound THEN SingleFile(info)
  ELSE Then(GetDictInterface(info, "files"), FileList)

\* The files of a torrent file, Index excepted.
GetFiles(content) == Then(GetDictValue(content, "info"), InfoFiles)

-------------------------------------------------------------------------------
\* The i-th group of 6 bytes of the binary model, of which the first is at index start.
Group(bytes, start, i) == SubSeq(bytes, start + 1 + 6 * i, start + 6 + 6 * i)

\* A peer is the key it has in the map of getPeers: its address and its port.
BinaryPeers(bytes) ==
  Then(GetStringIndices(bytes), LAMBDA text :
    LET length == text.end - text.start
        Peer(group) == [host |-> First(group, 4), port |-> From(group, 4)]
    IN  IF length % 6 # 0 THEN Fails
        ELSE Value({Peer(Group(bytes, text.start, i)) : i \in 0 .. length \div 6 - 1}))

\* A peer of the dictionary model; its port is cut to 16 bits.
IsPeer(v) ==
  /\ "dict" \in DOMAIN v /\ {"ip", "port"} \subseteq DOMAIN v.dict
  /\ "string" \in DOMAIN v.dict["ip"] /\ "int" \in DOMAIN v.dict["port"]
PeerOf(v) == [host |-> v.dict["ip"].string, port |-> ToString(v.dict["port"].int % 2 ^ 16)]

\* getPeers, in either model.
GetPeers(body) ==
  Then(GetDictValue(body, "peers"), LAMBDA bytes :
    IF ByteAt(bytes, 0) = "l" THEN
      Then(Decode(bytes), LAMBDA v :
        IF \A k \in DOMAIN v.list : IsPeer(v.list[k])
        THEN Value({PeerOf(v.list[k]) : k \in DOMAIN v.list}) ELSE Fails)
    ELSE IF IsDigit(ByteAt(bytes, 0)) THEN BinaryPeers(bytes)
    ELSE Fails)

\* The numbers in the body of an answer, which trackerRequest stores in the Tracker
\* before it looks at the peers.
TrackerCounts(body) ==
  IF Occurs(body, "failure reason") # {} THEN Fails
  ELSE Then(GetInt(body, "interval"), LAMBDA interval :
         Then(GetInt(body, "complete"), LAMBDA complete :
           Then(GetInt(body, "incomplete"), LAMBDA incomplete :
             Value([interval |-> interval, seeders |-> complete, leechers |-> incomplete]))))

\* What trackerRequest makes of the body: the peers of an answer with all the numbers,
\* or an error, after which the numbers may be new and the peers the old ones.
TrackerAnswer(body) == Then(TrackerCounts(body), LAMBDA counts : GetPeers(body))
===============================================================================
