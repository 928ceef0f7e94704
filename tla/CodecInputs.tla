------------------------------ MODULE CodecInputs ------------------------------
(***************************************************************************)
(* Codec together with the bencode parser, which has a module of its own    *)
(* for its inputs and invariants because it is made of RECURSIVE operators. *)
(***************************************************************************)
EXTENDS Codec, Bencode

-------------------------------------------------------------------------------
(* Bencode.  An element is its encoding and what it means; hasString tells that *)
(* it holds a string, and whole that no list or dictionary in it is empty and   *)
(* that only its outermost level holds strings.                                 *)

IntOf(n) ==
  [enc |-> "i" \o ToString(n) \o "e", means |-> [int |-> n], hasString |-> FALSE, whole |-> TRUE]
StrOf(s) == [enc |-> Pattern(s), means |-> [string |-> s], hasString |-> FALSE, whole |-> TRUE]
ListOf(vs) ==
  [enc |-> "l" \o FoldLeft(LAMBDA s, v : s \o v.enc, "", vs) \o "e",
   means |-> [list |-> [k \in DOMAIN vs |-> vs[k].means]],
   hasString |-> \E k \in DOMAIN vs : vs[k].hasString \/ "string" \in DOMAIN vs[k].means,
   whole |-> vs # <<>> /\ \A k \in DOMAIN vs : vs[k].whole /\ ~ vs[k].hasString]
DictOf(keys, vs) ==
  [enc |-> "d" \o FoldLeftDomain(LAMBDA s, k : s \o Pattern(keys[k]) \o vs[k].enc, "", vs) \o "e",
   means |-> [dict |-> [key \in Range(keys) |-> vs[CHOOSE k \in DOMAIN keys : keys[k] = key].means]],
   hasString |-> TRUE, whole |-> FALSE]

Atoms == {IntOf(1), IntOf(-20), StrOf(""), StrOf("e"), StrOf("1:")}
Flat == {ListOf(vs) : vs \in BoundedSeq(Atoms, 2)}
Dicts(S) == UNION {{DictOf(keys, vs) : vs \in [DOMAIN keys -> S]} : keys \in {<<"a">>, <<"a", "be">>, <<"i1e">>}}
Deep == {ListOf(vs) : vs \in BoundedSeq(Atoms \cup Flat \cup Dicts(Atoms), 2)}

PickElement ==
  \E v \in Atoms \cup Flat \cup Deep \cup Dicts(Atoms \cup Flat), tail \in {"", "e", "1:a"} :
    input' = [kind |-> "element", element |-> v, tail |-> tail]

\* bencode.go:106-166: GetNext cuts the first element off what follows it, for
\* integers, strings and every nesting of lists of integers: only a string inside of
\* a list or a dictionary confuses its indices.
NextExact ==
  input.kind = "element" /\ ~ input.element.hasString =>
    GetNext(input.element.enc \o input.tail) = Value(input.element.enc)

\* bencode.go:19-104: Decode returns what an integer, a string or a list means, if no
\* list in it is empty and its strings are on its outermost level.
DecodeExact ==
  input.kind = "element" /\ input.element.whole =>
    Decode(input.element.enc) = Value(input.element.means)

-------------------------------------------------------------------------------
(* Answers of a tracker and torrent files.                                      *)

\* The bytes of zero, one, two and three peers, of which some read like a key or
\* like a failure; and a length that is no multiple of 6.
PeerBytes == {"", "1.2.ab", "1.2.ab3.4.cd", "8:completei9e6:abc", "failure reason.cdx", "1.2.a"}
Numbers == <<"complete", "incomplete", "interval">>

PickAnswer ==
  \E order \in {o \in [1 .. 3 -> 1 .. 3] : IsInjective(o)}, peers \in PeerBytes, known \in 0 .. 3 :
    input' = [kind |-> "answer", keys |-> SubSeq([k \in 1 .. 3 |-> Numbers[order[k]]], 1, known),
              peers |-> peers]

\* tracker.go:173-210, bencode.go:510-624: an answer with the three numbers and, after
\* them, peers in the binary model is read as it was meant, whatever the bytes of the
\* peers look like, but for "failure reason" in them; the numbers of such an answer are
\* stored even if its peers are refused.  An answer without one of the numbers is an
\* error, unless those bytes read like the missing key.
AnswerRight ==
  input.kind = "answer" =>
    LET number == [key \in Range(Numbers) |-> 10 * Len(key)]
        values == [k \in DOMAIN input.keys |-> IntOf(number[input.keys[k]])]
        body   == DictOf(Append(input.keys, "peers"), Append(values, StrOf(input.peers))).enc
        PeerAt(i) == [host |-> SubSeq(input.peers, i + 1, i + 4), port |-> SubSeq(input.peers, i + 5, i + 6)]
        counts == [interval |-> number["interval"], seeders |-> number["complete"],
                   leechers |-> number["incomplete"]]
        peers  == {PeerAt(i) : i \in {j \in 0 .. Len(input.peers) - 1 : j % 6 = 0}}
        Counted == Len(input.keys) = 3 /\ Occurs(input.peers, "failure reason") = {}
        Whole   == Len(input.peers) % 6 = 0
        Lacks(key) == key \notin Range(input.keys) /\ Occurs(input.peers, Pattern(key)) = {}
    IN  /\ Counted => TrackerCounts(body) = Value(counts)
        /\ Counted /\ Whole => TrackerAnswer(body) = Value(peers)
        /\ ~ Whole \/ (\E key \in Range(Numbers) : Lacks(key)) =>
             TrackerAnswer(body) \in {Fails, NotFound}

\* The dictionary "info" of a torrent with one file, with its keys in order or not.
PickTorrent ==
  \E name \in {"", "a", "ie", "4:namei1e", "6:length", "5:filesle"}, length \in {1, 25}, sorted \in BOOLEAN :
    input' = [kind |-> "torrent", name |-> name, length |-> length, sorted |-> sorted]

\* bencode.go:364-384, 451-482: the one file of a torrent gets the name and the length
\* that "info" has, whatever the name looks like; but for the key "files" in it, and
\* "length" when it is in front of the length.
SingleFileRight ==
  input.kind = "torrent" =>
    LET size == IntOf(input.length)  name == StrOf(input.name)  pieces == IntOf(8)
        info == IF input.sorted
                THEN DictOf(<<"length", "name", "piece length">>, <<size, name, pieces>>)
                ELSE DictOf(<<"name", "piece length", "length">>, <<name, pieces, size>>)
        Misleads(key) == Occurs(input.name, Pattern(key)) # {}
    IN  ~ Misleads("files") /\ (input.sorted \/ ~ Misleads("length")) =>
          InfoFiles(info.enc) = Value(<<[length |-> input.length, path |-> <<input.name>>]>>)
-------------------------------------------------------------------------------
PickCode ==
  /\ input.kind = "none"
  /\ PickElement \/ PickAnswer \/ PickTorrent

\* One input of Codec or of the parser.
InputSpec == Init /\ [][Next \/ PickCode]_input
===============================================================================
