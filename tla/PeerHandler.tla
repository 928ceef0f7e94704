------------------------------ MODULE PeerHandler ------------------------------
(***************************************************************************)
(* peer.Handler and the two goroutines it starts, for every remote peer of  *)
(* one torrent (internal/peer/handler.go):                                  *)
(*                                                                          *)
(*   remote --wire--> reader --readCh--> handler --downCh--> downloader     *)
(*     ^                                  |  ^                  |           *)
(*     |                          parentCh|  |childCh           |parentCh   *)
(*     +------------- requests -----------|--|------------------+           *)
(*                                  torrent.Handler                         *)
(*                                                                          *)
(* Every step is one uninterrupted stretch of a goroutine: it ends where    *)
(* the goroutine blocks on a channel or leaves a critical section.          *)
(* The torrent handler and the remote peers are added by module Download.   *)
(***************************************************************************)
EXTENDS Bitfield, Sequences, FiniteSets

CONSTANTS
  Peers,             \* the remote peers; one peer.Handler is started for each
  NumHashes,         \* len(tor.Pieces)
  PieceLength,       \* tor.PieceLength, in bytes
  TotalLength,       \* the sum of the file lengths: the initial Tracker.Left
  FirstLength,       \* the length of the first file
  MaxRequestLength,  \* torrent.MaxRequestLength, in bytes
  ChanSize,          \* com.ChanSize, the capacity of every channel
  Unreliable         \* bound: the peers whose connection may fail

ASSUME ParametersOK ==
  /\ NumHashes \in Nat
  /\ PieceLength \in Nat \ {0}
  /\ TotalLength \in Nat /\ FirstLength \in Nat
  /\ MaxRequestLength \in Nat \ {0}
  /\ ChanSize \in Nat \ {0}
  /\ Unreliable \subseteq Peers

VARIABLES
  hpc, hmsg,          \* handler: control point, message it is passing on
  rpc, rmsg,          \* reader: control point, message it is passing on
  dpc,                \* downloader: control point
  piece, begin, plen, \* downloader: pieceIndex, begin, pieceLength
  choking,            \* Peer.PeerChoking
  remoteBits,         \* Peer.RemoteBitField
  have, downloading,  \* Tracker.BitFieldHave, Tracker.BitFieldDownloading
  left,               \* Tracker.Left
  disk,               \* the blocks WriteData has written to the files
  readCh, downCh,     \* readChannel, downloadChannel
  parentCh,           \* comPeerHandler.Parent
  children,           \* the keys of comPeerHandler.children
  childCh, closed,    \* the channels of that map, and which of them are closed
  wire, requests,     \* the connection: messages to us, Request messages sent
  announced,          \* history: the pieces announced to the torrent handler
  crashed             \* the process has panicked

downloaderVars == <<piece, begin, plen>>
trackerVars    == <<have, downloading, left, disk>>
mapVars        == <<children, childCh, closed>>
runVars == <<hpc, hmsg, rpc, rmsg, dpc, downloaderVars, choking, remoteBits,
             trackerVars, readCh, downCh, parentCh, mapVars, wire, requests,
             announced>>
phVars == <<runVars, crashed>>

-------------------------------------------------------------------------------
(* Messages *)

\* What a Request asks for and a Piece message carries.
Block == [index : Nat, begin : Nat, length : Nat]

\* The messages the handler passes on to the downloader.
Forwarded == {"Choke", "UnChoke", "Interested", "NotInterested", "Piece"}

\* What Recv returns.  "Other" stands for KeepAlive, Request and Cancel, whose
\* handling changes no state of this client; "Truncated" for a Have of fewer than
\* 4 bytes and a Request of 8 to 11; "Err" is a non-nil error; ok says whether the
\* SHA-1 of the message's data equals the hash of the piece.  "Unknown" is a
\* message with an id above 8 on the connection.
Message ==
  [id : {"Choke", "UnChoke", "Interested", "NotInterested", "Other", "Truncated", "Unknown", "Err"}]
    \cup [id : {"Have"}, index : Nat]
    \cup [id : {"Bitfield"}, length : Nat, bits : SUBSET Nat]
    \cup [id : {"Piece"}, block : Block, ok : BOOLEAN]

\* Messages on comPeerHandler.
ParentMessage ==
  [id : {"Success", "TotalFailure"}] \cup [id : {"Exiting"}, child : Peers]
    \cup [id : {"Have"}, index : Nat]
ChildMessage == [id : {"Quit"}] \cup [id : {"Have"}, index : Nat]

Idle == [id |-> "Other"]   \* the content of hmsg and rmsg when unused

HandlerPC == {"handshake", "register", "loop", "forward", "fail", "exit",
              "closing", "deleting", "done"}
ReaderPC  == {"off", "recv", "put", "done"}
DownloaderPC == {"off", "pick", "check", "ask", "awaitUnchoke", "awaitPiece",
                 "finish", "giveUp", "announce", "done"}

ControlOK ==
  hpc \in [Peers -> HandlerPC] /\ rpc \in [Peers -> ReaderPC] /\ dpc \in [Peers -> DownloaderPC]
PipelineOK ==
  /\ hmsg \in [Peers -> Message] /\ rmsg \in [Peers -> Message]
  /\ readCh \in [Peers -> Seq(Message)] /\ downCh \in [Peers -> Seq(Message)]
  /\ wire \in [Peers -> Seq(Message)]
DownloaderOK ==
  /\ piece \in [Peers -> Nat] /\ begin \in [Peers -> Nat] /\ plen \in [Peers -> Int]
  /\ requests \in [Peers -> Seq(Block)]
PeerOK == choking \in [Peers -> BOOLEAN] /\ remoteBits \in [Peers -> SUBSET Nat]
TrackerOK ==
  /\ have \in SUBSET Nat /\ downloading \in SUBSET Nat /\ left \in Int
  /\ disk \in SUBSET Block /\ announced \in Seq(Nat)
ComOK ==
  /\ parentCh \in Seq(ParentMessage) /\ children \in SUBSET Peers
  /\ childCh \in [Peers -> Seq(ChildMessage)] /\ closed \in [Peers -> BOOLEAN]

TypeOK ==
  /\ ControlOK /\ PipelineOK /\ DownloaderOK /\ PeerOK /\ TrackerOK /\ ComOK
  /\ crashed \in BOOLEAN

PHInit ==
  /\ hpc = [p \in Peers |-> "handshake"] /\ hmsg = [p \in Peers |-> Idle]
  /\ rpc = [p \in Peers |-> "off"] /\ rmsg = [p \in Peers |-> Idle]
  /\ dpc = [p \in Peers |-> "off"]
  /\ piece = [p \in Peers |-> 0] /\ begin = [p \in Peers |-> 0]
  /\ plen = [p \in Peers |-> 0]
  /\ choking = [p \in Peers |-> TRUE] /\ remoteBits = [p \in Peers |-> {}]
  /\ have = {} /\ downloading = {} /\ left = TotalLength /\ disk = {}
  /\ readCh = [p \in Peers |-> <<>>] /\ downCh = [p \in Peers |-> <<>>]
  /\ parentCh = <<>> /\ children = {}
  /\ childCh = [p \in Peers |-> <<>>] /\ closed = [p \in Peers |-> FALSE]
  /\ wire = [p \in Peers |-> <<>>] /\ requests = [p \in Peers |-> <<>>]
  /\ announced = <<>> /\ crashed = FALSE

-------------------------------------------------------------------------------
(* Control points *)

HandlerStep(p, from, to) == hpc[p] = from /\ hpc' = [hpc EXCEPT ![p] = to]
ReaderStep(p, from, to) == rpc[p] = from /\ rpc' = [rpc EXCEPT ![p] = to]
DownloaderStep(p, from, to) == dpc[p] = from /\ dpc' = [dpc EXCEPT ![p] = to]

\* A send on a buffered channel goes through when the buffer has room.
Room(ch) == Len(ch) < ChanSize
SendParent(msg) == Room(parentCh) /\ parentCh' = Append(parentCh, msg)

\* Peer.Handshake returns an error: of the connection, a deadline, a short read,
\* or an info hash that differs.
HandshakeFails(p) == p \in Unreliable

\* The connection to p is up from the handshake to the end of the handler.
Connected(p) == hpc[p] \notin {"handshake", "done"}

-------------------------------------------------------------------------------
(* The handler goroutine.  HandlerNext adds what none of its steps changes. *)

\* The handshake succeeds or fails, and the outcome is reported.
Handshake(p) ==
  /\ \/ HandlerStep(p, "handshake", "register") /\ SendParent([id |-> "Success"])
     \/ /\ HandshakeFails(p)
        /\ HandlerStep(p, "handshake", "done") /\ SendParent([id |-> "TotalFailure"])
  /\ UNCHANGED <<hmsg, rpc, dpc, choking, remoteBits, readCh, downCh, mapVars, crashed>>

\* AddChild, the Interested and UnChoke messages, a zeroed RemoteBitField, and
\* the two goroutines.
Register(p) ==
  /\ HandlerStep(p, "register", "loop")
  /\ children' = children \cup {p}
  /\ childCh' = [childCh EXCEPT ![p] = <<>>]
  /\ remoteBits' = [remoteBits EXCEPT ![p] = {}]
  /\ DownloaderStep(p, "off", "pick")
  /\ ReaderStep(p, "off", "recv")
  /\ UNCHANGED <<hmsg, choking, readCh, downCh, parentCh, closed, crashed>>

\* "received := <-readChannel" with one of the given message ids.
Received(p) == Head(readCh[p])
Receive(p, ids) ==
  /\ hpc[p] = "loop"
  /\ readCh[p] # <<>> /\ Received(p).id \in ids
  /\ readCh' = [readCh EXCEPT ![p] = Tail(@)]
  /\ UNCHANGED <<rpc, dpc, downCh, parentCh, mapVars>>

\* Mutant of AfterFlag: an UnChoke only updates the flag.
AfterFlag_DropUnChoke(id) == IF id = "UnChoke" THEN "loop" ELSE "forward"

\* What follows the update of the flag: passing the message on.
AfterFlag(id) == "forward"

\* Choke, UnChoke, Interested, NotInterested and Piece: first the flag of the
\* Peer is updated, then the message is passed on to the downloader.
\* (PeerInterested is written here and read nowhere.)
HandleForwarded(p) ==
  /\ Receive(p, Forwarded)
  /\ choking' = [choking EXCEPT ![p] =
       CASE Received(p).id = "Choke" -> TRUE [] Received(p).id = "UnChoke" -> FALSE [] OTHER -> @]
  /\ HandlerStep(p, "loop", AfterFlag(Received(p).id))
  /\ hmsg' = [hmsg EXCEPT ![p] = Received(p)]
  /\ UNCHANGED <<remoteBits, crashed>>

\* "downloadChannel <- received"
Forward(p) ==
  /\ HandlerStep(p, "forward", "loop")
  /\ Room(downCh[p])
  /\ downCh' = [downCh EXCEPT ![p] = Append(@, hmsg[p])]
  /\ hmsg' = [hmsg EXCEPT ![p] = Idle]
  /\ UNCHANGED <<rpc, dpc, choking, remoteBits, readCh, parentCh, mapVars, crashed>>

\* Have: an index outside of the bit field ends the handler, unless it slips
\* through the length check and the process panics.
HandleHave(p) ==
  /\ Receive(p, {"Have"})
  /\ LET i == Received(p).index IN
       \/ /\ ~ HaveFits(i, NumHashes)
          /\ HandlerStep(p, "loop", "fail")
          /\ UNCHANGED <<remoteBits, crashed>>
       \/ HavePanics(i, NumHashes) /\ crashed' = TRUE /\ UNCHANGED <<hpc, remoteBits>>
       \/ /\ HaveFits(i, NumHashes) /\ ~ HavePanics(i, NumHashes)
          /\ remoteBits' = [remoteBits EXCEPT ![p] = OrHave(@, i)]
          /\ UNCHANGED <<hpc, crashed>>
  /\ UNCHANGED <<hmsg, choking>>

\* Bitfield: taken over when its length is the expected one.
HandleBitfield(p) ==
  /\ Receive(p, {"Bitfield"})
  /\ remoteBits' = [remoteBits EXCEPT ![p] =
       IF Received(p).length = BitFieldLength(NumHashes) THEN Received(p).bits ELSE @]
  /\ UNCHANGED <<hpc, hmsg, choking, crashed>>

\* KeepAlive, Request and Cancel.  The default case, for an unknown id, is never
\* reached: such a message has ended the process in Recv (RecvPanic).
HandleOther(p) == Receive(p, {"Other"}) /\ UNCHANGED <<hpc, hmsg, choking, remoteBits, crashed>>

\* A number is read from data that ends before it: the process panics.
HandleTruncated(p) ==
  /\ Receive(p, {"Truncated"})
  /\ crashed' = TRUE
  /\ UNCHANGED <<hpc, hmsg, choking, remoteBits>>

\* A read error.  The downloader is told only when the failed message has the
\* id of a Piece; Recv returns no such id along with an error.
HandleError(p) ==
  /\ Receive(p, {"Err"})
  /\ HandlerStep(p, "loop", "fail")
  /\ UNCHANGED <<hmsg, choking, remoteBits, crashed>>

\* "SendParentError(com.TotalFailure, ...)" before the handler returns.
Fail(p) ==
  /\ HandlerStep(p, "fail", "exit")
  /\ SendParent([id |-> "TotalFailure"])
  /\ UNCHANGED <<hmsg, rpc, dpc, choking, remoteBits, readCh, downCh, mapVars, crashed>>

\* A message of the torrent handler: Quit, or Have, which is sent to the remote.
FromParent(p) ==
  /\ childCh[p] # <<>>
  /\ childCh' = [childCh EXCEPT ![p] = Tail(@)]
  /\ \/ Head(childCh[p]).id = "Quit" /\ HandlerStep(p, "loop", "exit")
     \/ Head(childCh[p]).id = "Have" /\ HandlerStep(p, "loop", "loop")
  /\ UNCHANGED <<hmsg, rpc, dpc, choking, remoteBits, readCh, downCh, parentCh,
                 children, closed, crashed>>

\* The deferred RemoveChild, under a lock the torrent handler does not share:
\* it reports Exiting, closes the channel, and deletes the map entry.  Then the
\* other deferred function closes the connection.
Exit(p) ==
  /\ \/ /\ HandlerStep(p, "exit", "closing")
        /\ SendParent([id |-> "Exiting", child |-> p])
        /\ UNCHANGED <<closed, children>>
     \/ /\ HandlerStep(p, "closing", "deleting")
        /\ closed' = [closed EXCEPT ![p] = TRUE]
        /\ UNCHANGED <<parentCh, children>>
     \/ /\ HandlerStep(p, "deleting", "done")
        /\ children' = children \ {p}
        /\ UNCHANGED <<parentCh, closed>>
  /\ UNCHANGED <<hmsg, rpc, dpc, choking, remoteBits, readCh, downCh, childCh, crashed>>

HandlerNext(p) ==
  /\ \/ Handshake(p) \/ Register(p)
     \/ HandleForwarded(p) \/ Forward(p) \/ HandleHave(p) \/ HandleBitfield(p)
     \/ HandleOther(p) \/ HandleTruncated(p) \/ HandleError(p) \/ Fail(p)
     \/ FromParent(p) \/ Exit(p)
  /\ UNCHANGED <<rmsg, downloaderVars, trackerVars, wire, requests, announced>>

\* AddChild, RemoveChild and GetChildChannel use the map of comPeerHandler under
\* a mutex of which every goroutine has its own copy (com.Channel is passed by
\* value).  Two uses at once, one of them a write, may make the Go runtime stop
\* the process ("concurrent map read and map write").
MapWriters == {p \in Peers : hpc[p] \in {"register", "deleting"}}
MapReaders == {p \in Peers : hpc[p] = "loop"}
MapThrow ==
  /\ \E p \in MapWriters, q \in MapWriters \cup MapReaders : p # q
  /\ crashed' = TRUE
  /\ UNCHANGED runVars

-------------------------------------------------------------------------------
(* The reader goroutine *)

\* The connection has been closed, broken off, or has passed its deadline.
RecvFails(p) == p \in Unreliable \/ ~ Connected(p)

\* A message has arrived, and Recv knows, or does not know, its id.
Arrived(p) == Connected(p) /\ wire[p] # <<>>
Unknown(p) == Head(wire[p]).id = "Unknown"

\* Recv returns the next message, or an error.
Recv(p) ==
  /\ ReaderStep(p, "recv", "put")
  /\ \/ /\ Arrived(p) /\ ~ Unknown(p)
        /\ rmsg' = [rmsg EXCEPT ![p] = Head(wire[p])]
        /\ wire' = [wire EXCEPT ![p] = Tail(@)]
     \/ /\ RecvFails(p)
        /\ rmsg' = [rmsg EXCEPT ![p] = [id |-> "Err"]] /\ UNCHANGED wire
  /\ UNCHANGED readCh

\* The name of an unknown id is looked up for the log, past the end of the list.
RecvPanic(p) ==
  /\ rpc[p] = "recv" /\ Arrived(p) /\ Unknown(p)
  /\ crashed' = TRUE
  /\ UNCHANGED runVars

\* "readChannel <- remoteDTO{id, data, err}"; the goroutine ends after an error.
Put(p) ==
  /\ ReaderStep(p, "put", IF rmsg[p].id = "Err" THEN "done" ELSE "recv")
  /\ Room(readCh[p])
  /\ readCh' = [readCh EXCEPT ![p] = Append(@, rmsg[p])]
  /\ rmsg' = [rmsg EXCEPT ![p] = Idle]
  /\ UNCHANGED wire

ReaderNext(p) ==
  /\ Recv(p) \/ Put(p)
  /\ UNCHANGED <<hpc, hmsg, dpc, downloaderVars, choking, remoteBits, trackerVars,
                 downCh, parentCh, mapVars, requests, announced, crashed>>

-------------------------------------------------------------------------------
(* The downloader goroutine.  DownloaderNext adds what none of its steps changes. *)

IsLast(i) == i = AmountOfPieces(NumHashes) - 1

\* "for int64(begin) < pieceLength" and the size of the next request.
Continue(b, len) == IF b < len THEN "check" ELSE "finish"
RequestLength(p) ==
  IF begin[p] + MaxRequestLength > plen[p] THEN plen[p] - begin[p] ELSE MaxRequestLength

\* findFreePieceIndex, under the locks of the Tracker and of the Peer, and the
\* piece length.  The goroutine ends when no piece is free.
Pick(p) ==
  LET found == FindFreePieceIndex(downloading, remoteBits[p], NumHashes)
  IN /\ \/ /\ found = {}
           /\ DownloaderStep(p, "pick", "done")
           /\ UNCHANGED <<downloaderVars, downloading>>
        \/ \E i \in found :
             LET len == IF IsLast(i) THEN left ELSE PieceLength
             IN /\ DownloaderStep(p, "pick", Continue(0, len))
                /\ downloading' = SetPiece(downloading, i)
                /\ piece' = [piece EXCEPT ![p] = i]
                /\ begin' = [begin EXCEPT ![p] = 0]
                /\ plen' = [plen EXCEPT ![p] = len]
     /\ UNCHANGED <<have, left, disk, downCh, parentCh, requests, announced>>

\* "if p.PeerChoking"
Check(p) ==
  /\ DownloaderStep(p, "check", IF choking[p] THEN "awaitUnchoke" ELSE "ask")
  /\ UNCHANGED <<downloaderVars, trackerVars, downCh, parentCh, requests, announced>>

\* Peer.Send: nothing goes out on a closed connection, and the error is ignored.
SendRequest(p, block) ==
  requests' = [requests EXCEPT ![p] = IF Connected(p) THEN Append(@, block) ELSE @]

Ask(p) ==
  /\ DownloaderStep(p, "ask", "awaitPiece")
  /\ SendRequest(p, [index |-> piece[p], begin |-> begin[p], length |-> RequestLength(p)])
  /\ UNCHANGED <<downloaderVars, trackerVars, downCh, parentCh, announced>>

\* "received = <-downloadChannel"
Take(p) == downCh[p] # <<>> /\ downCh' = [downCh EXCEPT ![p] = Tail(@)]

\* Mutant of AwaitUnchoke: the flag is polled and the messages stay in the queue.
AwaitUnchoke_Poll(p) ==
  /\ DownloaderStep(p, "awaitUnchoke", "check") /\ UNCHANGED downCh
  /\ UNCHANGED <<downloaderVars, trackerVars, parentCh, requests, announced>>

\* Any message ends the wait for an UnChoke, a Piece included, which is lost.
AwaitUnchoke(p) ==
  /\ DownloaderStep(p, "awaitUnchoke", "check") /\ Take(p)
  /\ UNCHANGED <<downloaderVars, trackerVars, parentCh, requests, announced>>

\* Mutant of SkipMessage: other messages are skipped without asking again.
SkipMessage_KeepWaiting(p) ==
  /\ DownloaderStep(p, "awaitPiece", "awaitPiece") /\ Take(p) /\ Head(downCh[p]).id # "Piece"
  /\ UNCHANGED <<downloaderVars, trackerVars, parentCh, requests, announced>>

\* Any message but a Piece makes the downloader look at the flag and ask again.
SkipMessage(p) ==
  /\ DownloaderStep(p, "awaitPiece", "check") /\ Take(p) /\ Head(downCh[p]).id # "Piece"
  /\ UNCHANGED <<downloaderVars, trackerVars, parentCh, requests, announced>>

\* getPieceData, on the message of a remote.
InRange(block) ==
  block.index < NumHashes /\ block.begin < PieceLength /\ block.length <= MaxRequestLength

\* IsCorrectPiece: the SHA-1 of the message's data against the hash of the piece,
\* which is looked up with the index the remote has sent.
HasHash(msg) == msg.block.index < NumHashes
IsCorrectPiece(msg) == msg.ok

\* WriteData opens the first file first.  A block that begins beyond its end makes
\* the slice of the data invalid.
BeyondFirst(block) == block.index * PieceLength + block.begin > FirstLength
WriteData(block) ==
  /\ ~ BeyondFirst(block)
  /\ disk' = disk \cup {block} /\ left' = left - block.length

\* A block with the right hash that WriteData can place is written; the next one
\* is asked for, or the piece is finished.
AcceptPiece(p) ==
  /\ Take(p) /\ Head(downCh[p]).id = "Piece"
  /\ LET msg == Head(downCh[p])
         next == begin[p] + RequestLength(p)
     IN /\ IsCorrectPiece(msg) /\ InRange(msg.block)
        /\ WriteData(msg.block)
        /\ begin' = [begin EXCEPT ![p] = next]
        /\ DownloaderStep(p, "awaitPiece", Continue(next, plen[p]))
  /\ UNCHANGED <<piece, plen, have, downloading, parentCh, requests, announced>>

\* The hash is wrong, the block cannot be placed, or a file operation fails.
RejectPiece(p) ==
  /\ DownloaderStep(p, "awaitPiece", "giveUp") /\ Take(p) /\ Head(downCh[p]).id = "Piece"
  /\ HasHash(Head(downCh[p]))
  /\ UNCHANGED <<downloaderVars, trackerVars, parentCh, requests, announced>>

\* An index without a hash (or data too short for an index), and a block beyond the
\* first file: the process panics.
PiecePanic(p) ==
  /\ dpc[p] = "awaitPiece" /\ downCh[p] # <<>> /\ Head(downCh[p]).id = "Piece"
  /\ LET msg == Head(downCh[p]) IN
       \/ ~ HasHash(msg)
       \/ IsCorrectPiece(msg) /\ InRange(msg.block) /\ BeyondFirst(msg.block)
  /\ crashed' = TRUE
  /\ UNCHANGED runVars

\* Mutant of Settle: the finished piece is announced but not recorded.
Settle_NotRecorded(p) ==
  /\ DownloaderStep(p, "finish", "announce") \/ DownloaderStep(p, "giveUp", "done")
  /\ UNCHANGED <<downloaderVars, trackerVars, downCh, parentCh, requests, announced>>

\* The deferred function of downloadPiece.  The err it looks at is the one of
\* findFreePieceIndex, which is nil: no later error is assigned to it, so the
\* piece is set in BitFieldHave after a failure as well.
Settle(p) ==
  /\ DownloaderStep(p, "finish", "announce") \/ DownloaderStep(p, "giveUp", "done")
  /\ have' = SetPiece(have, piece[p])
  /\ UNCHANGED <<downloaderVars, downloading, left, disk, downCh, parentCh, requests, announced>>

\* Have for the torrent handler, which tells all peers; then the next piece.
Announce(p) ==
  /\ DownloaderStep(p, "announce", "pick")
  /\ SendParent([id |-> "Have", index |-> piece[p]])
  /\ announced' = Append(announced, piece[p])
  /\ UNCHANGED <<downloaderVars, trackerVars, downCh, requests>>

DownloaderNext(p) ==
  /\ \/ Pick(p) \/ Check(p) \/ Ask(p) \/ AwaitUnchoke(p) \/ SkipMessage(p)
     \/ AcceptPiece(p) \/ RejectPiece(p) \/ Settle(p) \/ Announce(p)
  /\ UNCHANGED <<hpc, hmsg, rpc, rmsg, choking, remoteBits, readCh, mapVars, wire, crashed>>

PeerNext ==
  \/ MapThrow
  \/ \E p \in Peers :
       \/ HandlerNext(p) \/ ReaderNext(p) \/ DownloaderNext(p)
       \/ RecvPanic(p) \/ PiecePanic(p)
===============================================================================
