------------------------------- MODULE Download -------------------------------
(***************************************************************************)
(* The download of one torrent: the goroutines of every peer (PeerHandler)  *)
(* composed with torrent.Handler, which passes announcements and Quit on to *)
(* all of them, and with remote peers that keep to the BitTorrent protocol: *)
(* a remote answers each request with the block it asks for, and drops the  *)
(* requests it holds when it chokes, and those it receives while choking.   *)
(*                                                                          *)
(* torrent.Handler is taken here as far as it acts on running peers: it may *)
(* be away from its channels, in a tracker request or in a send to the      *)
(* controller, or have ended.  What it does there, and that it starts       *)
(* another handler after a TotalFailure, is modelled in TorrentHandler.     *)
(***************************************************************************)
EXTENDS PeerHandler

CONSTANTS
  Nobody,      \* no peer
  Matching,    \* the blocks that can come with the hash of their piece
  Corrupt,     \* the blocks that can come with another hash
  RemoteTalk,  \* the messages a remote may send besides Choke, UnChoke, Piece
  TalkBound,   \* bound: how many unsolicited messages a remote sends
  WireSize,    \* bound: how many messages the connection holds
  StopBound,   \* bound: how many times the controller sends Stop
  Absences,    \* bound: how the torrent handler may leave its select by itself
  Orderly      \* bound: a remote sends a Bitfield first or not at all, and no Choke or
               \* UnChoke that changes nothing

ASSUME EnvironmentOK ==
  /\ Nobody \notin Peers
  /\ Matching \subseteq Block /\ Corrupt \subseteq Block
  /\ RemoteTalk \subseteq Message
  /\ TalkBound \in Nat /\ WireSize \in Nat /\ StopBound \in Nat
  /\ Absences \subseteq {"away", "gone"} /\ Orderly \in BOOLEAN

VARIABLES
  stops,          \* Stop messages the controller may still send
  tpc,            \* torrent handler: in its select, in SendChildren, away or gone
  tmsg,           \* the message of the SendChildren call
  due, served,    \* children it must still reach, children it has reached
  target,         \* the child whose channel it is sending on
  remoteChoking,  \* whether the remote peer chokes this client
  talk            \* unsolicited messages the remote may still send

torrentVars == <<stops, tpc, tmsg, due, served, target>>
remoteVars  == <<remoteChoking, talk>>
vars == <<phVars, torrentVars, remoteVars>>

TorrentOK ==
  /\ stops \in 0 .. StopBound
  /\ tpc \in {"select", "fanout", "away", "gone"} /\ tmsg \in ChildMessage
  /\ due \in SUBSET Peers /\ served \in SUBSET Peers /\ target \in Peers \cup {Nobody}
RemoteOK == remoteChoking \in [Peers -> BOOLEAN] /\ talk \in [Peers -> 0 .. TalkBound]

DownloadTypeOK == TypeOK /\ TorrentOK /\ RemoteOK

Init ==
  /\ PHInit
  /\ stops = StopBound /\ tpc = "select" /\ tmsg = [id |-> "Quit"]
  /\ due = {} /\ served = {} /\ target = Nobody
  /\ remoteChoking = [p \in Peers |-> TRUE] /\ talk = [p \in Peers |-> TalkBound]

-------------------------------------------------------------------------------
(* torrent.Handler *)

\* The call of SendChildren: the range loop visits the entries the map has now,
\* unless they are deleted before, and may visit entries added meanwhile.
SendChildren(msg) ==
  /\ tpc' = "fanout" /\ tmsg' = msg
  /\ due' = children /\ served' = {}

\* Mutant of FromPeer: every message of a peer handler goes to all children.
FromPeer_PassAll ==
  /\ tpc = "select" /\ parentCh # <<>>
  /\ parentCh' = Tail(parentCh)
  /\ SendChildren(Head(parentCh))
  /\ UNCHANGED <<stops, target, childCh, crashed>>

\* A message of a peer handler.  A Have goes to all children.  Success is passed
\* to the controller, which may take its time.  Exiting is ignored.
FromPeer ==
  /\ tpc = "select" /\ parentCh # <<>>
  /\ parentCh' = Tail(parentCh)
  /\ LET id == Head(parentCh).id IN
       \/ id = "Have" /\ SendChildren(Head(parentCh))
       \/ id = "Success" /\ tpc' = "away" /\ UNCHANGED <<tmsg, due, served>>
       \/ id \notin {"Have", "Success"} /\ UNCHANGED <<tpc, tmsg, due, served>>
  /\ UNCHANGED <<stops, target, childCh, crashed>>

\* The interval has expired, or a command of the controller is answered: the
\* handler is in tor.Request, which has no timeout, or in a send to the controller.
Leave == "away" \in Absences /\ tpc = "select" /\ tpc' = "away"

\* It comes back, if the tracker answers and the controller reads.
Return == tpc = "away" /\ tpc' = "select"

\* It ends, on Remove, on Quit or after its last retry; its peers go on.
End == "gone" \in Absences /\ tpc \in {"select", "away"} /\ tpc' = "gone"

Elsewhere ==
  /\ Leave \/ Return \/ End
  /\ UNCHANGED <<stops, tmsg, due, served, target, parentCh, childCh, crashed>>

\* Stop from the controller, which cannot address a torrent handler yet
\* (controller.go:60): the handler's side of a message nobody sends.
Stop ==
  /\ tpc = "select" /\ stops > 0
  /\ stops' = stops - 1
  /\ SendChildren([id |-> "Quit"])
  /\ UNCHANGED <<parentCh, target, childCh, crashed>>

\* The range loop comes to the next child ...
NextChild(p) ==
  /\ tpc = "fanout" /\ target = Nobody
  /\ p \in children \ served
  /\ target' = p
  /\ UNCHANGED <<stops, parentCh, tpc, tmsg, due, served, childCh, crashed>>

\* ... and sends: on a closed channel that panics, on a full one it blocks.
SendTarget ==
  /\ target # Nobody
  /\ \/ closed[target] /\ crashed' = TRUE /\ UNCHANGED <<childCh, served, target>>
     \/ /\ ~ closed[target] /\ Room(childCh[target])
        /\ childCh' = [childCh EXCEPT ![target] = Append(@, tmsg)]
        /\ served' = served \cup {target} /\ target' = Nobody
        /\ UNCHANGED crashed
  /\ UNCHANGED <<stops, parentCh, tpc, tmsg, due>>

EndSendChildren ==
  /\ tpc = "fanout" /\ target = Nobody
  /\ due \cap children \subseteq served
  /\ tpc' = "select"
  /\ due' = {} /\ served' = {}
  /\ UNCHANGED <<stops, parentCh, tmsg, target, childCh, crashed>>

\* The loop reads the map that AddChild and RemoveChild write (see MapThrow).
RangeThrow ==
  /\ tpc = "fanout" /\ target = Nobody /\ MapWriters # {}
  /\ crashed' = TRUE
  /\ UNCHANGED <<parentCh, childCh, torrentVars>>

TorrentNext ==
  /\ \/ FromPeer \/ Elsewhere \/ Stop \/ SendTarget \/ EndSendChildren \/ RangeThrow
     \/ \E p \in Peers : NextChild(p)
  /\ UNCHANGED <<hpc, hmsg, rpc, rmsg, dpc, downloaderVars, choking, remoteBits, trackerVars,
                 readCh, downCh, children, closed, wire, requests, announced, remoteVars>>

-------------------------------------------------------------------------------
(* The remote peers *)

Say(p, msg) == Len(wire[p]) < WireSize /\ wire' = [wire EXCEPT ![p] = Append(@, msg)]
Unsolicited(p) == talk[p] > 0 /\ talk' = [talk EXCEPT ![p] = @ - 1]

\* Choking drops the k requests that have arrived; the others are under way.
RemoteChoke(p) ==
  /\ Unsolicited(p) /\ Say(p, [id |-> "Choke"])
  /\ Orderly => ~ remoteChoking[p]
  /\ remoteChoking' = [remoteChoking EXCEPT ![p] = TRUE]
  /\ \E k \in 0 .. Len(requests[p]) :
       requests' = [requests EXCEPT ![p] = SubSeq(@, k + 1, Len(@))]

RemoteUnchoke(p) ==
  /\ Unsolicited(p) /\ Say(p, [id |-> "UnChoke"])
  /\ Orderly => remoteChoking[p]
  /\ remoteChoking' = [remoteChoking EXCEPT ![p] = FALSE]
  /\ UNCHANGED requests

RemoteSays(p) ==
  /\ Unsolicited(p)
  /\ \E msg \in RemoteTalk :
       /\ Orderly /\ msg.id = "Bitfield" => talk[p] = TalkBound
       /\ Say(p, msg)
  /\ UNCHANGED <<remoteChoking, requests>>

\* A request is answered with its block, whose data are right or wrong.
RemoteAnswer(p) ==
  /\ requests[p] # <<>> /\ ~ remoteChoking[p]
  /\ requests' = [requests EXCEPT ![p] = Tail(@)]
  /\ \E ok \in BOOLEAN :
       /\ Head(requests[p]) \in IF ok THEN Matching ELSE Corrupt
       /\ Say(p, [id |-> "Piece", block |-> Head(requests[p]), ok |-> ok])
  /\ UNCHANGED <<remoteChoking, talk>>

RemoteDrop(p) ==
  /\ requests[p] # <<>> /\ remoteChoking[p]
  /\ requests' = [requests EXCEPT ![p] = Tail(@)]
  /\ UNCHANGED <<remoteChoking, talk, wire>>

RemoteNext(p) ==
  /\ Connected(p)
  /\ \/ RemoteChoke(p) \/ RemoteUnchoke(p) \/ RemoteSays(p)
     \/ RemoteAnswer(p) \/ RemoteDrop(p)
  /\ UNCHANGED <<hpc, hmsg, rpc, rmsg, dpc, downloaderVars, choking, remoteBits, trackerVars,
                 readCh, downCh, parentCh, mapVars, announced, crashed, torrentVars>>

-------------------------------------------------------------------------------

Next ==
  /\ ~ crashed
  /\ \/ PeerNext /\ UNCHANGED <<torrentVars, remoteVars>>
     \/ TorrentNext
     \/ \E p \in Peers : RemoteNext(p)

Spec == Init /\ [][Next]_vars

\* The step in which Recv returns an error although the connection was up.
Breaks(p) == Connected(p) /\ rmsg'[p].id = "Err"

\* Every goroutine that can run does, and a remote that does not choke answers.  A
\* select that is reached again and again with a message waiting takes it in the
\* end: it chooses at random.  Nothing makes the torrent handler come back from the
\* tracker or the controller, a connection fail, the controller stop, or a remote
\* talk.
Fairness ==
  /\ SF_vars(~ crashed /\ FromPeer /\ TorrentNext)
  /\ WF_vars(~ crashed /\ (EndSendChildren \/ \E p \in Peers : NextChild(p)) /\ TorrentNext)
  /\ WF_vars(~ crashed /\ SendTarget /\ TorrentNext)
  /\ \A p \in Peers :
       /\ WF_vars(~ crashed /\ HandlerNext(p) /\ UNCHANGED <<torrentVars, remoteVars>>)
       /\ WF_vars(/\ ~ crashed
                  /\ RecvPanic(p) \/ (ReaderNext(p) /\ ~ Breaks(p))
                  /\ UNCHANGED <<torrentVars, remoteVars>>)
       /\ WF_vars(/\ ~ crashed
                  /\ PiecePanic(p) \/ DownloaderNext(p)
                  /\ UNCHANGED <<torrentVars, remoteVars>>)
       /\ WF_vars(~ crashed /\ RemoteAnswer(p) /\ RemoteNext(p))

FairSpec == Spec /\ Fairness

-------------------------------------------------------------------------------
(* Claims: which pieces are being downloaded, and by whom *)

\* The downloader is between its claim of a piece and the deferred function ...
Working(p) == dpc[p] \in {"check", "ask", "awaitUnchoke", "awaitPiece", "finish", "giveUp"}

\* ... or has yet to announce the piece.
InProgress(p) == Working(p) \/ dpc[p] = "announce"

\* Two downloaders never work on the same piece: findFreePieceIndex tests and
\* sets BitFieldDownloading in one critical section.
ClaimsExclusive ==
  \A p, q \in Peers : p # q /\ InProgress(p) /\ InProgress(q) => piece[p] # piece[q]

\* No claim is orphaned: a piece marked in BitFieldDownloading that is not in
\* BitFieldHave has a downloader at work on it, and a piece that is being worked
\* on is marked and not in BitFieldHave yet.
ClaimsHeld == downloading \ have = {piece[p] : p \in {q \in Peers : Working(q)}}

\* The bit fields and the announcements of the torrent implement PieceLedger: a
\* piece is claimed once, becomes had, and is announced once, by a Have message
\* that leaves only after the bit in BitFieldHave is set.
Ledger == INSTANCE PieceLedger WITH
  Pieces <- 0 .. AmountOfPieces(NumHashes) - 1,
  status <- [i \in 0 .. AmountOfPieces(NumHashes) - 1 |->
               IF i \in have THEN "have" ELSE IF i \in downloading THEN "claimed" ELSE "free"]
LedgerSpec == Ledger!LedgerSpec

-------------------------------------------------------------------------------
(* The path of a message from the remote to the downloader *)

Running(p) == hpc[p] \in {"loop", "forward"}

\* The flag PeerChoking and the messages on downloadChannel are read without a
\* lock: a downloader that waits for an UnChoke although the flag is already
\* clear has a message coming that will make it look again.
NoLostWakeup ==
  \A p \in Peers :
    dpc[p] = "awaitUnchoke" /\ ~ choking[p] /\ Running(p) => downCh[p] # <<>> \/ hpc[p] = "forward"

\* The messages of p that are somewhere between the remote and the downloader.
ElementsOf(s) == {s[k] : k \in 1 .. Len(s)}
UnderWay(p) ==
  ElementsOf(wire[p]) \cup {rmsg[p]} \cup ElementsOf(readCh[p]) \cup {hmsg[p]}
    \cup ElementsOf(downCh[p])

\* A downloader that waits for a Piece from a remote that does not choke has an
\* answer coming, or a message after which it asks again, or the end of the
\* connection: no choke, unchoke or re-request in between loses the request.
NoLostRequest ==
  \A p \in Peers :
    dpc[p] = "awaitPiece" /\ Running(p) /\ ~ remoteChoking[p] =>
      requests[p] # <<>> \/ \E msg \in UnderWay(p) : msg.id \in Forwarded \cup {"Err"}

\* The torrent handler takes nothing from its channel: it has ended, it waits for
\* the tracker or the controller, or it waits to send to a peer whose own channel
\* is full.
Unheard ==
  /\ ~ Room(parentCh)
  /\ tpc \in {"away", "gone"} \/ (target # Nobody /\ ~ Room(childCh[target]))

\* A handler that passes a message on to its downloader gets rid of it, unless the
\* downloader has ended, or announces a piece and from then on is not heard.
ForwardSettles ==
  \A p \in Peers :
    hpc[p] = "forward" ~>
      \/ hpc[p] # "forward" \/ crashed \/ dpc[p] = "done"
      \/ [](dpc[p] = "announce" /\ Unheard)

\* A claimed piece does not stay claimed for ever while its remote is connected
\* and does not choke: the download ends, whatever is interleaved with it.
ClaimSettles ==
  \A p \in Peers :
    Working(p) ~> (~ Working(p) \/ remoteChoking[p] \/ ~ Running(p) \/ crashed)
===============================================================================
