----------------------------- MODULE ClaimProofs -----------------------------
(***************************************************************************)
(* Theorems about the downloads of a torrent, for every number of peers,    *)
(* pieces and blocks and every capacity of the channels: the claims are     *)
(* exclusive and held, Download implements PieceLedger, and no request of a *)
(* downloader is lost on its way to the remote, nor its answer on the way   *)
(* back.                                                                    *)
(***************************************************************************)
EXTENDS DownloadProofs, QueueLemmas

-------------------------------------------------------------------------------
(* The claims *)

Told == {announced[k] : k \in 1 .. Len(announced)}

\* What the claims rest on: the pieces that are had are marked as claimed too,
\* and a downloader announces a piece that is had and was not announced before.
ClaimInv ==
  /\ ClaimsExclusive
  /\ ClaimsHeld
  /\ have \subseteq downloading
  /\ downloading \subseteq 0 .. AmountOfPieces(NumHashes) - 1
  /\ Told \subseteq have
  /\ \A p \in Peers : dpc[p] = "announce" => piece[p] \in have \ Told

\* At first nothing is claimed.
LEMMA ClaimInit == Init => ClaimInv
<1> SUFFICES ASSUME Init
             PROVE  ClaimInv
  OBVIOUS
<1>1. \A p \in Peers : ~ Working(p) /\ ~ InProgress(p) /\ dpc[p] # "announce"
  BY DEF Init, PHInit, Working, InProgress
<1>2. have = {} /\ downloading = {} /\ Told = {}
  BY DEF Init, PHInit, Told
<1>3. QED
  BY <1>1, <1>2 DEF ClaimInv, ClaimsExclusive, ClaimsHeld

\* A step that leaves these alone cannot disturb the claims; only Register
\* changes the control point of a downloader from outside.
LEMMA ClaimUntouched ==
  ASSUME ClaimInv,
         UNCHANGED <<dpc, piece, have, downloading, announced>>
  PROVE  ClaimInv'
BY DEF ClaimInv, ClaimsExclusive, ClaimsHeld, Working, InProgress, Told

\* A step of one downloader that leaves its piece in progress, or works on none
\* before and after, and touches no field.
LEMMA ClaimMoves ==
  ASSUME ClaimInv, dpc \in [Peers -> DownloaderPC], NEW p \in Peers,
         NEW pc, dpc' = [dpc EXCEPT ![p] = pc],
         pc # "announce", dpc[p] # "announce", Working(p)' <=> Working(p),
         UNCHANGED <<piece, have, downloading, announced>>
  PROVE  ClaimInv'
<1>1. \A q \in Peers : Working(q)' <=> Working(q)
  BY DEF Working
<1>2. \A q \in Peers : dpc'[q] = "announce" <=> dpc[q] = "announce"
  OBVIOUS
<1>3. {piece'[q] : q \in {r \in Peers : Working(r)'}} = {piece[q] : q \in {r \in Peers : Working(r)}}
  BY <1>1
<1>4. QED
  BY <1>1, <1>2, <1>3 DEF ClaimInv, ClaimsExclusive, ClaimsHeld, InProgress, Told

\* A claim takes a piece nobody else works on.
LEMMA ClaimPick ==
  ASSUME TypeInv, ClaimInv, NEW p \in Peers, Pick(p)
  PROVE  ClaimInv'
<1>1. dpc \in [Peers -> DownloaderPC] /\ piece \in [Peers -> Nat]
  BY DEF TypeInv, DownloadTypeOK, TypeOK, ControlOK, DownloaderOK
<1>2. dpc[p] = "pick"
  BY DEF Pick, DownloaderStep
<1>3. CASE dpc' = [dpc EXCEPT ![p] = "done"] /\ UNCHANGED <<downloaderVars, downloading>>
  <2>1. Working(p)' <=> Working(p)
    BY <1>1, <1>2, <1>3 DEF Working
  <2>2. QED
    BY <1>1, <1>2, <1>3, <2>1, ClaimMoves DEF Pick, downloaderVars
<1>4. ASSUME NEW i \in FindFreePieceIndex(downloading, remoteBits[p], NumHashes),
             NEW pc \in {"check", "finish"},
             dpc' = [dpc EXCEPT ![p] = pc],
             downloading' = SetPiece(downloading, i),
             piece' = [piece EXCEPT ![p] = i]
      PROVE  ClaimInv'
  <2>1. i \in 0 .. AmountOfPieces(NumHashes) - 1 /\ i \notin downloading
    BY DEF FindFreePieceIndex, FreePieces, LocalAvailable
  <2>2. downloading' = downloading \cup {i}
    BY <1>4, <2>1, SetPieceAdds
  <2>3. UNCHANGED <<have, announced>>
    BY DEF Pick
  <2>4. Working(p)' /\ piece'[p] = i /\ dpc'[p] # "announce" /\ ~ Working(p) /\ ~ InProgress(p)
    BY <1>1, <1>2, <1>4 DEF Working, InProgress
  <2>5. \A q \in Peers \ {p} : piece'[q] = piece[q] /\ dpc'[q] = dpc[q]
    BY <1>1, <1>4
  <2>6. \A q \in Peers \ {p} : (Working(q)' <=> Working(q)) /\ (InProgress(q)' <=> InProgress(q))
    BY <2>5 DEF Working, InProgress
  <2>7. \A q \in Peers : InProgress(q) => piece[q] \in downloading
    BY DEF ClaimInv, ClaimsHeld, InProgress
  <2>8. ClaimsExclusive'
    BY <2>1, <2>4, <2>5, <2>6, <2>7 DEF ClaimInv, ClaimsExclusive
  <2>9. ClaimsHeld'
    <3>1. {piece'[q] : q \in {r \in Peers : Working(r)'}}
            = {piece[q] : q \in {r \in Peers : Working(r)}} \cup {i}
      BY <2>4, <2>5, <2>6
    <3>2. i \notin have
      BY <2>1 DEF ClaimInv
    <3>3. QED
      BY <2>2, <2>3, <3>1, <3>2 DEF ClaimInv, ClaimsHeld
  <2>10. \A q \in Peers : dpc'[q] = "announce" => piece'[q] \in have' \ Told'
    BY <2>3, <2>4, <2>5 DEF ClaimInv, Told
  <2>11. QED
    BY <2>1, <2>2, <2>3, <2>8, <2>9, <2>10 DEF ClaimInv, Told
<1>5. QED
  BY <1>3, <1>4 DEF Pick, DownloaderStep, Continue

\* Settling moves the piece of one downloader from claimed to had.
LEMMA ClaimSettle ==
  ASSUME TypeInv, ClaimInv, NEW p \in Peers, Settle(p)
  PROVE  ClaimInv'
<1>1. dpc \in [Peers -> DownloaderPC] /\ piece \in [Peers -> Nat]
  BY DEF TypeInv, DownloadTypeOK, TypeOK, ControlOK, DownloaderOK
<1>2. UNCHANGED <<piece, downloading, announced>>
  BY DEF Settle, downloaderVars
<1>3. have' = have \cup {piece[p]}
  BY <1>1, SetPieceAdds DEF Settle
<1>4. Working(p) /\ ~ Working(p)'
  BY <1>1 DEF Settle, DownloaderStep, Working
<1>5. \A q \in Peers \ {p} : dpc'[q] = dpc[q]
  BY <1>1 DEF Settle, DownloaderStep
<1>6. \A q \in Peers \ {p} : (Working(q)' <=> Working(q)) /\ (InProgress(q)' <=> InProgress(q))
  BY <1>5 DEF Working, InProgress
<1>7. piece[p] \in downloading \ have
  BY <1>4 DEF ClaimInv, ClaimsHeld
<1>8. ClaimsExclusive'
  BY <1>2, <1>4, <1>6 DEF ClaimInv, ClaimsExclusive, InProgress
<1>9. ClaimsHeld'
  <2>1. \A q \in Peers \ {p} : Working(q) => piece[q] # piece[p]
    BY <1>4 DEF ClaimInv, ClaimsExclusive, InProgress
  <2>2. {piece[q] : q \in {r \in Peers : Working(r)'}}
          = {piece[q] : q \in {r \in Peers : Working(r)}} \ {piece[p]}
    BY <1>4, <1>6, <2>1
  <2>3. QED
    BY <1>2, <1>3, <2>2 DEF ClaimInv, ClaimsHeld
<1>10. \A q \in Peers : dpc'[q] = "announce" => piece'[q] \in have' \ Told'
  BY <1>2, <1>3, <1>5, <1>7 DEF ClaimInv, Told
<1>11. QED
  BY <1>2, <1>3, <1>7, <1>8, <1>9, <1>10 DEF ClaimInv, Told

\* What an announcement adds.
LEMMA ToldAppend ==
  ASSUME NEW s \in Seq(Nat), NEW i \in Nat, NEW t, t = Append(s, i)
  PROVE  {t[k] : k \in 1 .. Len(t)} = {s[k] : k \in 1 .. Len(s)} \cup {i}
<1>1. Len(t) = Len(s) + 1 /\ t[Len(s) + 1] = i /\ \A k \in 1 .. Len(s) : t[k] = s[k]
  OBVIOUS
<1>2. Len(s) \in Nat
  OBVIOUS
<1>3. 1 .. Len(t) = (1 .. Len(s)) \cup {Len(s) + 1}
  BY <1>1, <1>2
<1>4. QED
  BY <1>1, <1>3

\* An announcement ends the work on a piece that is had.
LEMMA ClaimAnnounce ==
  ASSUME TypeInv, ClaimInv, NEW p \in Peers, Announce(p)
  PROVE  ClaimInv'
<1>1. /\ dpc \in [Peers -> DownloaderPC] /\ piece \in [Peers -> Nat] /\ announced \in Seq(Nat)
  BY DEF TypeInv, DownloadTypeOK, TypeOK, ControlOK, DownloaderOK, TrackerOK
<1>2. UNCHANGED <<piece, have, downloading>>
  BY DEF Announce, downloaderVars, trackerVars
<1>3. Told' = Told \cup {piece[p]}
  BY <1>1, ToldAppend DEF Announce, Told
<1>4. dpc[p] = "announce" /\ ~ Working(p) /\ ~ Working(p)' /\ ~ InProgress(p)'
  BY <1>1 DEF Announce, DownloaderStep, Working, InProgress
<1>5. \A q \in Peers \ {p} : dpc'[q] = dpc[q]
  BY <1>1 DEF Announce, DownloaderStep
<1>6. \A q \in Peers \ {p} : (Working(q)' <=> Working(q)) /\ (InProgress(q)' <=> InProgress(q))
  BY <1>5 DEF Working, InProgress
<1>7. ClaimsExclusive'
  BY <1>2, <1>4, <1>6 DEF ClaimInv, ClaimsExclusive
<1>8. ClaimsHeld'
  <2>1. {piece[q] : q \in {r \in Peers : Working(r)'}} = {piece[q] : q \in {r \in Peers : Working(r)}}
    BY <1>4, <1>6
  <2>2. QED
    BY <1>2, <2>1 DEF ClaimInv, ClaimsHeld
<1>9. \A q \in Peers \ {p} : dpc'[q] = "announce" => piece[q] # piece[p]
  BY <1>4, <1>5 DEF ClaimInv, ClaimsExclusive, InProgress
<1>10. \A q \in Peers : dpc'[q] = "announce" => piece'[q] \in have' \ Told'
  BY <1>2, <1>3, <1>4, <1>5, <1>9 DEF ClaimInv, InProgress
<1>11. QED
  BY <1>2, <1>3, <1>4, <1>7, <1>8, <1>10 DEF ClaimInv

\* Every step keeps the claims in order.
LEMMA ClaimStep == TypeInv /\ ClaimInv /\ [Next]_vars => ClaimInv'
<1> SUFFICES ASSUME TypeInv, ClaimInv, [Next]_vars
             PROVE  ClaimInv'
  OBVIOUS
<1>1. dpc \in [Peers -> DownloaderPC]
  BY DEF TypeInv, DownloadTypeOK, TypeOK, ControlOK
<1>2. ASSUME NEW p \in Peers, HandlerNext(p)
      PROVE  ClaimInv'
  <2>1. UNCHANGED <<piece, have, downloading, announced>>
    BY <1>2 DEF HandlerNext, downloaderVars, trackerVars
  <2>2. CASE Register(p)
    <3>1. dpc[p] = "off" /\ dpc' = [dpc EXCEPT ![p] = "pick"]
      BY <2>2 DEF Register, DownloaderStep
    <3>2. Working(p)' <=> Working(p)
      BY <1>1, <3>1 DEF Working
    <3>3. QED
      BY <1>1, <2>1, <3>1, <3>2, ClaimMoves
  <2>3. CASE ~ Register(p)
    <3>1. UNCHANGED dpc
      BY <1>2, <2>3 DEF HandlerNext, Handshake, HandleForwarded, Forward, HandleHave,
                        HandleBitfield, HandleOther, HandleTruncated, HandleError, Fail, FromParent, Exit, Receive
    <3>2. QED
      BY <2>1, <3>1, ClaimUntouched
  <2>4. QED
    BY <2>2, <2>3
<1>3. ASSUME NEW p \in Peers, DownloaderNext(p)
      PROVE  ClaimInv'
  <2>1. CASE Check(p) \/ Ask(p) \/ AwaitUnchoke(p) \/ SkipMessage(p) \/ AcceptPiece(p) \/ RejectPiece(p)
    <3> USE DEF DownloaderStep
    <3>1. UNCHANGED <<piece, have, downloading, announced>>
      BY <2>1 DEF Check, Ask, AwaitUnchoke, SkipMessage, AcceptPiece, RejectPiece,
                  downloaderVars, trackerVars
    <3>2. PICK pc \in {"check", "ask", "awaitUnchoke", "awaitPiece", "finish", "giveUp"} :
             dpc' = [dpc EXCEPT ![p] = pc]
      BY <2>1 DEF Check, Ask, AwaitUnchoke, SkipMessage, AcceptPiece, RejectPiece, Continue
    <3>3. dpc[p] \in {"check", "ask", "awaitUnchoke", "awaitPiece"}
      BY <2>1 DEF Check, Ask, AwaitUnchoke, SkipMessage, AcceptPiece, RejectPiece
    <3>4. Working(p)' <=> Working(p)
      BY <1>1, <3>2, <3>3 DEF Working
    <3>5. QED
      BY <1>1, <3>1, <3>2, <3>3, <3>4, ClaimMoves
  <2>2. QED
    BY <1>3, <2>1, ClaimPick, ClaimSettle, ClaimAnnounce DEF DownloaderNext
<1>4. CASE UNCHANGED <<dpc, piece, have, downloading, announced>>
  BY <1>4, ClaimUntouched
<1>5. QED
  <2>1. CASE UNCHANGED vars \/ Panics
    BY <1>4, <2>1 DEF vars, phVars, runVars, Panics, MapThrow, RecvPanic, PiecePanic, downloaderVars, trackerVars
  <2>2. CASE TorrentNext
    BY <1>4, <2>2 DEF TorrentNext, downloaderVars, trackerVars
  <2>3. CASE \E q \in Peers : ReaderNext(q) \/ RemoteNext(q)
    BY <1>4, <2>3 DEF ReaderNext, RemoteNext, downloaderVars, trackerVars
  <2>4. QED
    BY <1>2, <1>3, <2>1, <2>2, <2>3 DEF Next, PeerNext, Panics

\* The inductive invariant.
LEMMA ClaimAlways == Spec => [](TypeInv /\ ClaimInv)
<1>1. Init => TypeInv /\ ClaimInv
  BY TypeInit, ClaimInit
<1>2. TypeInv /\ ClaimInv /\ [Next]_vars => (TypeInv /\ ClaimInv)'
  BY TypeStep, ClaimStep
<1>3. QED
  BY <1>1, <1>2, PTL DEF Spec

\* No two downloaders of a torrent ever work on the same piece (the test and the
\* setting of BitFieldDownloading in findFreePieceIndex).
THEOREM ClaimsAreExclusive == Spec => []ClaimsExclusive
BY ClaimAlways, PTL DEF ClaimInv

\* A piece is marked in BitFieldDownloading and not in BitFieldHave exactly while
\* a downloader works on it: no claim is orphaned.
THEOREM ClaimsAreHeld == Spec => []ClaimsHeld
BY ClaimAlways, PTL DEF ClaimInv

-------------------------------------------------------------------------------
(* Download implements PieceLedger *)

PieceNumbers == 0 .. AmountOfPieces(NumHashes) - 1
StatusOf(i) == IF i \in have THEN "have" ELSE IF i \in downloading THEN "claimed" ELSE "free"
Status == [i \in PieceNumbers |-> StatusOf(i)]

\* A step that gives one piece another status, as an update of the function.
LEMMA StatusUpdate ==
  ASSUME NEW i \in PieceNumbers, NEW s, StatusOf(i)' = s,
         \A j \in PieceNumbers \ {i} : StatusOf(j)' = StatusOf(j)
  PROVE  Status' = [Status EXCEPT ![i] = s]
BY DEF Status

\* Initially the ledger is empty.
LEMMA LedgerInitially == Init => Ledger!LedgerInit
BY DEF Init, PHInit, Ledger!LedgerInit

\* Pick is a Claim, or no step of the ledger.
LEMMA LedgerPick ==
  ASSUME TypeInv, ClaimInv, NEW p \in Peers, Pick(p)
  PROVE  [Ledger!LedgerNext]_<<Status, announced>>
<1>1. UNCHANGED <<have, announced>>
  BY DEF Pick
<1>2. CASE UNCHANGED downloading
  BY <1>1, <1>2 DEF Status, StatusOf
<1>3. ASSUME NEW i \in FindFreePieceIndex(downloading, remoteBits[p], NumHashes),
             downloading' = SetPiece(downloading, i)
      PROVE  Ledger!LedgerNext
  <2>1. i \in PieceNumbers /\ i \in Nat /\ i \notin downloading /\ i \notin have
    BY DEF FindFreePieceIndex, FreePieces, LocalAvailable, PieceNumbers, ClaimInv
  <2>2. downloading' = downloading \cup {i}
    BY <1>3, <2>1, SetPieceAdds
  <2>3. StatusOf(i) = "free" /\ StatusOf(i)' = "claimed"
    BY <1>1, <2>1, <2>2 DEF StatusOf
  <2>4. \A j \in PieceNumbers \ {i} : StatusOf(j)' = StatusOf(j)
    BY <1>1, <2>2 DEF StatusOf
  <2>5. Status' = [Status EXCEPT ![i] = "claimed"] /\ Status[i] = "free"
    BY <2>1, <2>3, <2>4, StatusUpdate DEF Status
  <2>6. Ledger!Claim(i)
    BY <1>1, <2>5 DEF Ledger!Claim, Ledger!Become, Status, StatusOf, PieceNumbers
  <2>7. QED
    BY <2>1, <2>6 DEF Ledger!LedgerNext, PieceNumbers
<1>4. QED
  BY <1>2, <1>3 DEF Pick

\* Settle is an Obtain, after a failure as well.
LEMMA LedgerSettle ==
  ASSUME TypeInv, ClaimInv, NEW p \in Peers, Settle(p)
  PROVE  Ledger!LedgerNext
<1>1. UNCHANGED <<downloading, announced>>
  BY DEF Settle
<1>2. piece[p] \in downloading \ have
  BY DEF Settle, DownloaderStep, Working, ClaimInv, ClaimsHeld
<1>3. piece[p] \in PieceNumbers /\ piece[p] \in Nat
  BY <1>2 DEF ClaimInv, PieceNumbers, TypeInv, DownloadTypeOK, TypeOK, DownloaderOK
<1>4. have' = have \cup {piece[p]}
  BY <1>3, SetPieceAdds DEF Settle
<1>5. StatusOf(piece[p]) = "claimed" /\ StatusOf(piece[p])' = "have"
  <2>1. piece'[p] = piece[p]
    BY DEF Settle, downloaderVars
  <2>2. QED
    BY <1>2, <1>4, <2>1 DEF StatusOf
<1>6. \A j \in PieceNumbers \ {piece[p]} : StatusOf(j)' = StatusOf(j)
  BY <1>1, <1>4 DEF StatusOf
<1>7. Status' = [Status EXCEPT ![piece[p]] = "have"] /\ Status[piece[p]] = "claimed"
  <2>1. Status' = [j \in PieceNumbers |-> IF j = piece[p] THEN "have" ELSE StatusOf(j)]
    BY <1>1, <1>2, <1>4, <1>6 DEF Status, StatusOf
  <2>2. QED
    BY <1>3, <1>5, <2>1 DEF Status
<1>8. PICK i \in PieceNumbers : i = piece[p]
  BY <1>3
<1>9. Ledger!Obtain(i)
  BY <1>1, <1>7, <1>8 DEF Ledger!Obtain, Ledger!Become, Status, StatusOf, PieceNumbers
<1>10. QED
  BY <1>9 DEF Ledger!LedgerNext, PieceNumbers

\* Announce is a Tell.
LEMMA LedgerAnnounce ==
  ASSUME TypeInv, ClaimInv, NEW p \in Peers, Announce(p)
  PROVE  Ledger!LedgerNext
<1>1. UNCHANGED <<have, downloading>> /\ announced' = Append(announced, piece[p])
  BY DEF Announce, trackerVars
<1>2. piece[p] \in have /\ piece[p] \notin Told
  BY DEF Announce, DownloaderStep, ClaimInv
<1>3. piece[p] \in PieceNumbers
  BY <1>2 DEF ClaimInv, PieceNumbers
<1>4. Status' = Status /\ Status[piece[p]] = "have"
  BY <1>1, <1>2, <1>3 DEF Status, StatusOf
<1>5. PICK i \in PieceNumbers : i = piece[p]
  BY <1>3
<1>6. Ledger!Tell(i)
  BY <1>1, <1>2, <1>4, <1>5 DEF Ledger!Tell, Ledger!Announced, Told, Status, StatusOf, PieceNumbers
<1>7. QED
  BY <1>6 DEF Ledger!LedgerNext, PieceNumbers

\* Every step is a step of the ledger or none.
LEMMA LedgerStep ==
  TypeInv /\ ClaimInv /\ [Next]_vars => [Ledger!LedgerNext]_(Ledger!ledgerVars)
<1> SUFFICES ASSUME TypeInv, ClaimInv, [Next]_vars
             PROVE  [Ledger!LedgerNext]_<<Status, announced>>
  BY DEF Ledger!ledgerVars, Status, StatusOf, PieceNumbers
<1>1. CASE UNCHANGED <<have, downloading, announced>>
  BY <1>1 DEF Status, StatusOf
<1>2. ASSUME NEW p \in Peers, DownloaderNext(p)
      PROVE  [Ledger!LedgerNext]_<<Status, announced>>
  <2>1. CASE Check(p) \/ Ask(p) \/ AwaitUnchoke(p) \/ SkipMessage(p) \/ AcceptPiece(p) \/ RejectPiece(p)
    BY <1>1, <2>1 DEF Check, Ask, AwaitUnchoke, SkipMessage, AcceptPiece, RejectPiece, trackerVars
  <2>2. QED
    BY <1>2, <2>1, LedgerPick, LedgerSettle, LedgerAnnounce DEF DownloaderNext
<1>3. QED
  <2>1. CASE UNCHANGED vars \/ Panics
    BY <1>1, <2>1 DEF vars, phVars, runVars, Panics, MapThrow, RecvPanic, PiecePanic, trackerVars
  <2>2. CASE TorrentNext
    BY <1>1, <2>2 DEF TorrentNext, trackerVars
  <2>3. CASE \E q \in Peers : HandlerNext(q) \/ ReaderNext(q) \/ RemoteNext(q)
    BY <1>1, <2>3 DEF HandlerNext, ReaderNext, RemoteNext, trackerVars
  <2>4. QED
    BY <1>2, <2>1, <2>2, <2>3 DEF Next, PeerNext, Panics

\* The bit fields and announcements of a torrent, with all goroutines of all its
\* peers, implement PieceLedger: every step is a step of the ledger or none.
THEOREM DownloadImplementsLedger == Spec => LedgerSpec
<1>1. Spec => [](TypeInv /\ ClaimInv)
  BY ClaimAlways
<1>2. QED
  BY <1>1, LedgerInitially, LedgerStep, PTL DEF Spec, LedgerSpec, Ledger!LedgerSpec
-------------------------------------------------------------------------------
(* The requests *)

\* The messages that make a downloader that waits for a Piece go on, or end the wait.
Answering == Forwarded \cup {"Err"}

Waits(p) == dpc[p] = "awaitPiece" /\ Running(p) /\ ~ remoteChoking[p]
Coming(p) == \E msg \in UnderWay(p) : msg.id \in Answering

\* A goroutine that holds no message to pass on has none: what it takes from one
\* queue does not overwrite what is still to be put into the next.
HandsFree ==
  \A p \in Peers : (rpc[p] # "put" => rmsg[p] = Idle) /\ (hpc[p] # "forward" => hmsg[p] = Idle)

RequestInv == NoLostRequest /\ HandsFree

\* At first nobody waits and nothing is under way.
LEMMA RequestInit == Init => RequestInv
BY DEF Init, PHInit, RequestInv, NoLostRequest, HandsFree

\* The types of the queues between a remote and its downloader.
LEMMA PipelineTypes ==
  ASSUME TypeInv
  PROVE  /\ hpc \in [Peers -> HandlerPC] /\ rpc \in [Peers -> ReaderPC] /\ dpc \in [Peers -> DownloaderPC]
         /\ hmsg \in [Peers -> Message] /\ rmsg \in [Peers -> Message]
         /\ wire \in [Peers -> Seq(Message)] /\ readCh \in [Peers -> Seq(Message)]
         /\ downCh \in [Peers -> Seq(Message)] /\ requests \in [Peers -> Seq(Block)]
         /\ remoteChoking \in [Peers -> BOOLEAN]
BY DEF TypeInv, DownloadTypeOK, TypeOK, ControlOK, PipelineOK, DownloaderOK, RemoteOK

\* Sends and receives of messages, in terms of what is under way.
LEMMA MessagesMove ==
  /\ \A s \in Seq(Message), m \in Message : ElementsOf(Append(s, m)) = ElementsOf(s) \cup {m}
  /\ \A s \in Seq(Message) : s # <<>> => ElementsOf(s) = {Head(s)} \cup ElementsOf(Tail(s))
<1>1. ASSUME NEW s \in Seq(Message), NEW m \in Message
      PROVE  ElementsOf(Append(s, m)) = ElementsOf(s) \cup {m}
  BY ElementsAppend DEF ElementsOf
<1>2. ASSUME NEW s \in Seq(Message), s # <<>>
      PROVE  ElementsOf(s) = {Head(s)} \cup ElementsOf(Tail(s))
  BY <1>2, ElementsTail DEF ElementsOf
<1>3. QED
  BY <1>1, <1>2

\* The goroutines hold nothing but what they are passing on.
LEMMA HandsFreeStep == TypeInv /\ HandsFree /\ [Next]_vars => HandsFree'
<1> SUFFICES ASSUME TypeInv, HandsFree, [Next]_vars
             PROVE  HandsFree'
  OBVIOUS
<1>1. ASSUME NEW q \in Peers, HandlerNext(q)
      PROVE  HandsFree'
  <2>1. UNCHANGED rmsg /\ (UNCHANGED rpc \/ Register(q))
    BY <1>1 DEF HandlerNext, Handshake, HandleForwarded, Forward, HandleHave, HandleBitfield,
                HandleOther, HandleTruncated, HandleError, Fail, FromParent, Exit, Receive
  <2>2. \A p \in Peers : rpc'[p] # "put" => rpc[p] # "put"
    BY <2>1, PipelineTypes DEF Register, ReaderStep
  <2>3. CASE HandleForwarded(q)
    BY <2>1, <2>2, <2>3, PipelineTypes DEF HandsFree, HandleForwarded, HandlerStep, AfterFlag
  <2>4. CASE Forward(q)
    BY <2>1, <2>2, <2>4, PipelineTypes DEF HandsFree, Forward, HandlerStep
  <2>5. CASE ~ HandleForwarded(q) /\ ~ Forward(q)
    <3>1. UNCHANGED hmsg /\ \A p \in Peers : hpc[p] = "forward" => hpc'[p] = "forward"
      BY <1>1, <2>5, PipelineTypes DEF HandlerNext, Handshake, Register, HandleHave, HandleBitfield, HandleOther,
           HandleTruncated, HandleError, Fail, FromParent, Exit, Receive, HandlerStep
    <3>2. QED
      BY <2>1, <2>2, <3>1 DEF HandsFree
  <2>6. QED
    BY <2>3, <2>4, <2>5
<1>2. ASSUME NEW q \in Peers, ReaderNext(q)
      PROVE  HandsFree'
  BY <1>2, PipelineTypes DEF HandsFree, ReaderNext, Recv, Put, ReaderStep
<1>3. CASE UNCHANGED <<hpc, hmsg, rpc, rmsg>>
  BY <1>3 DEF HandsFree
<1>4. QED
  <2>1. CASE UNCHANGED vars \/ Panics
    BY <1>3, <2>1 DEF vars, phVars, runVars, Panics, MapThrow, RecvPanic, PiecePanic
  <2>2. CASE TorrentNext \/ \E q \in Peers : DownloaderNext(q) \/ RemoteNext(q)
    BY <1>3, <2>2 DEF TorrentNext, DownloaderNext, RemoteNext
  <2>3. QED
    BY <1>1, <1>2, <2>1, <2>2 DEF Next, PeerNext, Panics

-------------------------------------------------------------------------------
(* A wait that goes on keeps its request or its answer *)

\* A wait that went on before a step, and of which the step loses nothing.
LEMMA AnswerStays ==
  ASSUME NoLostRequest, NEW p \in Peers, Waits(p),
         requests[p] # <<>> => requests'[p] # <<>>,
         \A m \in UnderWay(p) : m.id \in Answering => m \in UnderWay(p)'
  PROVE  requests'[p] # <<>> \/ Coming(p)'
BY DEF NoLostRequest, Waits, Coming, Answering

\* The handler moves what it receives towards the downloader, and drops no answer
\* unless it ends.
LEMMA AnswerHandler ==
  ASSUME TypeInv, RequestInv, NEW q \in Peers, HandlerNext(q), UNCHANGED remoteVars,
         NEW p \in Peers, Waits(p)'
  PROVE  requests'[p] # <<>> \/ Coming(p)'
<1> USE PipelineTypes DEF Running, Waits, HandlerStep
<1>1. UNCHANGED <<rmsg, wire, requests, remoteChoking>>
  BY DEF HandlerNext, remoteVars
<1>2. CASE p # q
  <2>1. dpc'[p] = dpc[p]
    BY <1>2 DEF HandlerNext, Handshake, Register, HandleForwarded, Forward, HandleHave, HandleBitfield,
                HandleOther, HandleTruncated, HandleError, Fail, FromParent, Exit, Receive, DownloaderStep
  <2>2. hpc'[p] = hpc[p] /\ hmsg'[p] = hmsg[p]
    BY <1>2 DEF HandlerNext, Handshake, Register, HandleForwarded, Forward, HandleHave, HandleBitfield,
                HandleOther, HandleTruncated, HandleError, Fail, FromParent, Exit, Receive
  <2>3. readCh'[p] = readCh[p] /\ downCh'[p] = downCh[p]
    BY <1>2 DEF HandlerNext, Handshake, Register, HandleForwarded, Forward, HandleHave, HandleBitfield,
                HandleOther, HandleTruncated, HandleError, Fail, FromParent, Exit, Receive
  <2>4. UnderWay(p)' = UnderWay(p)
    BY <1>1, <2>2, <2>3 DEF UnderWay, ElementsOf
  <2>5. QED
    BY <1>1, <2>1, <2>2, <2>4, AnswerStays DEF RequestInv
<1>3. CASE p = q
  <2>1. CASE HandleForwarded(p) \/ HandleHave(p) \/ HandleBitfield(p) \/ HandleOther(p) \/ HandleTruncated(p)
    <3> DEFINE r == Received(p)
    <3>1. /\ hpc[p] = "loop" /\ readCh[p] # <<>> /\ readCh' = [readCh EXCEPT ![p] = Tail(@)]
          /\ UNCHANGED <<downCh, dpc>>
      BY <2>1 DEF HandleForwarded, HandleHave, HandleBitfield, HandleOther, HandleTruncated, Receive
    <3>2. \/ hmsg'[p] = r
          \/ r.id \notin Answering /\ UNCHANGED hmsg
      BY <2>1 DEF HandleForwarded, HandleHave, HandleBitfield, HandleOther, HandleTruncated, Receive, Answering, Forwarded
    <3>3. hmsg[p] = Idle /\ Idle.id \notin Answering
      BY <3>1 DEF RequestInv, HandsFree, Idle, Answering, Forwarded
    <3>4. ElementsOf(readCh[p]) = {r} \cup ElementsOf(readCh'[p])
      <4>1. readCh[p] \in Seq(Message) /\ readCh'[p] = Tail(readCh[p])
        BY <3>1
      <4>2. QED
        BY <3>1, <4>1, MessagesMove DEF Received
    <3>5. \A m \in UnderWay(p) : m.id \in Answering => m \in UnderWay(p)'
      BY <1>1, <3>1, <3>2, <3>3, <3>4 DEF UnderWay, ElementsOf
    <3>6. QED
      BY <1>1, <3>1, <3>5, AnswerStays DEF RequestInv
  <2>2. CASE Forward(p)
    <3>1. /\ hpc[p] = "forward" /\ downCh' = [downCh EXCEPT ![p] = Append(@, hmsg[p])]
          /\ UNCHANGED <<readCh, dpc>>
      BY <2>2 DEF Forward
    <3>2. ElementsOf(downCh'[p]) = ElementsOf(downCh[p]) \cup {hmsg[p]}
      <4>1. downCh'[p] = Append(downCh[p], hmsg[p]) /\ downCh[p] \in Seq(Message) /\ hmsg[p] \in Message
        BY <3>1
      <4>2. QED
        BY <4>1, MessagesMove
    <3>3. \A m \in UnderWay(p) : m \in UnderWay(p)'
      BY <1>1, <3>1, <3>2 DEF UnderWay, ElementsOf
    <3>4. QED
      BY <1>1, <3>1, <3>3, AnswerStays DEF RequestInv
  <2>3. CASE FromParent(p)
    <3>1. hpc[p] = "loop" /\ UNCHANGED <<hmsg, readCh, downCh, dpc>>
      BY <2>3 DEF FromParent
    <3>2. UnderWay(p)' = UnderWay(p)
      BY <1>1, <3>1 DEF UnderWay, ElementsOf
    <3>3. QED
      BY <1>1, <3>1, <3>2, AnswerStays DEF RequestInv
  \* The downloader starts with its first piece, and no other step leads to the loop.
  <2>4. CASE Register(p)
    BY <1>3, <2>4 DEF Register, DownloaderStep
  <2>5. CASE Handshake(p) \/ HandleError(p) \/ Fail(p) \/ Exit(p)
    BY <1>3, <2>5 DEF Handshake, HandleError, Fail, Exit
  <2>6. QED
    BY <1>3, <2>1, <2>2, <2>3, <2>4, <2>5 DEF HandlerNext
<1>4. QED
  BY <1>2, <1>3

\* The reader moves what the remote sends to the handler.
LEMMA AnswerReader ==
  ASSUME TypeInv, RequestInv, NEW q \in Peers, ReaderNext(q), UNCHANGED remoteVars,
         NEW p \in Peers, Waits(p)'
  PROVE  requests'[p] # <<>> \/ Coming(p)'
<1> USE PipelineTypes DEF Running, Waits, ReaderStep
<1>1. UNCHANGED <<hpc, hmsg, dpc, downCh, requests, remoteChoking>>
  BY DEF ReaderNext, remoteVars
<1>2. CASE p # q
  <2>1. rmsg'[p] = rmsg[p] /\ wire'[p] = wire[p] /\ readCh'[p] = readCh[p]
    BY <1>2 DEF ReaderNext, Recv, Put
  <2>2. UnderWay(p)' = UnderWay(p)
    BY <1>1, <2>1 DEF UnderWay, ElementsOf
  <2>3. QED
    BY <1>1, <2>2, AnswerStays DEF RequestInv
<1>3. CASE p = q /\ Recv(p)
  <2>1. rmsg[p] = Idle /\ Idle.id \notin Answering
    BY <1>3 DEF Recv, RequestInv, HandsFree, Idle, Answering, Forwarded
  <2>2. CASE /\ wire[p] # <<>> /\ rmsg' = [rmsg EXCEPT ![p] = Head(wire[p])]
             /\ wire' = [wire EXCEPT ![p] = Tail(@)]
    <3>1. ElementsOf(wire[p]) = {rmsg'[p]} \cup ElementsOf(wire'[p])
      <4>1. wire'[p] = Tail(wire[p]) /\ rmsg'[p] = Head(wire[p]) /\ wire[p] \in Seq(Message)
        BY <2>2
      <4>2. QED
        BY <2>2, <4>1, MessagesMove
    <3>2. \A m \in UnderWay(p) : m.id \in Answering => m \in UnderWay(p)'
      BY <1>1, <1>3, <2>1, <3>1 DEF UnderWay, ElementsOf, Recv
    <3>3. QED
      BY <1>1, <3>2, AnswerStays DEF RequestInv
  <2>3. CASE rmsg' = [rmsg EXCEPT ![p] = [id |-> "Err"]]
    BY <2>3 DEF Coming, UnderWay, Answering
  <2>4. QED
    BY <1>3, <2>2, <2>3 DEF Recv, Arrived
<1>4. CASE p = q /\ Put(p)
  <2>1. ElementsOf(readCh'[p]) = ElementsOf(readCh[p]) \cup {rmsg[p]}
    <3>1. readCh'[p] = Append(readCh[p], rmsg[p]) /\ readCh[p] \in Seq(Message) /\ rmsg[p] \in Message
      BY <1>4 DEF Put
    <3>2. QED
      BY <3>1, MessagesMove
  <2>2. \A m \in UnderWay(p) : m \in UnderWay(p)'
    BY <1>1, <1>4, <2>1 DEF UnderWay, ElementsOf, Put
  <2>3. QED
    BY <1>1, <2>2, AnswerStays DEF RequestInv
<1>5. QED
  BY <1>2, <1>3, <1>4 DEF ReaderNext

\* The downloader starts to wait only with a request, and takes no message while it
\* goes on waiting.
LEMMA AnswerDownloader ==
  ASSUME TypeInv, RequestInv, NEW q \in Peers, DownloaderNext(q), UNCHANGED remoteVars,
         NEW p \in Peers, Waits(p)'
  PROVE  requests'[p] # <<>> \/ Coming(p)'
<1> USE PipelineTypes DEF Running, Waits, DownloaderStep
<1>1. UNCHANGED <<hpc, hmsg, rmsg, wire, readCh, remoteChoking>>
  BY DEF DownloaderNext, remoteVars
<1>2. CASE p # q
  <2>1. dpc'[p] = dpc[p]
    BY <1>2 DEF DownloaderNext, Pick, Check, Ask, AwaitUnchoke, SkipMessage, AcceptPiece,
                RejectPiece, Settle, Announce
  <2>2. requests'[p] = requests[p] /\ downCh'[p] = downCh[p]
    BY <1>2 DEF DownloaderNext, Pick, Check, Ask, AwaitUnchoke, SkipMessage, AcceptPiece,
                RejectPiece, Settle, Announce, SendRequest, Take
  <2>3. UnderWay(p)' = UnderWay(p)
    BY <1>1, <2>2 DEF UnderWay, ElementsOf
  <2>4. QED
    BY <1>1, <2>1, <2>2, <2>3, AnswerStays DEF RequestInv
<1>3. CASE p = q /\ Ask(p)
  <2>1. Connected(p)
    BY <1>1 DEF Connected
  <2>2. requests'[p] = Append(requests[p], [index |-> piece[p], begin |-> begin[p],
                                            length |-> RequestLength(p)])
    BY <1>3, <2>1 DEF Ask, SendRequest
  <2>3. RequestLength(p) \in Nat
    BY <1>3, RequestLengthType
    DEF Ask, TypeInv, AsksForMore, Asking, DownloadTypeOK, TypeOK
  <2>4. [index |-> piece[p], begin |-> begin[p], length |-> RequestLength(p)] \in Block
    BY <2>3 DEF Block, TypeInv, DownloadTypeOK, TypeOK, DownloaderOK
  <2>5. requests[p] \in Seq(Block)
    OBVIOUS
  <2>6. QED
    BY <2>2, <2>4, <2>5, PutIsThere
<1>4. CASE p = q /\ ~ Ask(p)
  BY <1>4 DEF DownloaderNext, Pick, Check, AwaitUnchoke, SkipMessage, AcceptPiece, RejectPiece,
              Settle, Announce, Continue
<1>5. QED
  BY <1>2, <1>3, <1>4

\* A remote drops requests only while it chokes; what it says before it answers is
\* an UnChoke, and its answer is a Piece.
LEMMA AnswerRemote ==
  ASSUME TypeInv, RequestInv, NEW q \in Peers, RemoteNext(q), NEW p \in Peers, Waits(p)'
  PROVE  requests'[p] # <<>> \/ Coming(p)'
<1> USE PipelineTypes, OwnMessages DEF Running, Waits
<1>1. UNCHANGED <<hpc, hmsg, dpc, rmsg, readCh, downCh>>
  BY DEF RemoteNext
<1>2. CASE p # q
  <2>1. requests'[p] = requests[p] /\ remoteChoking'[p] = remoteChoking[p]
    BY <1>2 DEF RemoteNext, RemoteChoke, RemoteUnchoke, RemoteSays, RemoteAnswer, RemoteDrop
  <2>2. wire'[p] = wire[p]
    BY <1>2 DEF RemoteNext, RemoteChoke, RemoteUnchoke, RemoteSays, RemoteAnswer, RemoteDrop, Say
  <2>3. UnderWay(p)' = UnderWay(p)
    BY <1>1, <2>2 DEF UnderWay, ElementsOf
  <2>4. QED
    BY <1>1, <2>1, <2>3, AnswerStays DEF RequestInv
<1>3. ASSUME NEW m \in Message, wire' = [wire EXCEPT ![p] = Append(@, m)]
      PROVE  ElementsOf(wire'[p]) = ElementsOf(wire[p]) \cup {m}
  <2>1. wire'[p] = Append(wire[p], m) /\ wire[p] \in Seq(Message)
    BY <1>3
  <2>2. QED
    BY <2>1, MessagesMove
<1>4. ASSUME NEW m \in ElementsOf(wire'[p]), m.id \in Answering
      PROVE  Coming(p)'
  <2>1. m \in UnderWay(p)'
    BY <1>4 DEF UnderWay, ElementsOf
  <2>2. QED
    BY <1>4, <2>1 DEF Coming
<1>5. CASE p = q /\ (RemoteChoke(p) \/ RemoteDrop(p))
  BY <1>5 DEF RemoteChoke, RemoteDrop
<1>6. CASE p = q /\ RemoteUnchoke(p)
  <2>1. [id |-> "UnChoke"] \in Message /\ "UnChoke" \in Answering
    BY DEF Message, Answering, Forwarded
  <2>2. [id |-> "UnChoke"] \in ElementsOf(wire'[p])
    BY <1>3, <1>6, <2>1 DEF RemoteUnchoke, Say
  <2>3. QED
    BY <1>4, <2>1, <2>2
<1>7. CASE p = q /\ RemoteSays(p)
  <2>1. PICK m \in Message : wire' = [wire EXCEPT ![p] = Append(@, m)]
    BY <1>7, EnvironmentOK DEF RemoteSays, Say
  <2>2. UNCHANGED <<requests, remoteChoking>>
    BY <1>7 DEF RemoteSays
  <2>3. \A n \in UnderWay(p) : n \in UnderWay(p)'
    BY <1>1, <1>3, <2>1 DEF UnderWay, ElementsOf
  <2>4. QED
    BY <1>1, <2>2, <2>3, AnswerStays DEF RequestInv
<1>8. CASE p = q /\ RemoteAnswer(p)
  <2>1. PICK m \in Message : m.id = "Piece" /\ wire' = [wire EXCEPT ![p] = Append(@, m)]
    <3>1. Head(requests[p]) \in Block
      BY <1>8, Taking DEF RemoteAnswer
    <3>2. QED
      BY <1>8, <3>1 DEF RemoteAnswer, Say
  <2>2. m \in ElementsOf(wire'[p]) /\ m.id \in Answering
    BY <1>3, <2>1 DEF Answering, Forwarded
  <2>3. QED
    BY <1>4, <2>2
<1>9. QED
  BY <1>2, <1>5, <1>6, <1>7, <1>8 DEF RemoteNext

\* Every step keeps the request or the answer of a wait that goes on.
LEMMA RequestStep == TypeInv /\ RequestInv /\ [Next]_vars => RequestInv'
<1> SUFFICES ASSUME TypeInv, RequestInv, [Next]_vars
             PROVE  RequestInv'
  OBVIOUS
<1>1. HandsFree'
  BY HandsFreeStep DEF RequestInv
<1>2. ASSUME NEW p \in Peers, Waits(p)'
      PROVE  requests'[p] # <<>> \/ Coming(p)'
  <2>1. ASSUME UNCHANGED <<hpc, hmsg, rmsg, dpc, readCh, downCh, wire, requests, remoteChoking>>
        PROVE  requests'[p] # <<>> \/ Coming(p)'
    <3>1. Waits(p) /\ UnderWay(p)' = UnderWay(p)
      BY <1>2, <2>1 DEF Waits, Running, UnderWay, ElementsOf
    <3>2. QED
      BY <2>1, <3>1, AnswerStays DEF RequestInv
  <2>2. CASE UNCHANGED vars
    BY <2>1, <2>2 DEF vars, phVars, runVars, remoteVars
  <2>3. CASE Panics /\ UNCHANGED remoteVars
    BY <2>1, <2>3 DEF Panics, MapThrow, RecvPanic, PiecePanic, runVars, remoteVars
  <2>4. CASE TorrentNext
    BY <2>1, <2>4 DEF TorrentNext, remoteVars
  <2>5. QED
    BY <1>2, <2>2, <2>3, <2>4, AnswerHandler, AnswerReader, AnswerDownloader, AnswerRemote DEF Next, PeerNext, Panics
<1>3. NoLostRequest'
  BY <1>2 DEF NoLostRequest, Waits, Coming, Answering
<1>4. QED
  BY <1>1, <1>3 DEF RequestInv

\* A downloader that waits for a Piece from a remote that does not choke always has
\* its request with the remote, or an answer or the end of the connection coming,
\* whatever choking, unchoking and repeated requests happen in between.
THEOREM RequestNotLost == Spec => []NoLostRequest
<1>1. Init => TypeInv /\ RequestInv
  BY TypeInit, RequestInit
<1>2. TypeInv /\ RequestInv /\ [Next]_vars => (TypeInv /\ RequestInv)'
  BY TypeStep, RequestStep
<1>3. RequestInv => NoLostRequest
  BY DEF RequestInv
<1>4. QED
  BY <1>1, <1>2, <1>3, PTL DEF Spec
===============================================================================
