---------------------------- MODULE DownloadProofs ----------------------------
(***************************************************************************)
(* Theorems about Download, for every value of its constants.               *)
(***************************************************************************)
EXTENDS Download, TLAPS

USE ParametersOK, EnvironmentOK

-------------------------------------------------------------------------------
(* Data *)

\* What a message of each kind carries.
LEMMA MessageFields ==
  ASSUME NEW m \in Message
  PROVE  /\ m.id = "Have" => m.index \in Nat
         /\ m.id = "Bitfield" => m.bits \in SUBSET Nat
         /\ m.id = "Piece" => m.block \in Block
BY DEF Message, Block

\* What a block is made of.
LEMMA BlockFields ==
  ASSUME NEW b \in Block
  PROVE  b.index \in Nat /\ b.begin \in Nat /\ b.length \in Nat
BY DEF Block

\* The messages that are put together in the handlers.
LEMMA OwnMessages ==
  /\ Idle \in Message /\ [id |-> "Err"] \in Message
  /\ [id |-> "Success"] \in ParentMessage /\ [id |-> "TotalFailure"] \in ParentMessage
  /\ \A p \in Peers : [id |-> "Exiting", child |-> p] \in ParentMessage
  /\ \A i \in Nat : [id |-> "Have", index |-> i] \in ParentMessage
  /\ \A b \in Block, ok \in BOOLEAN : [id |-> "Piece", block |-> b, ok |-> ok] \in Message
BY DEF Idle, Message, ParentMessage

\* A Have from a downloader can be passed on to the children as it is.
LEMMA AnnouncedMessage ==
  ASSUME NEW m \in ParentMessage, m.id = "Have"
  PROVE  m \in ChildMessage
BY DEF ParentMessage, ChildMessage

\* Taking the first element of a channel.
LEMMA Taking ==
  ASSUME NEW S, NEW s \in Seq(S), s # <<>>
  PROVE  Head(s) \in S /\ Tail(s) \in Seq(S)
OBVIOUS

\* Appending one.
LEMMA Putting ==
  ASSUME NEW S, NEW s \in Seq(S), NEW e \in S
  PROVE  Append(s, e) \in Seq(S)
OBVIOUS

\* A channel that was sent on is not empty.
LEMMA PutIsThere ==
  ASSUME NEW S, NEW s \in Seq(S), NEW e \in S
  PROVE  Append(s, e) # <<>>
OBVIOUS

\* Marking a piece adds its bit and no other.
LEMMA SetPieceAdds ==
  ASSUME NEW bits, NEW i \in Nat
  PROVE  SetPiece(bits, i) = bits \cup {i}
<1>1. 7 - (i % 8) <= 7
  OBVIOUS
<1>2. 8 * (i \div 8) + 7 - (7 - (i % 8)) = i
  OBVIOUS
<1>3. QED
  BY <1>1, <1>2 DEF SetPiece, Bit

\* A remote's Have marks a natural number, or nothing.
LEMMA OrHaveType ==
  ASSUME NEW bits \in SUBSET Nat, NEW i \in Nat
  PROVE  OrHave(bits, i) \in SUBSET Nat
<1>1. i \div 8 \in Nat /\ i % 8 \in 0 .. 7
  OBVIOUS
<1>2. Bit(i \div 8, 8 - (i % 8)) \in SUBSET Nat
  BY <1>1 DEF Bit
<1>3. QED
  BY <1>2 DEF OrHave

-------------------------------------------------------------------------------
(* Type correctness *)

\* A downloader that is still asking has something left to ask for.
Asking(p) == dpc[p] \in {"check", "ask", "awaitUnchoke", "awaitPiece"}
AsksForMore == \A p \in Peers : Asking(p) => begin[p] < plen[p]

TypeInv == DownloadTypeOK /\ AsksForMore

\* The initial state is well typed.
LEMMA TypeInit == Init => TypeInv
<1> SUFFICES ASSUME Init
             PROVE  TypeInv
  OBVIOUS
<1> USE DEF Init, PHInit
<1>1. ControlOK /\ AsksForMore
  BY DEF ControlOK, HandlerPC, ReaderPC, DownloaderPC, AsksForMore, Asking
<1>2. PipelineOK
  BY DEF PipelineOK, Idle, Message
<1>3. DownloaderOK /\ PeerOK /\ TrackerOK /\ ComOK /\ RemoteOK
  BY DEF DownloaderOK, PeerOK, TrackerOK, ComOK, RemoteOK
<1>4. TorrentOK
  BY DEF TorrentOK, ChildMessage
<1>5. QED
  BY <1>1, <1>2, <1>3, <1>4 DEF TypeInv, DownloadTypeOK, TypeOK

\* The steps of a handler keep the types.
LEMMA TypeHandler ==
  ASSUME TypeInv, NEW p \in Peers, HandlerNext(p), UNCHANGED <<torrentVars, remoteVars>>
  PROVE  TypeInv'
<1>1. CASE Handshake(p)
  <2> USE <1>1 DEF HandlerNext, Handshake, HandlerStep, SendParent, torrentVars, remoteVars,
         downloaderVars, trackerVars, mapVars
  <2>1. ControlOK'
    BY DEF TypeInv, DownloadTypeOK, TypeOK, ControlOK, HandlerPC
  <2>2. ComOK'
    <3>1. parentCh \in Seq(ParentMessage)
      BY DEF TypeInv, DownloadTypeOK, TypeOK, ComOK
    <3>2. \E m \in {[id |-> "Success"], [id |-> "TotalFailure"]} : parentCh' = Append(parentCh, m)
      OBVIOUS
    <3>3. parentCh' \in Seq(ParentMessage)
      BY <3>1, <3>2, OwnMessages, Putting
    <3>4. QED
      BY <3>3 DEF TypeInv, DownloadTypeOK, TypeOK, ComOK
  <2>3. (PipelineOK /\ DownloaderOK /\ PeerOK /\ TrackerOK /\ TorrentOK /\ RemoteOK /\ AsksForMore)'
    BY DEF TypeInv, DownloadTypeOK, TypeOK, PipelineOK, DownloaderOK, PeerOK, TrackerOK,
           TorrentOK, RemoteOK, AsksForMore, Asking
  <2>4. QED
    BY <2>1, <2>2, <2>3 DEF TypeInv, DownloadTypeOK, TypeOK
<1>2. CASE Register(p)
  <2> USE <1>2 DEF HandlerNext, Register, HandlerStep, ReaderStep, DownloaderStep, torrentVars,
         remoteVars, downloaderVars, trackerVars, mapVars
  <2>1. ControlOK'
    BY DEF TypeInv, DownloadTypeOK, TypeOK, ControlOK, HandlerPC, ReaderPC, DownloaderPC
  <2>2. AsksForMore'
    BY DEF TypeInv, DownloadTypeOK, TypeOK, AsksForMore, Asking, ControlOK
  <2>3. PeerOK'
    BY DEF TypeInv, DownloadTypeOK, TypeOK, PeerOK
  <2>4. ComOK'
    BY DEF TypeInv, DownloadTypeOK, TypeOK, ComOK
  <2>5. (PipelineOK /\ DownloaderOK /\ TrackerOK /\ TorrentOK /\ RemoteOK)'
    BY DEF TypeInv, DownloadTypeOK, TypeOK, PipelineOK, DownloaderOK, TrackerOK, TorrentOK, RemoteOK
  <2>6. QED
    BY <2>1, <2>2, <2>3, <2>4, <2>5 DEF TypeInv, DownloadTypeOK, TypeOK
<1>3. CASE HandleForwarded(p)
  <2> USE <1>3 DEF HandlerNext, HandleForwarded, Receive, Received, HandlerStep, AfterFlag,
         torrentVars, remoteVars, downloaderVars, trackerVars, mapVars
  <2>1. ControlOK'
    BY DEF TypeInv, DownloadTypeOK, TypeOK, ControlOK, HandlerPC
  <2>2. PipelineOK'
    BY Taking DEF TypeInv, DownloadTypeOK, TypeOK, PipelineOK
  <2>3. PeerOK'
    BY DEF TypeInv, DownloadTypeOK, TypeOK, PeerOK
  <2>4. (DownloaderOK /\ TrackerOK /\ ComOK /\ TorrentOK /\ RemoteOK /\ AsksForMore)'
    BY DEF TypeInv, DownloadTypeOK, TypeOK, DownloaderOK, TrackerOK, ComOK, TorrentOK, RemoteOK,
           AsksForMore, Asking
  <2>5. QED
    BY <2>1, <2>2, <2>3, <2>4 DEF TypeInv, DownloadTypeOK, TypeOK
<1>4. CASE Forward(p)
  <2> USE <1>4 DEF HandlerNext, Forward, HandlerStep, torrentVars, remoteVars, downloaderVars,
         trackerVars, mapVars
  <2>1. ControlOK'
    BY DEF TypeInv, DownloadTypeOK, TypeOK, ControlOK, HandlerPC
  <2>2. PipelineOK'
    BY DEF TypeInv, DownloadTypeOK, TypeOK, PipelineOK, Idle, Message
  <2>3. (DownloaderOK /\ PeerOK /\ TrackerOK /\ ComOK /\ TorrentOK /\ RemoteOK /\ AsksForMore)'
    BY DEF TypeInv, DownloadTypeOK, TypeOK, DownloaderOK, PeerOK, TrackerOK, ComOK, TorrentOK,
           RemoteOK, AsksForMore, Asking
  <2>4. QED
    BY <2>1, <2>2, <2>3 DEF TypeInv, DownloadTypeOK, TypeOK
<1>5. CASE HandleHave(p)
  <2> USE <1>5 DEF HandlerNext, HandleHave, Receive, Received, HandlerStep, torrentVars,
         remoteVars, downloaderVars, trackerVars, mapVars
  <2>1. ControlOK'
    BY DEF TypeInv, DownloadTypeOK, TypeOK, ControlOK, HandlerPC
  <2>2. PipelineOK'
    BY Taking DEF TypeInv, DownloadTypeOK, TypeOK, PipelineOK
  <2>3. PeerOK'
    <3>1. Received(p) \in Message /\ Received(p).id = "Have"
      BY Taking DEF TypeInv, DownloadTypeOK, TypeOK, PipelineOK
    <3>2. OrHave(remoteBits[p], Received(p).index) \in SUBSET Nat
      BY <3>1, MessageFields, OrHaveType DEF TypeInv, DownloadTypeOK, TypeOK, PeerOK
    <3>3. QED
      BY <3>2 DEF TypeInv, DownloadTypeOK, TypeOK, PeerOK
  <2>4. (DownloaderOK /\ TrackerOK /\ ComOK /\ TorrentOK /\ RemoteOK /\ AsksForMore)'
    BY DEF TypeInv, DownloadTypeOK, TypeOK, DownloaderOK, TrackerOK, ComOK, TorrentOK, RemoteOK,
           AsksForMore, Asking
  <2>5. QED
    BY <2>1, <2>2, <2>3, <2>4 DEF TypeInv, DownloadTypeOK, TypeOK
<1>6. CASE HandleBitfield(p)
  <2> USE <1>6 DEF HandlerNext, HandleBitfield, Receive, Received, torrentVars, remoteVars,
         downloaderVars, trackerVars, mapVars
  <2>1. PipelineOK'
    BY Taking DEF TypeInv, DownloadTypeOK, TypeOK, PipelineOK
  <2>2. PeerOK'
    BY Taking, MessageFields DEF TypeInv, DownloadTypeOK, TypeOK, PeerOK, PipelineOK
  <2>3. (ControlOK /\ DownloaderOK /\ TrackerOK /\ ComOK /\ TorrentOK /\ RemoteOK /\ AsksForMore)'
    BY DEF TypeInv, DownloadTypeOK, TypeOK, ControlOK, DownloaderOK, TrackerOK, ComOK,
           TorrentOK, RemoteOK, AsksForMore, Asking
  <2>4. QED
    BY <2>1, <2>2, <2>3 DEF TypeInv, DownloadTypeOK, TypeOK
<1>7. CASE HandleOther(p)
  <2> USE <1>7 DEF HandlerNext, HandleOther, Receive, Received, torrentVars, remoteVars,
         downloaderVars, trackerVars, mapVars
  <2>1. PipelineOK'
    BY Taking DEF TypeInv, DownloadTypeOK, TypeOK, PipelineOK
  <2>2. (ControlOK /\ DownloaderOK /\ PeerOK /\ TrackerOK /\ ComOK /\ TorrentOK /\ RemoteOK /\ AsksForMore)'
    BY DEF TypeInv, DownloadTypeOK, TypeOK, ControlOK, DownloaderOK, PeerOK, TrackerOK, ComOK,
           TorrentOK, RemoteOK, AsksForMore, Asking
  <2>3. QED
    BY <2>1, <2>2 DEF TypeInv, DownloadTypeOK, TypeOK
<1>8. CASE HandleError(p)
  <2> USE <1>8 DEF HandlerNext, HandleError, Receive, Received, HandlerStep, torrentVars,
         remoteVars, downloaderVars, trackerVars, mapVars
  <2>1. ControlOK'
    BY DEF TypeInv, DownloadTypeOK, TypeOK, ControlOK, HandlerPC
  <2>2. PipelineOK'
    BY Taking DEF TypeInv, DownloadTypeOK, TypeOK, PipelineOK
  <2>3. (DownloaderOK /\ PeerOK /\ TrackerOK /\ ComOK /\ TorrentOK /\ RemoteOK /\ AsksForMore)'
    BY DEF TypeInv, DownloadTypeOK, TypeOK, DownloaderOK, PeerOK, TrackerOK, ComOK, TorrentOK,
           RemoteOK, AsksForMore, Asking
  <2>4. QED
    BY <2>1, <2>2, <2>3 DEF TypeInv, DownloadTypeOK, TypeOK
<1>9. CASE Fail(p)
  <2> USE <1>9 DEF HandlerNext, Fail, HandlerStep, SendParent, torrentVars, remoteVars,
         downloaderVars, trackerVars, mapVars
  <2>1. ControlOK'
    BY DEF TypeInv, DownloadTypeOK, TypeOK, ControlOK, HandlerPC
  <2>2. ComOK'
    <3>1. parentCh \in Seq(ParentMessage)
      BY DEF TypeInv, DownloadTypeOK, TypeOK, ComOK
    <3>2. parentCh' \in Seq(ParentMessage)
      BY <3>1, OwnMessages, Putting
    <3>3. QED
      BY <3>2 DEF TypeInv, DownloadTypeOK, TypeOK, ComOK
  <2>3. (PipelineOK /\ DownloaderOK /\ PeerOK /\ TrackerOK /\ TorrentOK /\ RemoteOK /\ AsksForMore)'
    BY DEF TypeInv, DownloadTypeOK, TypeOK, PipelineOK, DownloaderOK, PeerOK, TrackerOK,
           TorrentOK, RemoteOK, AsksForMore, Asking
  <2>4. QED
    BY <2>1, <2>2, <2>3 DEF TypeInv, DownloadTypeOK, TypeOK
<1>10. CASE FromParent(p)
  <2> USE <1>10 DEF HandlerNext, FromParent, HandlerStep, torrentVars, remoteVars,
         downloaderVars, trackerVars, mapVars
  <2>1. ControlOK'
    BY DEF TypeInv, DownloadTypeOK, TypeOK, ControlOK, HandlerPC
  <2>2. ComOK'
    BY Taking DEF TypeInv, DownloadTypeOK, TypeOK, ComOK
  <2>3. (PipelineOK /\ DownloaderOK /\ PeerOK /\ TrackerOK /\ TorrentOK /\ RemoteOK /\ AsksForMore)'
    BY DEF TypeInv, DownloadTypeOK, TypeOK, PipelineOK, DownloaderOK, PeerOK, TrackerOK,
           TorrentOK, RemoteOK, AsksForMore, Asking
  <2>4. QED
    BY <2>1, <2>2, <2>3 DEF TypeInv, DownloadTypeOK, TypeOK
<1>11. CASE Exit(p)
  <2> USE <1>11 DEF HandlerNext, Exit, HandlerStep, SendParent, torrentVars, remoteVars,
         downloaderVars, trackerVars, mapVars
  <2>1. ControlOK'
    BY DEF TypeInv, DownloadTypeOK, TypeOK, ControlOK, HandlerPC
  <2>2. ComOK'
    <3>1. parentCh \in Seq(ParentMessage)
      BY DEF TypeInv, DownloadTypeOK, TypeOK, ComOK
    <3>2. UNCHANGED parentCh \/ parentCh' = Append(parentCh, [id |-> "Exiting", child |-> p])
      OBVIOUS
    <3>3. [id |-> "Exiting", child |-> p] \in ParentMessage
      BY OwnMessages
    <3>4. Append(parentCh, [id |-> "Exiting", child |-> p]) \in Seq(ParentMessage)
      BY <3>1, <3>3, Putting
    <3>5. parentCh' \in Seq(ParentMessage)
      BY <3>1, <3>2, <3>4
    <3>6. QED
      BY <3>5 DEF TypeInv, DownloadTypeOK, TypeOK, ComOK
  <2>3. (PipelineOK /\ DownloaderOK /\ PeerOK /\ TrackerOK /\ TorrentOK /\ RemoteOK /\ AsksForMore)'
    BY DEF TypeInv, DownloadTypeOK, TypeOK, PipelineOK, DownloaderOK, PeerOK, TrackerOK,
           TorrentOK, RemoteOK, AsksForMore, Asking
  <2>4. QED
    BY <2>1, <2>2, <2>3 DEF TypeInv, DownloadTypeOK, TypeOK
<1>12. CASE HandleTruncated(p)
  <2> USE <1>12 DEF HandlerNext, HandleTruncated, Receive, Received, torrentVars, remoteVars,
         downloaderVars, trackerVars, mapVars
  <2>1. PipelineOK'
    BY Taking DEF TypeInv, DownloadTypeOK, TypeOK, PipelineOK
  <2>2. (ControlOK /\ DownloaderOK /\ PeerOK /\ TrackerOK /\ ComOK /\ TorrentOK /\ RemoteOK /\ AsksForMore)'
    BY DEF TypeInv, DownloadTypeOK, TypeOK, ControlOK, DownloaderOK, PeerOK, TrackerOK, ComOK,
           TorrentOK, RemoteOK, AsksForMore, Asking
  <2>3. QED
    BY <2>1, <2>2 DEF TypeInv, DownloadTypeOK, TypeOK
<1>13. QED
  BY <1>1, <1>2, <1>3, <1>4, <1>5, <1>6, <1>7, <1>8, <1>9, <1>10, <1>11, <1>12 DEF HandlerNext

\* The steps of a reader keep the types.
LEMMA TypeReader ==
  ASSUME TypeInv, NEW p \in Peers, ReaderNext(p), UNCHANGED <<torrentVars, remoteVars>>
  PROVE  TypeInv'
<1>1. CASE Recv(p)
  <2> USE <1>1 DEF ReaderNext, Recv, ReaderStep, torrentVars, remoteVars, downloaderVars,
         trackerVars, mapVars
  <2>1. ControlOK'
    BY DEF TypeInv, DownloadTypeOK, TypeOK, ControlOK, ReaderPC
  <2>2. PipelineOK'
    <3>1. wire[p] \in Seq(Message)
      BY DEF TypeInv, DownloadTypeOK, TypeOK, PipelineOK
    <3>8. wire[p] # <<>> => Head(wire[p]) \in Message /\ Tail(wire[p]) \in Seq(Message)
      BY <3>1, Taking
    <3>2. \E m \in Message : rmsg' = [rmsg EXCEPT ![p] = m]
      BY <3>8, OwnMessages DEF Arrived
    <3>3. \/ UNCHANGED wire
          \/ \E w \in Seq(Message) : wire' = [wire EXCEPT ![p] = w]
      BY <3>8 DEF Arrived
    <3>4. rmsg' \in [Peers -> Message]
      BY <3>2 DEF TypeInv, DownloadTypeOK, TypeOK, PipelineOK
    <3>5. wire' \in [Peers -> Seq(Message)]
      BY <3>3 DEF TypeInv, DownloadTypeOK, TypeOK, PipelineOK
    <3>6. UNCHANGED <<hmsg, readCh, downCh>>
      OBVIOUS
    <3>7. QED
      BY <3>4, <3>5, <3>6 DEF TypeInv, DownloadTypeOK, TypeOK, PipelineOK
  <2>3. (DownloaderOK /\ PeerOK /\ TrackerOK /\ ComOK /\ TorrentOK /\ RemoteOK /\ AsksForMore)'
    BY DEF TypeInv, DownloadTypeOK, TypeOK, DownloaderOK, PeerOK, TrackerOK, ComOK, TorrentOK,
           RemoteOK, AsksForMore, Asking
  <2>4. QED
    BY <2>1, <2>2, <2>3 DEF TypeInv, DownloadTypeOK, TypeOK
<1>2. CASE Put(p)
  <2> USE <1>2 DEF ReaderNext, Put, ReaderStep, torrentVars, remoteVars, downloaderVars,
         trackerVars, mapVars
  <2>1. ControlOK'
    BY DEF TypeInv, DownloadTypeOK, TypeOK, ControlOK, ReaderPC
  <2>2. PipelineOK'
    BY DEF TypeInv, DownloadTypeOK, TypeOK, PipelineOK, Idle, Message
  <2>3. (DownloaderOK /\ PeerOK /\ TrackerOK /\ ComOK /\ TorrentOK /\ RemoteOK /\ AsksForMore)'
    BY DEF TypeInv, DownloadTypeOK, TypeOK, DownloaderOK, PeerOK, TrackerOK, ComOK, TorrentOK,
           RemoteOK, AsksForMore, Asking
  <2>4. QED
    BY <2>1, <2>2, <2>3 DEF TypeInv, DownloadTypeOK, TypeOK
<1>3. QED
  BY <1>1, <1>2 DEF ReaderNext

\* The piece that is claimed is a natural number.
LEMMA FoundType ==
  ASSUME NEW d, NEW r, NEW i \in FindFreePieceIndex(d, r, NumHashes)
  PROVE  i \in Nat /\ i \notin d
BY DEF FindFreePieceIndex, FreePieces, LocalAvailable

\* A request that is made before the end of the piece asks for at least a byte.
LEMMA RequestLengthType ==
  ASSUME DownloaderOK, NEW p \in Peers, begin[p] < plen[p]
  PROVE  RequestLength(p) \in Nat \ {0}
<1>1. begin[p] \in Nat /\ plen[p] \in Int
  BY DEF DownloaderOK
<1>2. QED
  BY <1>1 DEF RequestLength

\* The steps of a downloader keep the types.
LEMMA TypeDownloader ==
  ASSUME TypeInv, NEW p \in Peers, DownloaderNext(p), UNCHANGED <<torrentVars, remoteVars>>
  PROVE  TypeInv'
<1>1. CASE Pick(p)
  <2> USE <1>1 DEF DownloaderNext, Pick, DownloaderStep, torrentVars, remoteVars,
         downloaderVars, trackerVars, mapVars
  <2>1. ControlOK'
    BY DEF TypeInv, DownloadTypeOK, TypeOK, ControlOK, DownloaderPC, Continue
  <2>2. DownloaderOK'
    <3>1. \/ UNCHANGED downloaderVars
          \/ \E i \in Nat, len \in Int :
               /\ piece' = [piece EXCEPT ![p] = i] /\ begin' = [begin EXCEPT ![p] = 0]
               /\ plen' = [plen EXCEPT ![p] = len]
      BY FoundType DEF TypeInv, DownloadTypeOK, TypeOK, TrackerOK
    <3>2. UNCHANGED requests
      OBVIOUS
    <3>3. QED
      BY <3>1, <3>2 DEF TypeInv, DownloadTypeOK, TypeOK, DownloaderOK
  <2>3. TrackerOK'
    <3>1. \/ UNCHANGED downloading
          \/ \E i \in Nat : downloading' = downloading \cup {i}
      BY FoundType, SetPieceAdds
    <3>2. QED
      BY <3>1 DEF TypeInv, DownloadTypeOK, TypeOK, TrackerOK
  <2>4. AsksForMore'
    BY DEF TypeInv, DownloadTypeOK, TypeOK, AsksForMore, Asking, ControlOK, DownloaderOK, Continue
  <2>5. (PipelineOK /\ PeerOK /\ ComOK /\ TorrentOK /\ RemoteOK)'
    BY DEF TypeInv, DownloadTypeOK, TypeOK, PipelineOK, PeerOK, ComOK, TorrentOK, RemoteOK
  <2>6. QED
    BY <2>1, <2>2, <2>3, <2>4, <2>5 DEF TypeInv, DownloadTypeOK, TypeOK
<1>2. CASE Check(p)
  <2> USE <1>2 DEF DownloaderNext, Check, DownloaderStep, torrentVars, remoteVars,
         downloaderVars, trackerVars, mapVars
  <2>1. ControlOK'
    BY DEF TypeInv, DownloadTypeOK, TypeOK, ControlOK, DownloaderPC
  <2>2. AsksForMore'
    BY DEF TypeInv, DownloadTypeOK, TypeOK, AsksForMore, Asking, ControlOK
  <2>3. (PipelineOK /\ DownloaderOK /\ PeerOK /\ TrackerOK /\ ComOK /\ TorrentOK /\ RemoteOK)'
    BY DEF TypeInv, DownloadTypeOK, TypeOK, PipelineOK, DownloaderOK, PeerOK, TrackerOK, ComOK,
           TorrentOK, RemoteOK
  <2>4. QED
    BY <2>1, <2>2, <2>3 DEF TypeInv, DownloadTypeOK, TypeOK
<1>3. CASE Ask(p)
  <2> USE <1>3 DEF DownloaderNext, Ask, SendRequest, DownloaderStep, torrentVars, remoteVars,
         downloaderVars, trackerVars, mapVars
  <2>1. ControlOK'
    BY DEF TypeInv, DownloadTypeOK, TypeOK, ControlOK, DownloaderPC
  <2>2. AsksForMore'
    BY DEF TypeInv, DownloadTypeOK, TypeOK, AsksForMore, Asking, ControlOK
  <2>3. DownloaderOK'
    <3>1. begin[p] < plen[p]
      BY DEF TypeInv, AsksForMore, Asking
    <3>2. piece[p] \in Nat /\ begin[p] \in Nat /\ RequestLength(p) \in Nat
      BY <3>1, RequestLengthType DEF TypeInv, DownloadTypeOK, TypeOK, DownloaderOK
    <3>3. [index |-> piece[p], begin |-> begin[p], length |-> RequestLength(p)] \in Block
      BY <3>2 DEF Block
    <3>4. QED
      BY <3>3, Putting DEF TypeInv, DownloadTypeOK, TypeOK, DownloaderOK
  <2>4. (PipelineOK /\ PeerOK /\ TrackerOK /\ ComOK /\ TorrentOK /\ RemoteOK)'
    BY DEF TypeInv, DownloadTypeOK, TypeOK, PipelineOK, PeerOK, TrackerOK, ComOK, TorrentOK,
           RemoteOK
  <2>5. QED
    BY <2>1, <2>2, <2>3, <2>4 DEF TypeInv, DownloadTypeOK, TypeOK
<1>4. CASE AwaitUnchoke(p)
  <2> USE <1>4 DEF DownloaderNext, AwaitUnchoke, DownloaderStep, Take, torrentVars, remoteVars,
         downloaderVars, trackerVars, mapVars
  <2>1. ControlOK'
    BY DEF TypeInv, DownloadTypeOK, TypeOK, ControlOK, DownloaderPC
  <2>2. AsksForMore'
    BY DEF TypeInv, DownloadTypeOK, TypeOK, AsksForMore, Asking, ControlOK
  <2>3. PipelineOK'
    BY Taking DEF TypeInv, DownloadTypeOK, TypeOK, PipelineOK
  <2>4. (DownloaderOK /\ PeerOK /\ TrackerOK /\ ComOK /\ TorrentOK /\ RemoteOK)'
    BY DEF TypeInv, DownloadTypeOK, TypeOK, DownloaderOK, PeerOK, TrackerOK, ComOK, TorrentOK,
           RemoteOK
  <2>5. QED
    BY <2>1, <2>2, <2>3, <2>4 DEF TypeInv, DownloadTypeOK, TypeOK
<1>5. CASE SkipMessage(p)
  <2> USE <1>5 DEF DownloaderNext, SkipMessage, DownloaderStep, Take, torrentVars, remoteVars,
         downloaderVars, trackerVars, mapVars
  <2>1. ControlOK'
    BY DEF TypeInv, DownloadTypeOK, TypeOK, ControlOK, DownloaderPC
  <2>2. AsksForMore'
    BY DEF TypeInv, DownloadTypeOK, TypeOK, AsksForMore, Asking, ControlOK
  <2>3. PipelineOK'
    BY Taking DEF TypeInv, DownloadTypeOK, TypeOK, PipelineOK
  <2>4. (DownloaderOK /\ PeerOK /\ TrackerOK /\ ComOK /\ TorrentOK /\ RemoteOK)'
    BY DEF TypeInv, DownloadTypeOK, TypeOK, DownloaderOK, PeerOK, TrackerOK, ComOK, TorrentOK,
           RemoteOK
  <2>5. QED
    BY <2>1, <2>2, <2>3, <2>4 DEF TypeInv, DownloadTypeOK, TypeOK
<1>6. CASE AcceptPiece(p)
  <2> USE <1>6 DEF DownloaderNext, AcceptPiece, WriteData, DownloaderStep, Take, torrentVars,
         remoteVars, downloaderVars, trackerVars, mapVars
  <2>1. ControlOK'
    BY DEF TypeInv, DownloadTypeOK, TypeOK, ControlOK, DownloaderPC, Continue
  <2>2. PipelineOK'
    BY Taking DEF TypeInv, DownloadTypeOK, TypeOK, PipelineOK
  <2>3. DownloaderOK'
    BY DEF TypeInv, DownloadTypeOK, TypeOK, DownloaderOK, AsksForMore, Asking, RequestLength
  <2>4. TrackerOK'
    BY Taking, MessageFields, BlockFields DEF TypeInv, DownloadTypeOK, TypeOK, TrackerOK, PipelineOK
  <2>5. AsksForMore'
    BY DEF TypeInv, DownloadTypeOK, TypeOK, AsksForMore, Asking, ControlOK, DownloaderOK, Continue
  <2>6. (PeerOK /\ ComOK /\ TorrentOK /\ RemoteOK)'
    BY DEF TypeInv, DownloadTypeOK, TypeOK, PeerOK, ComOK, TorrentOK, RemoteOK
  <2>7. QED
    BY <2>1, <2>2, <2>3, <2>4, <2>5, <2>6 DEF TypeInv, DownloadTypeOK, TypeOK
<1>7. CASE RejectPiece(p)
  <2> USE <1>7 DEF DownloaderNext, RejectPiece, DownloaderStep, Take, torrentVars, remoteVars,
         downloaderVars, trackerVars, mapVars
  <2>1. ControlOK'
    BY DEF TypeInv, DownloadTypeOK, TypeOK, ControlOK, DownloaderPC
  <2>2. AsksForMore'
    BY DEF TypeInv, DownloadTypeOK, TypeOK, AsksForMore, Asking, ControlOK
  <2>3. PipelineOK'
    BY Taking DEF TypeInv, DownloadTypeOK, TypeOK, PipelineOK
  <2>4. (DownloaderOK /\ PeerOK /\ TrackerOK /\ ComOK /\ TorrentOK /\ RemoteOK)'
    BY DEF TypeInv, DownloadTypeOK, TypeOK, DownloaderOK, PeerOK, TrackerOK, ComOK, TorrentOK,
           RemoteOK
  <2>5. QED
    BY <2>1, <2>2, <2>3, <2>4 DEF TypeInv, DownloadTypeOK, TypeOK
<1>8. CASE Settle(p)
  <2> USE <1>8 DEF DownloaderNext, Settle, DownloaderStep, torrentVars, remoteVars,
         downloaderVars, trackerVars, mapVars
  <2>1. ControlOK'
    BY DEF TypeInv, DownloadTypeOK, TypeOK, ControlOK, DownloaderPC
  <2>2. AsksForMore'
    BY DEF TypeInv, DownloadTypeOK, TypeOK, AsksForMore, Asking, ControlOK
  <2>3. TrackerOK'
    <3>1. piece[p] \in Nat
      BY DEF TypeInv, DownloadTypeOK, TypeOK, DownloaderOK
    <3>2. have' = have \cup {piece[p]}
      BY <3>1, SetPieceAdds
    <3>3. QED
      BY <3>1, <3>2 DEF TypeInv, DownloadTypeOK, TypeOK, TrackerOK
  <2>4. (PipelineOK /\ DownloaderOK /\ PeerOK /\ ComOK /\ TorrentOK /\ RemoteOK)'
    BY DEF TypeInv, DownloadTypeOK, TypeOK, PipelineOK, DownloaderOK, PeerOK, ComOK, TorrentOK,
           RemoteOK
  <2>5. QED
    BY <2>1, <2>2, <2>3, <2>4 DEF TypeInv, DownloadTypeOK, TypeOK
<1>9. CASE Announce(p)
  <2> USE <1>9 DEF DownloaderNext, Announce, DownloaderStep, SendParent, torrentVars,
         remoteVars, downloaderVars, trackerVars, mapVars
  <2>1. ControlOK'
    BY DEF TypeInv, DownloadTypeOK, TypeOK, ControlOK, DownloaderPC
  <2>2. AsksForMore'
    BY DEF TypeInv, DownloadTypeOK, TypeOK, AsksForMore, Asking, ControlOK
  <2>3. TrackerOK'
    BY DEF TypeInv, DownloadTypeOK, TypeOK, TrackerOK, DownloaderOK
  <2>4. ComOK'
    BY DEF TypeInv, DownloadTypeOK, TypeOK, ComOK, ParentMessage, DownloaderOK
  <2>5. (PipelineOK /\ DownloaderOK /\ PeerOK /\ TorrentOK /\ RemoteOK)'
    BY DEF TypeInv, DownloadTypeOK, TypeOK, PipelineOK, DownloaderOK, PeerOK, TorrentOK, RemoteOK
  <2>6. QED
    BY <2>1, <2>2, <2>3, <2>4, <2>5 DEF TypeInv, DownloadTypeOK, TypeOK
<1>10. QED
  BY <1>1, <1>2, <1>3, <1>4, <1>5, <1>6, <1>7, <1>8, <1>9 DEF DownloaderNext

\* The steps of the torrent handler keep the types.
LEMMA TypeTorrent ==
  ASSUME TypeInv, TorrentNext
  PROVE  TypeInv'
<1>1. CASE FromPeer
  <2> USE <1>1 DEF TorrentNext, FromPeer, SendChildren, torrentVars, remoteVars, downloaderVars,
         trackerVars
  <2>1. TorrentOK'
    BY Taking, AnnouncedMessage DEF TypeInv, DownloadTypeOK, TypeOK, TorrentOK, ComOK
  <2>2. ComOK'
    BY Taking DEF TypeInv, DownloadTypeOK, TypeOK, ComOK
  <2>3. (ControlOK /\ PipelineOK /\ DownloaderOK /\ PeerOK /\ TrackerOK /\ RemoteOK /\ AsksForMore)'
    BY DEF TypeInv, DownloadTypeOK, TypeOK, ControlOK, PipelineOK, DownloaderOK, PeerOK,
           TrackerOK, RemoteOK, AsksForMore, Asking
  <2>4. QED
    BY <2>1, <2>2, <2>3 DEF TypeInv, DownloadTypeOK, TypeOK
<1>2. CASE Stop
  <2> USE <1>2 DEF TorrentNext, Stop, SendChildren, torrentVars, remoteVars, downloaderVars,
         trackerVars
  <2>1. TorrentOK'
    BY DEF TypeInv, DownloadTypeOK, TypeOK, TorrentOK, ComOK, ChildMessage
  <2>2. ComOK'
    BY DEF TypeInv, DownloadTypeOK, TypeOK, ComOK
  <2>3. (ControlOK /\ PipelineOK /\ DownloaderOK /\ PeerOK /\ TrackerOK /\ RemoteOK /\ AsksForMore)'
    BY DEF TypeInv, DownloadTypeOK, TypeOK, ControlOK, PipelineOK, DownloaderOK, PeerOK,
           TrackerOK, RemoteOK, AsksForMore, Asking
  <2>4. QED
    BY <2>1, <2>2, <2>3 DEF TypeInv, DownloadTypeOK, TypeOK
<1>3. CASE EndSendChildren
  <2> USE <1>3 DEF TorrentNext, EndSendChildren, torrentVars, remoteVars, downloaderVars,
         trackerVars
  <2>1. TorrentOK'
    BY DEF TypeInv, DownloadTypeOK, TypeOK, TorrentOK
  <2>2. (ControlOK /\ PipelineOK /\ DownloaderOK /\ PeerOK /\ TrackerOK /\ ComOK /\ RemoteOK /\ AsksForMore)'
    BY DEF TypeInv, DownloadTypeOK, TypeOK, ControlOK, PipelineOK, DownloaderOK, PeerOK,
           TrackerOK, ComOK, RemoteOK, AsksForMore, Asking
  <2>3. QED
    BY <2>1, <2>2 DEF TypeInv, DownloadTypeOK, TypeOK
<1>4. CASE RangeThrow
  <2> USE <1>4 DEF TorrentNext, RangeThrow, torrentVars, remoteVars, downloaderVars, trackerVars
  <2>1. (ControlOK /\ PipelineOK /\ DownloaderOK /\ PeerOK /\ TrackerOK /\ ComOK /\ TorrentOK /\ RemoteOK /\ AsksForMore)'
    BY DEF TypeInv, DownloadTypeOK, TypeOK, ControlOK, PipelineOK, DownloaderOK, PeerOK,
           TrackerOK, ComOK, TorrentOK, RemoteOK, AsksForMore, Asking
  <2>2. QED
    BY <2>1 DEF TypeInv, DownloadTypeOK, TypeOK
<1>5. CASE \E p \in Peers : NextChild(p)
  <2> USE <1>5 DEF TorrentNext, NextChild, torrentVars, remoteVars, downloaderVars, trackerVars
  <2>1. TorrentOK'
    BY DEF TypeInv, DownloadTypeOK, TypeOK, TorrentOK, ComOK
  <2>2. (ControlOK /\ PipelineOK /\ DownloaderOK /\ PeerOK /\ TrackerOK /\ ComOK /\ RemoteOK /\ AsksForMore)'
    BY DEF TypeInv, DownloadTypeOK, TypeOK, ControlOK, PipelineOK, DownloaderOK, PeerOK,
           TrackerOK, ComOK, RemoteOK, AsksForMore, Asking
  <2>3. QED
    BY <2>1, <2>2 DEF TypeInv, DownloadTypeOK, TypeOK
<1>6. CASE SendTarget
  <2> USE <1>6 DEF TorrentNext, SendTarget, torrentVars, remoteVars, downloaderVars, trackerVars
  <2>1. TorrentOK'
    BY DEF TypeInv, DownloadTypeOK, TypeOK, TorrentOK
  <2>2. ComOK'
    <3>1. childCh \in [Peers -> Seq(ChildMessage)] /\ tmsg \in ChildMessage /\ target \in Peers
      BY DEF TypeInv, DownloadTypeOK, TypeOK, ComOK, TorrentOK
    <3>2. Append(childCh[target], tmsg) \in Seq(ChildMessage)
      BY <3>1, Putting
    <3>3. QED
      BY <3>1, <3>2 DEF TypeInv, DownloadTypeOK, TypeOK, ComOK
  <2>3. (ControlOK /\ PipelineOK /\ DownloaderOK /\ PeerOK /\ TrackerOK /\ RemoteOK /\ AsksForMore)'
    BY DEF TypeInv, DownloadTypeOK, TypeOK, ControlOK, PipelineOK, DownloaderOK, PeerOK,
           TrackerOK, RemoteOK, AsksForMore, Asking
  <2>4. QED
    BY <2>1, <2>2, <2>3 DEF TypeInv, DownloadTypeOK, TypeOK
<1>7. CASE Elsewhere
  <2> USE <1>7 DEF TorrentNext, Elsewhere, Leave, Return, End, torrentVars, remoteVars,
         downloaderVars, trackerVars
  <2>1. TorrentOK'
    BY DEF TypeInv, DownloadTypeOK, TypeOK, TorrentOK
  <2>2. (ControlOK /\ PipelineOK /\ DownloaderOK /\ PeerOK /\ TrackerOK /\ ComOK /\ RemoteOK /\ AsksForMore)'
    BY DEF TypeInv, DownloadTypeOK, TypeOK, ControlOK, PipelineOK, DownloaderOK, PeerOK,
           TrackerOK, ComOK, RemoteOK, AsksForMore, Asking
  <2>3. QED
    BY <2>1, <2>2 DEF TypeInv, DownloadTypeOK, TypeOK
<1>8. QED
  BY <1>1, <1>2, <1>3, <1>4, <1>5, <1>6, <1>7 DEF TorrentNext

\* The steps of a remote keep the types.
LEMMA TypeRemote ==
  ASSUME TypeInv, NEW p \in Peers, RemoteNext(p)
  PROVE  TypeInv'
<1>1. CASE RemoteChoke(p)
  <2> USE <1>1 DEF RemoteNext, RemoteChoke, Say, Unsolicited, torrentVars, downloaderVars,
         trackerVars, mapVars
  <2>1. PipelineOK'
    BY DEF TypeInv, DownloadTypeOK, TypeOK, PipelineOK, Message
  <2>2. DownloaderOK'
    BY DEF TypeInv, DownloadTypeOK, TypeOK, DownloaderOK
  <2>3. RemoteOK'
    BY DEF TypeInv, DownloadTypeOK, TypeOK, RemoteOK
  <2>4. (ControlOK /\ PeerOK /\ TrackerOK /\ ComOK /\ TorrentOK /\ AsksForMore)'
    BY DEF TypeInv, DownloadTypeOK, TypeOK, ControlOK, PeerOK, TrackerOK, ComOK, TorrentOK,
           AsksForMore, Asking
  <2>5. QED
    BY <2>1, <2>2, <2>3, <2>4 DEF TypeInv, DownloadTypeOK, TypeOK
<1>2. CASE RemoteUnchoke(p)
  <2> USE <1>2 DEF RemoteNext, RemoteUnchoke, Say, Unsolicited, torrentVars, downloaderVars,
         trackerVars, mapVars
  <2>1. PipelineOK'
    BY DEF TypeInv, DownloadTypeOK, TypeOK, PipelineOK, Message
  <2>2. RemoteOK'
    BY DEF TypeInv, DownloadTypeOK, TypeOK, RemoteOK
  <2>3. (ControlOK /\ DownloaderOK /\ PeerOK /\ TrackerOK /\ ComOK /\ TorrentOK /\ AsksForMore)'
    BY DEF TypeInv, DownloadTypeOK, TypeOK, ControlOK, DownloaderOK, PeerOK, TrackerOK, ComOK,
           TorrentOK, AsksForMore, Asking
  <2>4. QED
    BY <2>1, <2>2, <2>3 DEF TypeInv, DownloadTypeOK, TypeOK
<1>3. CASE RemoteSays(p)
  <2> USE <1>3 DEF RemoteNext, RemoteSays, Say, Unsolicited, torrentVars, downloaderVars,
         trackerVars, mapVars
  <2>1. PipelineOK'
    BY DEF TypeInv, DownloadTypeOK, TypeOK, PipelineOK
  <2>2. RemoteOK'
    BY DEF TypeInv, DownloadTypeOK, TypeOK, RemoteOK
  <2>3. (ControlOK /\ DownloaderOK /\ PeerOK /\ TrackerOK /\ ComOK /\ TorrentOK /\ AsksForMore)'
    BY DEF TypeInv, DownloadTypeOK, TypeOK, ControlOK, DownloaderOK, PeerOK, TrackerOK, ComOK,
           TorrentOK, AsksForMore, Asking
  <2>4. QED
    BY <2>1, <2>2, <2>3 DEF TypeInv, DownloadTypeOK, TypeOK
<1>4. CASE RemoteAnswer(p)
  <2> USE <1>4 DEF RemoteNext, RemoteAnswer, Say, torrentVars, downloaderVars, trackerVars, mapVars
  <2>1. PipelineOK'
    <3>1. Head(requests[p]) \in Block
      BY Taking DEF TypeInv, DownloadTypeOK, TypeOK, DownloaderOK
    <3>2. QED
      BY <3>1, OwnMessages, Putting DEF TypeInv, DownloadTypeOK, TypeOK, PipelineOK
  <2>2. DownloaderOK'
    BY Taking DEF TypeInv, DownloadTypeOK, TypeOK, DownloaderOK
  <2>3. (ControlOK /\ PeerOK /\ TrackerOK /\ ComOK /\ TorrentOK /\ RemoteOK /\ AsksForMore)'
    BY DEF TypeInv, DownloadTypeOK, TypeOK, ControlOK, PeerOK, TrackerOK, ComOK, TorrentOK,
           RemoteOK, AsksForMore, Asking
  <2>4. QED
    BY <2>1, <2>2, <2>3 DEF TypeInv, DownloadTypeOK, TypeOK
<1>5. CASE RemoteDrop(p)
  <2> USE <1>5 DEF RemoteNext, RemoteDrop, torrentVars, downloaderVars, trackerVars, mapVars
  <2>1. DownloaderOK'
    BY Taking DEF TypeInv, DownloadTypeOK, TypeOK, DownloaderOK
  <2>2. (ControlOK /\ PipelineOK /\ PeerOK /\ TrackerOK /\ ComOK /\ TorrentOK /\ RemoteOK /\ AsksForMore)'
    BY DEF TypeInv, DownloadTypeOK, TypeOK, ControlOK, PipelineOK, PeerOK, TrackerOK, ComOK,
           TorrentOK, RemoteOK, AsksForMore, Asking
  <2>3. QED
    BY <2>1, <2>2 DEF TypeInv, DownloadTypeOK, TypeOK
<1>6. QED
  BY <1>1, <1>2, <1>3, <1>4, <1>5 DEF RemoteNext

\* The steps that only end the process.
Panics == MapThrow \/ \E p \in Peers : RecvPanic(p) \/ PiecePanic(p)

\* Every step keeps the types.
LEMMA TypeStep == TypeInv /\ [Next]_vars => TypeInv'
<1> SUFFICES ASSUME TypeInv, [Next]_vars
             PROVE  TypeInv'
  OBVIOUS
<1>1. CASE Panics /\ UNCHANGED <<torrentVars, remoteVars>>
  <2>1. UNCHANGED runVars /\ crashed' = TRUE
    BY <1>1 DEF Panics, MapThrow, RecvPanic, PiecePanic
  <2>2. QED
    BY <1>1, <2>1 DEF TypeInv, DownloadTypeOK, TypeOK, ControlOK, PipelineOK, DownloaderOK,
                      PeerOK, TrackerOK, ComOK, TorrentOK, RemoteOK, AsksForMore, Asking, runVars,
                      torrentVars, remoteVars, downloaderVars, trackerVars, mapVars
<1>2. CASE UNCHANGED vars
  BY <1>2 DEF TypeInv, DownloadTypeOK, TypeOK, ControlOK, PipelineOK, DownloaderOK, PeerOK,
              TrackerOK, ComOK, TorrentOK, RemoteOK, AsksForMore, Asking, vars, phVars, runVars,
              torrentVars, remoteVars, downloaderVars, trackerVars, mapVars
<1>3. QED
  BY <1>1, <1>2, TypeHandler, TypeReader, TypeDownloader, TypeTorrent, TypeRemote
     DEF Next, PeerNext, Panics

\* Every variable keeps its type, for any number of peers and pieces: the remote
\* field, the queues and the records a downloader works with are well formed.
THEOREM TypeCorrect == Spec => []DownloadTypeOK
<1>1. Spec => []TypeInv
  BY TypeInit, TypeStep, PTL DEF Spec
<1>2. TypeInv => DownloadTypeOK
  BY DEF TypeInv
<1>3. QED
  BY <1>1, <1>2, PTL

AsksForBytes == \A p \in Peers : dpc[p] = "ask" => RequestLength(p) \in Nat \ {0}

\* Every Request asks for at least one byte: the loop of downloadPiece ends in
\* time, whatever length the last piece has been given.
THEOREM RequestsAreNotEmpty == Spec => []AsksForBytes
<1>1. Spec => []TypeInv
  BY TypeInit, TypeStep, PTL DEF Spec
<1>2. TypeInv => AsksForBytes
  BY RequestLengthType DEF TypeInv, DownloadTypeOK, TypeOK, AsksForMore, Asking, AsksForBytes
<1>3. QED
  BY <1>1, <1>2, PTL

-------------------------------------------------------------------------------
(* The wait for an UnChoke *)

\* At first nobody waits.
LEMMA WakeupInit == Init => NoLostWakeup
BY DEF Init, PHInit, NoLostWakeup

\* No step leaves a downloader waiting without a message on its way: the flag is
\* cleared by the handler that then forwards, and only a set flag starts a wait.
LEMMA WakeupStep == TypeInv /\ NoLostWakeup /\ [Next]_vars => NoLostWakeup'
<1> SUFFICES ASSUME TypeInv, NoLostWakeup, [Next]_vars,
                    NEW p \in Peers,
                    dpc'[p] = "awaitUnchoke", ~ choking'[p], Running(p)'
             PROVE  downCh'[p] # <<>> \/ hpc'[p] = "forward"
  BY DEF NoLostWakeup
<1> DEFINE Woken == downCh[p] # <<>> \/ hpc[p] = "forward"
<1>1. /\ hpc \in [Peers -> HandlerPC] /\ dpc \in [Peers -> DownloaderPC]
      /\ choking \in [Peers -> BOOLEAN] /\ downCh \in [Peers -> Seq(Message)]
      /\ hmsg \in [Peers -> Message]
  BY DEF TypeInv, DownloadTypeOK, TypeOK, ControlOK, PeerOK, PipelineOK
<1>2. dpc[p] = "awaitUnchoke" /\ ~ choking[p] /\ Running(p) => Woken
  BY DEF NoLostWakeup
<1>3. ASSUME NEW q \in Peers, HandlerNext(q)
      PROVE  downCh'[p] # <<>> \/ hpc'[p] = "forward"
  <2> USE DEF HandlerStep, Running
  <2>1. CASE HandleForwarded(q)
    <3>1. hpc'[q] = "forward" /\ UNCHANGED <<downCh, dpc>>
      BY <1>1, <2>1 DEF HandleForwarded, Receive, AfterFlag
    <3>2. q # p => hpc'[p] = hpc[p] /\ choking'[p] = choking[p]
      BY <1>1, <2>1 DEF HandleForwarded
    <3>3. QED
      BY <1>2, <3>1, <3>2
  <2>2. CASE Forward(q)
    <3>1. downCh'[q] # <<>> /\ UNCHANGED <<dpc, choking>>
      BY <1>1, <2>2, PutIsThere DEF Forward
    <3>2. q # p => hpc'[p] = hpc[p] /\ downCh'[p] = downCh[p]
      BY <1>1, <2>2 DEF Forward
    <3>3. QED
      BY <1>2, <3>1, <3>2
  <2>3. CASE Register(q)
    <3>1. q # p
      BY <1>1, <2>3 DEF Register, DownloaderStep
    <3>2. hpc'[p] = hpc[p] /\ dpc'[p] = dpc[p] /\ UNCHANGED <<choking, downCh>>
      BY <1>1, <2>3, <3>1 DEF Register, DownloaderStep
    <3>3. QED
      BY <1>2, <3>2
  <2>4. CASE Handshake(q) \/ HandleHave(q) \/ HandleBitfield(q) \/ HandleOther(q)
               \/ HandleTruncated(q) \/ HandleError(q) \/ Fail(q) \/ FromParent(q) \/ Exit(q)
    <3>1. UNCHANGED <<choking, downCh, dpc>>
      BY <2>4 DEF Handshake, HandleHave, HandleBitfield, HandleOther, HandleTruncated, HandleError, Fail,
                  FromParent, Exit, Receive
    <3>2. hpc[p] # "forward" => Running(p)
      BY <1>1, <2>4 DEF Handshake, HandleHave, HandleBitfield, HandleOther, HandleTruncated, HandleError, Fail,
                        FromParent, Exit, Receive
    <3>3. hpc[p] = "forward" => hpc'[p] = "forward"
      BY <1>1, <2>4 DEF Handshake, HandleHave, HandleBitfield, HandleOther, HandleTruncated, HandleError, Fail,
                        FromParent, Exit, Receive
    <3>4. QED
      BY <1>2, <3>1, <3>2, <3>3
  <2>5. QED
    BY <1>3, <2>1, <2>2, <2>3, <2>4 DEF HandlerNext
<1>4. ASSUME NEW q \in Peers, DownloaderNext(q)
      PROVE  downCh'[p] # <<>> \/ hpc'[p] = "forward"
  <2> USE DEF DownloaderStep, Running
  <2>1. UNCHANGED <<hpc, choking>>
    BY <1>4 DEF DownloaderNext
  <2>2. CASE q # p
    <3>1. dpc'[p] = dpc[p]
      BY <1>1, <1>4, <2>2 DEF DownloaderNext, Pick, Check, Ask, AwaitUnchoke, SkipMessage,
                              AcceptPiece, RejectPiece, Settle, Announce
    <3>2. downCh'[p] = downCh[p]
      BY <1>1, <1>4, <2>2 DEF DownloaderNext, Pick, Check, Ask, AwaitUnchoke, SkipMessage,
                              AcceptPiece, RejectPiece, Settle, Announce, Take
    <3>3. QED
      BY <1>2, <2>1, <3>1, <3>2
  <2>3. CASE q = p
    \* Only Check starts the wait, and it does so while the flag is set.
    <3>1. choking[p]
      BY <1>1, <1>4, <2>3 DEF DownloaderNext, Pick, Check, Ask, AwaitUnchoke, SkipMessage,
                              AcceptPiece, RejectPiece, Settle, Announce, Continue
    <3>2. QED
      BY <2>1, <3>1
  <2>4. QED
    BY <2>2, <2>3
<1>5. ASSUME UNCHANGED <<hpc, dpc, choking, downCh>>
      PROVE  downCh'[p] # <<>> \/ hpc'[p] = "forward"
  BY <1>2, <1>5 DEF Running
<1>6. QED
  <2>1. CASE UNCHANGED vars \/ Panics
    BY <1>5, <2>1 DEF vars, phVars, runVars, Panics, MapThrow, RecvPanic, PiecePanic
  <2>2. CASE TorrentNext
    BY <1>5, <2>2 DEF TorrentNext
  <2>3. CASE \E q \in Peers : ReaderNext(q) \/ RemoteNext(q)
    BY <1>5, <2>3 DEF ReaderNext, RemoteNext
  <2>4. QED
    BY <1>3, <1>4, <2>1, <2>2, <2>3 DEF Next, PeerNext, Panics

\* A downloader that waits for an UnChoke after the remote has unchoked this
\* client is always woken (downloadPiece reads PeerChoking without a lock).
THEOREM WakeupNotLost == Spec => []NoLostWakeup
<1>1. Spec => []TypeInv
  BY TypeInit, TypeStep, PTL DEF Spec
<1>2. QED
  BY <1>1, WakeupInit, WakeupStep, PTL DEF Spec
===============================================================================
