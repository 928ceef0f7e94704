# A TLA+ specification of torc

torc is a BitTorrent client in Go.  This directory holds TLA+ modules that model
it, configurations with which TLC checks them on small instances, and theorems
that the TLA+ proof system checks for every value of the constants.  Line numbers
refer to the sources under `src/`; `handler.go` without a directory is
`src/internal/peer/handler.go`.

The commit does not build as it is: the packages `torrent`, `peer` and `com`
import each other, `downloadPiece` returns -1 as a `uint32` (handler.go:219, 270,
276, 328), and `NewTorrent` indexes a slice of length 0
(`torrent.go:100-104`).  The models follow the statements as they are written,
with a Tracker whose fields have the sizes the code asks for.

Contents: 1 inventory, 2 plan, 3 how the modules correspond to the code,
4 the runs, 5 fairness, 6 the proofs, 7 disagreements between code and comments,
8 what is not modelled.

## 1. Inventory

    command line --comView--> controller --comTorrentHandler--> torrent.Handler
                                                (one per torrent)    |
                                                              comPeerHandler
                                                                     |
             remote peer <--TCP-- peer.Handler --downloadChannel--> downloader
                          `-----> reader --readChannel--^   (one of each per peer)

Every arrow labelled `com...` is a `com.Channel`: one channel to the parent and
a map with one channel for each child, all with a capacity of `ChanSize` = 10.

| Component | State | Operations | What is hard | What makes it correct |
|---|---|---|---|---|
| peer handler: `peer.Handler`, its reader and its downloader | control points of three goroutines; `Peer.PeerChoking`, `RemoteBitField`; `pieceIndex`, `begin`, `pieceLength`; `readChannel`, `downloadChannel` | handshake, registration, one branch per message id, forwarding, failure, exit; choosing a piece, asking, waiting for an UnChoke or a Piece, writing, settling, announcing | flags read without a lock; blocking sends in both directions; choke and request cross; goroutines that outlive the handler | no wake-up and no request is lost; a claim is exclusive, held by somebody and settled |
| bit fields | `BitFieldHave`, `BitFieldDownloading`, `RemoteBitField` | mark a piece, mark a Have, the two tests of the search | shifts that leave the byte, comparison with 1, length from the wrong unit | the sets of the models are what the bytes mean |
| `com.Channel` | `Parent`, map `children`, a mutex that is copied with the struct | `AddChild`, `RemoveChild`, `SendParent`, `SendChild`, `SendChildren`, `Exists`, `CountChildren`, `GetChildChannel` | the mutex excludes nobody else; close and delete are two steps; a full child blocks the fan-out | no send on a closed channel; no map used by two goroutines at once; the fan-out ends |
| torrent handler | `retryCount`, timer, select loop | first tracker request; up to eight peers; Success, Have, TotalFailure from peers; Start, Stop, Remove, List, Quit from the controller; timed request | replacing a dead peer while the old one still leaves; Start while handlers are ending; a fan-out over a map that changes | at most `MaxPeers` handlers for each start, and none lost; retries end; the loop is always come back to |
| controller | children of `comTorrentHandler` | Add, Remove, Start, Stop, List, Quit, LogLevel | `Exists` is asked long before `AddChild` | one handler per torrent; every Add is answered, once |
| tracker | interval, counts, `Peers`, `Started`, `Completed` | `Request`, `getPeers` | no timeout; keys are searched in the bytes of the answer | peers are merged, not lost; an answer is read as it was meant |
| torrent data | files on disk, `Left`, `Downloaded` | `WriteData`, `ReadData`, `IsCorrectPiece` | blocks that cross file boundaries | each byte is written once where it is read |
| peer wire | the connection | `Send`, `SendData`, `Recv`, handshake | short reads, length prefix, keep-alive | what is sent is what is received |
| bencode parser | none | `GetNext`, dictionaries | relative and absolute indices | the item found is the item there |
| command line | none | reads a line, prints a message | `Add` before the controller is registered | commands are not lost |
| constants, logging | two strings | none | none | none |

## 2. Plan

Done, in this order:

1. `Bitfield`; `BitfieldBytes` has the bytes it is compared with.
2. `PeerHandler`, the three goroutines of every peer.
3. `Download`, which composes them with the announcements of the torrent handler and
   the remotes; `DownloadComments` states what the comments say; `MCDownload`.
4. `PieceLedger`, the abstract specification of the bit fields and announcements.
5. `DownloadProofs` and `ClaimProofs`.
6. `TorrentHandler`, one torrent handler and its peer handlers, reduced to what they do
   on their common channel; `MCTorrent`.
7. `Controller`, which composes it with the controller and the command line;
   `MCController`.
8. `TorrentData`, `Wire` (which extends it) and `Bencode`, the pure parts; `Codec` states what
   the first two and `BitfieldBytes` compute, for any inputs, and `MCCodec` checks it on small ones;
   `CodecInputs` adds the same for the parser, whose RECURSIVE operators keep it out of `Codec`.

9. `QueueLemmas`, what a send and a receive do to a channel: to its elements, and to the
   number of its messages of a kind.  The next four rest on it.
10. `NoLostRequest` in `ClaimProofs`, followed through the five places between remote and downloader.
11. `TorrentProofs`: the types of the torrent handlers and the retries; its lemmas about
    single steps do not speak of a specification, so that `Controller` can use them.
12. `SlotProofs`: `ClosedIsLeaving`, `FanoutGoesOn`, `LoadBounded` and `PeersReplaced`.
13. `ControllerProofs`: the types of the program, and `AddsConserved`.
14. `CodecProofs`: bit fields, messages and handshakes, for inputs of every length.
15. `TransferProofs`: the files of a torrent, `WriteData`, `ReadData` and the ranges of a piece.
16. `AddLedger`, the abstract specification of the answers to Add, and in `ControllerProofs` that
    `Controller` implements it.

`Bencode` recurses over strings, so it stays with TLC, and so does everything about liveness.

## 3. The modules and the code

### Bitfield and BitfieldBytes

A bit field is the set of its 1-bits, numbered as the protocol numbers pieces.
`OrHave` is handler.go:135-143, with its shift of `8 - i%8`; `SetPiece` the
update with `7 - i%8`; `FindFreePieceIndex` is lines 302-328, with the comparison
`== 1` that only the last bit of a byte passes; `AmountOfPieces` and
`BitFieldLength` are the divisions by the size of a hash.  Because of the last two,
the only pieces the program ever claims are 7, 15, 23, ..., below a twentieth of
the number of hashes.  The instances are chosen so that one or two of them exist.

### PeerHandler

One step is a stretch of a goroutine that ends where it blocks on a channel or
leaves a critical section.  `hpc`, `rpc` and `dpc` are the control points.

| Actions | Code |
|---|---|
| `Handshake` | connecting and shaking hands, Success or TotalFailure, lines 28-40 |
| `Register` | `AddChild`, Interested, UnChoke, a zero `RemoteBitField`, the two `go` statements |
| `Recv`, `Put` | the reader: `Recv`, then the send on `readChannel`; an error ends it |
| `HandleForwarded`, `Forward` | Choke, UnChoke, Interested, NotInterested, Piece: the flag first, then the send on `downloadChannel`, which may block |
| `HandleHave`, `HandleBitfield`, `HandleOther`, `HandleTruncated` | the other branches of the switch; a number that is read past the end of the data panics (133, torrent.go:215) |
| `RecvPanic` | a message with an id above 8: its name is looked up for the log, past the end of a list (peer.go:209-210) |
| `HandleError`, `Fail`, `Exit` | the error path, TotalFailure, and the deferred `RemoveChild` in its three steps: Exiting, close, delete |
| `FromParent` | Quit and Have from the torrent handler |
| `Pick` | the claim, under the two locks, and the length of the piece |
| `Check`, `Ask`, `AwaitUnchoke`, `SkipMessage` | one round of the loop of `downloadPiece`: the flag, the Request, the waits |
| `AcceptPiece`, `RejectPiece`, `PiecePanic` | the checks and the write, an error, or a panic: of an index that has no hash (torrent.go:299), or of a block beyond the first file (torrent.go:183) |
| `Settle`, `Announce` | the deferred function of `downloadPiece`, and the Have for the torrent handler |
| `MapThrow` | the Go runtime stopping the process after concurrent use of the map |

`crashed` stands for a panic or a fatal error of the runtime; nothing happens
afterwards.  `announced` is a history variable.  A message carries what the
properties tell apart: a Piece its block and whether the SHA-1 agrees.
KeepAlive, Request and Cancel are one kind, `"Other"`: their handling answers or
ignores the remote and changes no state of this client.

`RejectPiece` is possible for every Piece that does not panic before it, since `WriteData` can fail
to open, seek or write on any block; a block with the wrong hash or out of range can only be
rejected.  `FirstLength` is the length of the first file, the one `WriteData` always tries.  The default
branch of the switch, for an unknown id, is never reached: `Recv` has panicked before.

### Download

`FromPeer`, `Stop`, `NextChild`, `SendTarget`, `EndSendChildren` and `RangeThrow`
are the torrent handler as far as it acts on running peers.  `SendChildren` is a
loop over a map: it may or may not meet entries added meanwhile, it holds the
channel it has read (`target`) while it blocks, and it panics when that channel has
been closed.  `Leave`, `Return` and `End` (together `Elsewhere`) are what the torrent handler does away
from that channel: it waits for a tracker (torrent/handler.go:134) or for the controller (104-106 and the
answers to commands), and comes back or does not; or it ends, after Remove, Quit or too many failures, and
leaves its peers running.  A Success takes it to the controller in any case.  `Stop` is the handler's side of a message the controller
cannot address yet (the TODO at `controller.go:60`).  The rest of the torrent handler
is in `TorrentHandler`, and the two models meet at the channel between them.

The remote keeps to the protocol: it answers a request with the block asked for,
correct (`Matching`) or not (`Corrupt`), forgets what it has been asked when it
chokes, and drops requests that come in while it chokes.  One hash per piece is
compared with one block, so at most one block of a piece can match.

### PieceLedger

A piece is free, claimed or had, and is announced once, after it is had.
`Download` maps to it by `BitFieldHave`, `BitFieldDownloading` and `announced`.

### TorrentHandler

One goroutine per element of `Handlers`, with `tpc` as its control point, and one per
element of `Slots` for the peer handlers, with `spc`.  A channel is named after the
goroutine that made it: a goroutine may hold a channel that the map has lost or that
has been closed, and a closed channel is readable for ever (`ReadClosed`, `Obey`).
The slots of goroutines that have ended, the downloader too, are reused once nothing refers to their
channel.  A key that is deleted from the map leaves `served` as well as `due`: an entry that is added
again while `SendChildren` ranges over the map is a new one, which Go may or may not visit.

| Actions | Code in `torrent/handler.go` |
|---|---|
| `First`, `Send`, `Register` | the first request and its result, 29-33; `AddChild` and the first peers, 34-51 |
| `Command` (`Start`, `SendChildren`) | the branches for Remove, Start, Stop, List, Quit, 61-96 |
| `FromPeer` (`Respawn`) | Success, Have, TotalFailure and what is ignored, 102-124 |
| `NextChild`, `SendTarget`, `EndSendChildren` | the loop of `SendChildren`, com.go:136-143 |
| `Timer`, `Answer` (`GivesUp`, `AfterSuccess`, `Merge`) | a timed request, its failures and the merge of peers, 126-147 |
| `LeaveController` | the deferred `RemoveChild` in its three steps, com.go:230-241 |
| `Connect`, `Report`, `Join`, `Run`, `Obey`, `LeavePeer` | a peer handler on `comPeerHandler`: handshake, Success or TotalFailure, `AddChild`, failures, Quit, `RemoveChild` |
| `Announce`, `LastOut` | the Have of its downloader, which may come long after the handler has ended, and the end of the downloader |
| `MapThrow` | concurrent use of the map of children |

The retry counter, the timer and the requests are those of the code; a tracker answers
with any set of peers, or the request fails.  `misses` and `restarts` are history variables.

### Controller

`Enter`, `SendController`, `Show` and `ShowEnd` are the two goroutines of `main.go`; `Add`,
`List`, `SetLogLevel`, `FromHandler`, `Reply`, and the loop `NextHandler`, `SendHandler`, `EndList`
are the controller.  `RunHandler` is a step of `TorrentHandler` as it is, without peers (`Slots` is
empty), and takes an entry that is deleted out of the sets of the loop: what happens on `comPeerHandler`
is not seen here.  `Throw` is the use of one map
by two goroutines, of which there are three kinds: the children of the controller, those of
the view while the controller registers itself, and the peers of a tracker while they are
printed.  An Add before the controller has registered itself prints "Unable to Add", and
changes nothing; so `Enter` waits for the registration.

### AddLedger

An Add waits, is refused, or starts a handler no other Add has started; a refusal is told to the
user, and a handler is answered for once.  `Controller` maps to it by the Adds in `viewCh`
(`Waiting`), the refusals in the controller's hands and in `replies` (`Refusing`), the handlers
whose goroutine exists (`Started`), and what has been printed.

### TorrentData, Wire, Bencode, Codec

Operators, no state.  `TorrentData` counts bytes and leaves their contents out: `WriteData`
and `ReadData` return which bytes of the block they moved to or from which place of which file; a file may
fail to open, to seek or to write.
`Codec` picks one input, and its invariants compare what these operators and `BitfieldBytes` make
of it with what the protocol or the layout says; its constants are the inputs, any of them for the theorems.
`Wire` has the bytes, over an alphabet of `ByteValues` values instead of 256, since TLC has
32 bits for an integer and the length prefix alone has as many; the theorems hold for 256 as well.  A `Recv` is given what its
first `Read` returns, a length TCP chooses.  `Bencode` works on strings; its results tell a
value, an error, a key that is not found and a loop that never ends apart.  `Scan`, the
loop of `GetNext`, remembers where it has been in order to recognise that last case.

## 4. The runs

Passing runs:

| Run | Instance | Properties | What it shows |
|---|---|---|---|
| `messages` | 1 peer that has a piece whose block is right and one whose block is wrong, a message for every way of handling one, an unknown and a truncated one too, failures, Stop | `DownloadTypeOK`, `NoLostWakeup` | a downloader that waits for an UnChoke with the flag already clear has a message on its way |
| `progress` | 1 peer with four pieces, which sends its Bitfield and then chokes and unchokes up to three times; a torrent handler that may be away, fair goroutines | `NoLostRequest`, `ClaimSettles`, `ForwardSettles` | what choking dropped is asked for again; a claimed piece is settled unless the remote chokes for good, the handler ends or the process does; a forward ends, unless the downloader has ended, or announces a piece to a torrent handler that does not listen: away for ever, or itself in front of a full queue |
| `claims` | 2 peers that have the same piece, a torrent handler that may end | `ClaimsExclusive`, `ClaimsHeld`, `LedgerSpec` | nobody works on a piece twice, no claim is orphaned by an error, the announcements are in order |
| `torrents` | 1 torrent, 2 peers, 2 slots, every command but List | `TorrentTypeOK`, `LoadBounded`, `ClosedIsLeaving`, `FanoutGoesOn`, `PeersReplaced` | peer handlers at work, and failures not yet heard of, are at most `MaxPeers` for the first start and each Start; a place is given up only on Quit or when no peer is left to try; a closed channel is in the map only inside `RemoveChild`; `SendChildren` always has a child to go on with, or is done, whoever leaves and comes back |
| `controller` | 2 Adds of one torrent, 2 Lists, channels of 1 | `ControllerTypeOK`, `AddsConserved`, `AddsSpec` | every Add is still queued, refused, or has exactly one result in exactly one place, and every step is a step of `AddLedger` or none |
| `answers` | 1 Add, up to 4 Lists under way, channels of 1, 2 retries, fair goroutines | `RetriesExact`, `AddAnswered`, `HandlerReturns` | a torrent handler gives up after exactly `MaxRetryCount` failures in a row; the result of the Add is printed in the end, and the handler comes back to its select or ends; the exceptions are a tracker that never answers, the end of the process, and a controller that waits to send a List to a handler whose channel is full |
| `codec` | bits, messages, handshakes, blocks, pieces, bencoded elements, answers of a tracker and torrent files: one small input each | see below | |

The properties of `codec`:

* `SameBits`: the updates of the sets of `Bitfield` are what the updates of the bytes mean, on two
  bytes of which one takes every value.
* `RecvInSync`: `Recv` returns the message that was sent and stops at the next one, or fails; the
  exception is a first `Read` of exactly four bytes, which is taken for a keep-alive.  It is about the
  ids there are; a higher one panics.
* `SentIsRead`: what `SendData` is given is what is read, and the next message starts after it, if one byte
  can hold the length (254 bytes of payload in the code).
* `NumbersArrive`: every id with no, one and three numbers: what `Send` may not send, or with the wrong
  count, is not written, and what is written arrives with its id and its numbers in their order.
* `HandshakeAgrees`: a handshake is accepted if and only if the hashes agree and one `Read` returns it.
* `FilesTile`: the files of a torrent cover `Left` without gap or overlap.
* `WritesInPlace`: whichever files fail, what is written is where the torrent has it, and an error is
  reported only if there was one; a block inside the first file is written whole.
* `ReadsInPlace`: whichever files there are, what is read is what belongs there; a block inside what there
  is of the first file is read whole.
* `RequestsCover`: the requests for a piece cover it exactly, up to 2^32 - `MaxRequestLength`
  bytes; beyond that the loop has no end.
* `NextExact`: `GetNext` cuts off the first element, for integers, strings and lists without a string in them.
* `DecodeExact`: `Decode` returns what an integer, a string or a list means, if no list in it is empty
  and only its outermost level has strings.  Dictionaries are not in it; see section 7.
* `AnswerRight`: the numbers of an answer are stored as they were meant, its peers, in the binary model, are
  read as they were meant, whatever they look like, but for the words of a failure in them; and an answer
  that lacks a number is an error.
* `SingleFileRight`: a torrent with one file is given the name and the length its file says, in either order of
  the keys, whatever the name looks like but for the pattern of the key that is searched.

Runs that end in a counterexample, one for each disagreement at the start of section 7: `have`,
`wedge`, `requested`, `twice`, `crossing`.

Bounds and why they are enough:

* `ChanSize` = 1 instead of 10.  A queue at its limit is then reached after one
  message, with the next sender blocked; the theorems hold for every `ChanSize`.
* `WireSize` = 1: one message on the connection, besides the one in the reader, the
  one in each queue and the one the handler holds, so that up to five messages of a
  remote are between it and the downloader.
* `TalkBound` messages a remote sends unasked, 1 to 4: what is needed for
  Bitfield, UnChoke, Choke, UnChoke.  `Orderly`, in `progress` and `claims`, spends them on what changes
  something: the Bitfield comes first, and a Choke follows an UnChoke.  Elsewhere they come in any order.
  `StopBound`: one Stop.
* `Absences`: what the torrent handler may do besides serving its peers.  It may be away, for ever too, in
  `progress` and gone in `claims`; for the properties of `progress` the two are alike, as both leave the queue to it
  full.  The run `messages` has neither, and Stop in their place.
* `RemoteTalk` of `messages` has neither Interested nor NotInterested, which take the path of a Piece in the
  peer handler and that of a Piece or of an UnChoke in the downloader.
* `FirstLength`: as long as the torrent, but in `messages`, where a block can lie beyond the first file.
* `Unreliable`: the peers whose connection may fail.  It is empty in `claims`, where
  the failure of a download comes from a block with a wrong hash.
* `NumHashes` 660, 480 or 320: 33, 24 or 16 pieces for the code, of which four, three or
  two can be claimed; `PieceLength` 2 with one block, 3 with two blocks in `requested`.  Four pieces are
  what a wait of peer handler, downloader and torrent handler for one another takes.
* Two peers in `claims`: every property of it relates at most two of them.  The
  peers are interchangeable there and the run uses that symmetry.
* `MaxPeers` = 1 with two addresses and two slots: a failed peer is replaced by another or
  by itself while it still leaves.  `Spare` keeps a slot free for every failure, so that the bound
  on goroutines never stands in the way of `Respawn`; Start waits until slots are free.
* `Asked`: the commands that are sent in `torrents`: Start, Stop, Remove and Quit, in any
  number but for `MaySend`.  List, which changes nothing there, is in `controller` and `answers`.
  `RestartBound`: one Start, so that the bound `MaxPeers * 2` can be met.  `MaySend` also sends no Remove or Quit
  to a handler that has been started again: those two end it, and what its peer handlers do then is
  the same without them.
* `MaxRetryCount` = 2 in `answers`: a success between two failures has to be told from none.
* `AddBound` = 2 in `controller`: one Add more than there are torrents.  `ListBound` counts
  the Lists under way, not those entered, so that the user never stops; four are what the
  mutual wait of controller and torrent handler takes in `answers`: one in each queue between them and one in
  the hands of each.
* `codec`: `MaxRequestLength` = 20 and `ByteValues` = 32, so that lengths of 2 * `MaxRequestLength` exceed
  what one byte holds; `Width` = 60 in place of 2^32, three requests; up to three files of 0, 1 or 3
  bytes with blocks of up to 4.  `Width` is a multiple of `MaxRequestLength`, as 2^32 is of 2^14.
  `Send` is tried with every id up to 9 and with 0, 1 and 3 numbers.  Bencoded elements have up to two items
  and three levels.

Deadlock is not checked: the system really stops when the handlers have ended, when remotes
and users fall silent, or when the process has panicked, and `codec` has one step.  What
must not stop is stated by the liveness properties.

## 5. Fairness

`FairSpec` of `Download` has weak fairness for each goroutine of a peer: handler, reader and downloader.  The Go
scheduler runs every goroutine that can run.  The `select` of a peer handler is one goroutine: nothing is
assumed about which ready case it takes.  Of the torrent handler three things are assumed: its loop over
the children goes on, a send that has room is made, and a message of a peer that
waits again and again when it comes to its select is taken in the end (strong fairness of `FromPeer`), since
`select` chooses at random.  Nothing makes it come back from the tracker or the controller, nor not end, and
`ForwardSettles` has that as its exception.  A remote that does not choke answers a
request (weak fairness of `RemoteAnswer`), without which no client downloads
anything.  The reader's fairness leaves out the step in which `Recv` fails while the
connection is up (`Breaks`): otherwise fairness would end every idle connection,
and a request lost for good would not show.  Nothing forces a connection to fail, a remote to talk or unchoke, or
the controller to send Stop; so `ClaimSettles` excuses a remote that chokes.

`TorrentHandler` states no fairness of its own: whether a torrent handler comes back depends on the controller,
which can itself wait for that handler.  `HandlerReturns` is therefore a property of `Controller`.

`FairProgramSpec` of `Controller` has weak fairness for main's send, the printer, the controller and each torrent
handler, except where that waits for a tracker, because the HTTP client has no timeout.  It adds strong
fairness in two places, both justified by the Go runtime:
`select` chooses at random among the cases that are ready, so that a result that is
there again and again is taken in the end; and blocked senders of a channel are served in
their order, so that a handler that waits to send is not passed over for ever.  Nothing
is assumed of the user, the tracker or the timer.

## 6. The proofs

Assumptions, which TLC evaluates in the runs:

* `ParametersOK` (sizes are natural numbers, the length of the first file among them, piece length, request length and capacity at least 1)
  and `EnvironmentOK` (the remotes send well-formed messages), for `Download`.  There may be any
  number of peers, pieces, blocks and messages.
* `ConstantsOK` for `TorrentHandler`: `None` is nobody's name, there are finitely many slots and
  addresses, `MaxPeers` is a natural number, the retries and the capacity are at least 1.
* `ControllerConstantsOK` for `Controller`: finitely many torrent handlers, and no more Adds than
  there are handlers to serve them.
* `WireOK` and `DataOK`: a byte has at least two values, and requests a positive length.
* `CodecOK` for `Codec`: the inputs have their types; a byte holds 13, the longest length prefix `Send`
  writes; the longest legal length, 2 * `MaxRequestLength` or 2^15, is at least the 12 bytes of numbers
  `Send` may write and less than a uint32 holds; `MaxRequestLength` divides `Width`, as 2^14 divides 2^32.

`DownloadProofs`:

* `TypeCorrect`: `DownloadTypeOK` always holds.  It is not inductive alone: the length of a
  request is a natural number only because a downloader that asks has
  `begin < plen` (`AsksForMore`), and `plen` may be negative, since `Left` is.
  `TypeInv` is the conjunction.  One lemma for each goroutine, one step
  for each action.
* `RequestsAreNotEmpty`: no request for zero bytes; a consequence of `TypeInv`.
* `WakeupNotLost`: `NoLostWakeup` is inductive given the types.  The flag is
  cleared only by the step that leads the handler to its forward; the forward fills
  the queue; only the downloader empties it, and by that it stops waiting.

`ClaimProofs`:

* `ClaimInv` adds to the two properties what they rest on: what is had is marked as
  claimed (`have \subseteq downloading`), what is announced is had, and a
  downloader about to announce holds a piece that is had and not announced.
  Without the first, a piece could be claimed again after it is had; without the
  last, `Announce` need not be a step of the ledger.
* `ClaimsAreExclusive` and `ClaimsAreHeld` follow.  Only `Pick`, `Settle` and
  `Announce` disturb the invariant, and each has a lemma.
* `DownloadImplementsLedger`: `Pick` is a `Claim`, `Settle` an `Obtain`, `Announce` a
  `Tell`, every other step a stutter.

* `RequestNotLost`: `NoLostRequest` always holds.  A step that moves a message overwrites the
  variable of the goroutine that moves it; so the invariant adds `HandsFree`, that the reader and
  the handler hold a message only while they are passing it on.  Without it a step could
  lose the answer a downloader waits for by taking the next message.  There is one lemma for
  each goroutine: if a wait goes on before and after its step, what keeps the wait alive is still there.

`QueueLemmas`: `Amount(s, K)` is the number of messages of the set `K` in the channel `s`.
A send adds one to it if the message is in `K` and a receive takes one away if the first is; the
elements of a channel behave accordingly.

`TorrentProofs`:

* `TorrentInvariant`: `TorrentInv` adds two things to `TorrentTypeOK`.  `NamesOK`: a torrent handler
  that has been launched has a torrent, and a peer handler an owner and an address; the
  types alone allow `None`, with which the steps would index a function outside its domain.
  `RetriesOK`: counter and history agree, the counter is below its limit as long as the handler
  asks on (`StillAsks`), and at the limit when it says TotalFailure.
* `TorrentTypes` and `GivesUpExactly` follow.  The steps of a torrent handler are classified
  first (`Moves`, `HearsNothing`), so that only `Answer` has to be looked at for the counter.

`SlotProofs`:

* `ClosedOnlyLeaving`: `LeaveInv` adds `MapOwned` (an entry of the map belongs to a slot of the
  same torrent and address that has not ended) and `RemovedOwned` (the channel a `RemoveChild` has
  looked up is of the same torrent and address, unless its maker has ended).  It may be another
  channel than the goroutine's own, when a successor has replaced it in the map; so the second is
  needed to see that the close and the delete hit the same key.
* `FanoutAlwaysGoesOn`: `DueRegistered` says that what `SendChildren` has still to reach is in the map,
  and it is inductive because the step that deletes an entry takes it from `due`.
  A child that has not been served is then one the loop can go on with.
* `LoadIsBounded`: the load is the number of peer handlers at work (`Busy`) and of failures not yet
  taken (`Failures`).  Every step leaves it alone, lowers it by one for a reason (`Unloads`), or
  raises it by at most `MaxPeers` for a Start or for the first peers (`Loads`): this is the lemma
  `NextLoad`.  `FreshOK` says that before the first peers a handler has none, without which the
  first start could come on top of others.
* `PlacesKept`: of those three cases only `Unloads` lowers the load, and its reasons are those of
  `PeersReplaced`.

`ControllerProofs`, for `ProgramSpec`:

* `ControllerInvariant` and `ControllerTypes`: the types of the program.  `EnteredOK` is what
  keeps the number of Adds within `AddBound` while main is sending one.
* `NoAddLost`: `AddsConserved` is two sums, one over the queues to the controller and one over the
  places of a result.  `ConservedSum` rewrites them with `Amount`; every action moves one
  message from one place to another, or none, and has a lemma that says so.  A torrent handler
  says Add nowhere but after its first request (`SaysNoAdd`).

* `ConsoleImplementsAdds`: each action is one of `AddLedger` or a stutter, with a lemma for each.  That
  the printer's step is an `Answer` needs `NoAddLost`: the result it takes is the only one of its
  handler, so none has been printed, and the handler has been started.

`CodecProofs`, for `Spec` of `Codec`; `InputAlways` says that the input under test is one of those it
may be, and every theorem follows from a lemma about the operators:

* `HandshakesAgree`: an accepted handshake has the hash where both sides look for it; `HandshakeDecides`
  is the statement without the specification.
* `RecvAlwaysInSync`, `SentIsAlwaysRead`, `NumbersAlwaysArrive`: the number that four bytes encode is the
  one they were made from, below `Uint32Values`; from that, the length prefix tells `Recv` where the
  message ends.  `SentIsReceived` is the lemma behind the second.  The third goes through the cases of
  the switch in `Send`: nothing is written (the id is not for `Send`, or the count is wrong), the frame has
  an id and no more (`BareReceived`), or it has one or three numbers (`NumbersReceived`).
* `SameBitsAlways`: a byte is its eight binary digits; to set one of them that is 0
  adds its weight, and no other digit changes.  The shift of a Have by 8 leaves the byte alone.

`TransferProofs`, likewise:

* The library's induction rules cannot be used here, so induction on a number is done with the set of the
  numbers up to n for which a fact holds (`UpTo`, from the least element of a set, `Least`).
  `FoldExists` builds the function by which the community modules define a fold,
  and `FoldChain` turns a fold over 1..n into the n + 1 states of a loop; `WriteChain` and `ReadChain` are
  its uses.
* `FilesAlwaysTile`: `Total` of the first lengths is a sum that grows (`TotalSums`, `SumsGrow`), so
  each byte lies between two neighbours of it.
* `WritesAlwaysInPlace` and `ReadsAlwaysInPlace`: `Wrote` and `ReadSoFar` describe the loop after k files.
  Both have `Placed`, that every piece so far is in its place and `off` counts their bytes; `Wrote`
  adds that the loop goes on only before the file it comes to, or at its first byte with nothing
  written.  So the files that follow are skipped, and an error needs a file that fails.
* `RequestsAlwaysCover`: up to the limit, request k begins at the smaller of k * `MaxRequestLength` and
  the length (`ShortIsEven`); beyond it at multiples of `MaxRequestLength` that come back to 0 and never
  reach the length (`LongNeverEnds`).

Only model-checked:

* the liveness properties `ClaimSettles`, `ForwardSettles`, `HandlerReturns` and `AddAnswered`, since
  the provers have neither fairness nor ENABLED;
* `NextExact`, `DecodeExact`, `AnswerRight` and `SingleFileRight`: `Bencode` is made of RECURSIVE operators
  over strings, of which the provers know neither the characters nor the length;
* the counterexamples.

## 7. Where the code and its comments disagree

* `have`, `HaveIsDownloaded`: the deferred function at handler.go:236-247 looks at
  the `err` of line 217.  The errors of lines 269, 275 and 283-291 are returned
  without being assigned to it, so a failed download sets `BitFieldHave` and leaves
  the claim.  The comment (231-235) has it the other way.
* `wedge`, `ForwardedIsTaken`: the handler forwards to a downloader that has ended,
  for instance because it looked for a piece before the Bitfield arrived
  (line 198); once the queue is full, the handler blocks for ever.
* `requested`, `AcceptedIsRequested`: the Request is repeated after any message
  that is not a Piece, and the second answer to it is taken for the next block
  (273-291); nothing compares its index and begin.

* `twice`, `OneHandlerPerTorrent`: `Exists` at controller.go:47 looks at a map in which a torrent
  handler registers itself only after its tracker request (torrent/handler.go:29-34), so the
  error "tried to add a torrent that already exists" is not given in between, and two handlers
  run for one torrent.

* `crossing`, `ContinuesInNextFile`: `WriteData` writes the part of a block that lies in the first file and
  nothing beyond it, and reports success: the files that follow are skipped because the start of the
  block lies before them (torrent.go:152).  The comment in the loop (173-176) says that the rest of the data
  is written in the next file.

Where the code and its comments disagree and no run says so.  Each is in a definition as the code has it, and
the passing properties claim nothing about these cases:

* `ReadData` has the comparison of `WriteData` (226), so that it does not go on in the next file either,
  which its comment says (249-256): it fails, or fills the answer with zeros.  It puts
  a "/" between the empty `DownloadPath` and the name, `WriteData` does not (156, 230), so that
  it looks for the files in another directory.
* The search for a piece compares the masked byte with 1 (handler.go:321), which only the last bit of a byte
  equals; the comment above (316-320) asks whether the remote peer has the piece.  `RemoteAvailable`
  has the comparison, and with it only one piece in eight is ever downloaded.
* A length prefix has four bytes for peer.go:73-74 and 149-153; `SendData` writes the lowest one only
  (159), so that a Piece of more than 254 bytes, which is nearly every Piece, is announced with the wrong length.
* `GetFiles` fetches and converts "the files field from the torrent file" (bencode.go:328-362).  The end of
  a string inside a list or dictionary is an index of the slice that begins at the string, used as an index of
  the whole (149), so that it refuses every such torrent whose keys are in order.  For the same reason `GetNext` cuts
  an element with nested strings short, refuses it, or jumps back and never returns (`llli1e1:aeee`).
* `Decode` may turn a dictionary with a key that reads like an element, `i1e` for example, into something
  else, since `offset` leaves out the key (245).

What else a reader would not expect of the code:

* For a block that starts beyond the first file `amountToWrite` is negative and the slice panics
  (torrent.go:178-183).  A file is created with mode 0444, so a second block fails
  for a user to whom the mode applies.
* A keep-alive that shares a `Read` with the next message ends the connection, since
  its length prefix minus one is 2^32 - 1 (peer.go:201).
* `begin` wraps (258) for a last piece of 4 GB, which `Tracker.Left` can make of
  it; in the composition `getPieceData` first refuses a block whose `begin` is beyond the length
  of a piece (torrent.go:281).
* `trackerRequest` stores the interval and the numbers of an answer before it parses the peers
  (tracker.go:203-210), so that a request that fails there has changed them.

Counterexamples found with TLC that have no run of their own:

* An announcement that meets the exit of a peer handler is sent on a closed channel and panics:
  `RemoveChild` closes the channel and then deletes it, under a mutex of which the other goroutine has
  a copy (com.go:237-240).  `ClosedIsLeaving` says that this is the only time.
* The first peer to claim the last piece takes all that is missing of the torrent for its
  length (handler.go:228): eight pieces of 2 bytes, and the last one is given 16.
* A Have for piece i sets bit i-1, or none (135).
* A Bitfield with a bit for each of 480 pieces has 60 bytes and is ignored, as 4 are expected (51).
* Two handlers can be in charge of the same peer: `Respawn` asks for an entry in the map, and a
  handler that still connects has none.  With three slots, two addresses and `MaxPeers` = 2,
  fifteen states lead there.
* A peer handler that forwards, its downloader that announces a piece and the torrent handler
  that passes announcements on can wait for one another for ever, each in front of a full queue.
  It takes one peer with four pieces to download and `ChanSize` = 1 (`NumHashes` = 800); the pieces of `progress` (`NumHashes` = 660)
  suffice, and `ForwardSettles` has it among its exceptions.

`HandleHave` also reaches a panic: the check at 136 lets the index one byte past the
field through.  No comment speaks of it, so it is modelled and not a run of its own.

## 8. What is not modelled

* The messages Remove, Start, Stop and Quit on their way through the controller: `main` has no
  command for them, and the identifier the controller would send them to is the wrong one
  (the TODO at controller.go:60).  What a torrent handler does with them is in `TorrentHandler`.
* `Tracker.Stop` and the flag `Completed`, which nothing uses; the event and the other parameters in the
  URL of a request.  `os.Exit`, after which nothing happens.
* `NewTorrent` beyond its getters: it panics on the first hash (`torrent.go:100-104`), so that the models
  start from a torrent that has been made.
* In `Bencode`: a plus sign and an overflow in `Atoi`; a slice that reaches past the length of its
  buffer and stays within its capacity, which Go allows, is a panic in the model.
* `NewPeer` and `Equal` of `peer.go`.  `RecvParent`, `RecvChild` and `SendChildCopy` of `com.go`, which are never called.
* Several torrents with peers at once: the torrent handlers share only the channel to the controller,
  which `controller` has with two of them.
* The bytes of blocks, hashes, names and addresses; output and logging.
* Widths of integers, except in the shifts of bit fields, in `begin` and in the length prefix.
  `Left` may become negative.
* The answer to a remote's Request: `ReadData` and `SendData` change nothing this
  client looks at, and a failure of either is ignored (161-170).
* A remote that violates the protocol, except in the messages of `RemoteTalk`.
* Deadlines.  A read that times out is a connection that fails.
