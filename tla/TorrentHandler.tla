---------------------------- MODULE TorrentHandler ----------------------------
(***************************************************************************)
(* torrent.Handler: one goroutine for each torrent that is added.  It asks  *)
(* the tracker, starts a peer.Handler for up to MaxPeers of the peers the   *)
(* tracker names, replaces those that fail, and answers the controller.     *)
(*                                                                          *)
(*   controller <--results-- torrent.Handler <--inbox-- peer.Handler        *)
(*        |                    ^         |                   ^              *)
(*        +------ commands ----+         +------ queue ------+              *)
(*                                                                          *)
(* The peer handlers run in slots, each with its downloader, and are reduced*)
(* to what they do on comPeerHandler; PeerHandler has the rest of them.  A  *)
(* slot is free again when both goroutines have ended.  A channel is named  *)
(* after the goroutine that made it, so that a goroutine can hold a channel *)
(* the map no longer has.                                                   *)
(***************************************************************************)
EXTENDS Integers, Sequences, FiniteSets

CONSTANTS
  Handlers,       \* the goroutines that run torrent.Handler
  Torrents,       \* the info hashes
  Slots,          \* bound: the goroutines that may run peer.Handler at a time
  Addresses,      \* the HostAndPort of every peer a tracker may name
  None,           \* no channel, no torrent, no peer
  MaxPeers,       \* torrent.MaxPeers
  MaxRetryCount,  \* torrent.MaxRetryCount
  ChanSize,       \* com.ChanSize
  Asked,          \* bound: the commands the controller sends
  RestartBound    \* bound: the Start commands that are sent to a handler

ASSUME ConstantsOK ==
  /\ None \notin Handlers \cup Torrents \cup Slots \cup Addresses
  /\ IsFiniteSet(Slots) /\ IsFiniteSet(Addresses)
  /\ MaxPeers \in Nat /\ MaxRetryCount \in Nat \ {0} /\ ChanSize \in Nat \ {0}
  /\ Asked \subseteq {"Remove", "Start", "Stop", "List", "Quit"} /\ RestartBound \in Nat

VARIABLES
  tpc, torrentOf,     \* torrent handler: control point, the torrent it is for
  out, after,         \* the message it is sending to the controller, what it does next
  fan, due, served,   \* SendChildren: the message, children to reach, children reached
  target,             \* the channel SendChildren is sending on
  retryCount, misses, \* its retryCount; history: requests failed in a row
  restarts,           \* history: how many times Start has started peers
  known,              \* the keys of Tracker.Peers
  results,            \* comTorrentHandler.Parent
  cmap, cqueue, cshut,\* comTorrentHandler.children, its channels, which are closed
  cbound, cremoved,   \* the channel a torrent handler selects on; the one it removes
  spc, owner, addr,   \* peer handler: control point, its torrent handler, its peer
  inbox,              \* comPeerHandler.Parent of every torrent handler
  pmap, queue, shut,  \* comPeerHandler.children, its channels, which are closed
  bound, removed,     \* the channel a peer handler selects on; the one it removes
  crashed             \* the process has panicked

fanVars     == <<fan, due, served, target>>
trackerVars == <<retryCount, misses, known>>
ctlChanVars == <<cmap, cqueue, cshut>>
slotVars    == <<spc, owner, addr>>
peerChanVars == <<pmap, queue, shut, bound, removed>>
handlerVars == <<tpc, torrentOf, out, after, fanVars, trackerVars, restarts, cbound, cremoved>>
thVars == <<handlerVars, results, ctlChanVars, slotVars, inbox, peerChanVars, crashed>>

-------------------------------------------------------------------------------
(* Messages and types *)

PeerSays == {"Success", "Have", "TotalFailure", "Exiting"}
PeerTold == {"Quit", "Have"}
Commands == {"Remove", "Start", "Stop", "List", "Quit"}

\* A result names the torrent handler that sends it; ok is a nil Error.
Result == [id : {"Add", "Remove", "Start", "List", "Success", "Failure", "TotalFailure", "Exiting"},
           from : Handlers, ok : BOOLEAN]

HandlerPC == {"off", "first", "register", "loop", "send", "fanout", "asking",
              "leave", "closing", "deleting", "gone"}
SlotPC == {"free", "connecting", "success", "refused", "joining", "running", "failing",
           "leaving", "exiting", "closing", "deleting", "lingering"}

HandlersOK ==
  /\ tpc \in [Handlers -> HandlerPC] /\ after \in [Handlers -> HandlerPC]
  /\ torrentOf \in [Handlers -> Torrents \cup {None}] /\ out \in [Handlers -> Result]
  /\ fan \in [Handlers -> PeerTold] /\ target \in [Handlers -> Slots \cup {None}]
  /\ due \in [Handlers -> SUBSET Addresses] /\ served \in [Handlers -> SUBSET Addresses]
  /\ retryCount \in [Handlers -> 0 .. MaxRetryCount] /\ misses \in [Handlers -> Nat]
  /\ restarts \in [Handlers -> Nat] /\ known \in [Handlers -> SUBSET Addresses]
ControlOK ==
  /\ results \in Seq(Result)
  /\ cmap \in [Torrents -> Handlers \cup {None}]
  /\ cqueue \in [Handlers -> Seq(Commands)] /\ cshut \in [Handlers -> BOOLEAN]
  /\ cbound \in [Handlers -> Handlers \cup {None}]
  /\ cremoved \in [Handlers -> Handlers \cup {None}]
SlotsOK ==
  /\ spc \in [Slots -> SlotPC] /\ owner \in [Slots -> Handlers \cup {None}]
  /\ addr \in [Slots -> Addresses \cup {None}]
  /\ inbox \in [Handlers -> Seq(PeerSays)]
  /\ pmap \in [Handlers -> [Addresses -> Slots \cup {None}]]
  /\ queue \in [Slots -> Seq(PeerTold)] /\ shut \in [Slots -> BOOLEAN]
  /\ bound \in [Slots -> Slots \cup {None}] /\ removed \in [Slots -> Slots \cup {None}]
TorrentTypeOK == HandlersOK /\ ControlOK /\ SlotsOK /\ crashed \in BOOLEAN

Say(id, h, ok) == [id |-> id, from |-> h, ok |-> ok]

THInit ==
  /\ tpc = [h \in Handlers |-> "off"] /\ after = [h \in Handlers |-> "off"]
  /\ torrentOf = [h \in Handlers |-> None]
  /\ out = [h \in Handlers |-> Say("Add", h, TRUE)]
  /\ fan = [h \in Handlers |-> "Quit"] /\ target = [h \in Handlers |-> None]
  /\ due = [h \in Handlers |-> {}] /\ served = [h \in Handlers |-> {}]
  /\ retryCount = [h \in Handlers |-> 0] /\ misses = [h \in Handlers |-> 0]
  /\ restarts = [h \in Handlers |-> 0] /\ known = [h \in Handlers |-> {}]
  /\ results = <<>> /\ cmap = [t \in Torrents |-> None]
  /\ cqueue = [h \in Handlers |-> <<>>] /\ cshut = [h \in Handlers |-> FALSE]
  /\ cbound = [h \in Handlers |-> None] /\ cremoved = [h \in Handlers |-> None]
  /\ spc = [s \in Slots |-> "free"]
  /\ owner = [s \in Slots |-> None] /\ addr = [s \in Slots |-> None]
  /\ inbox = [h \in Handlers |-> <<>>]
  /\ pmap = [h \in Handlers |-> [a \in Addresses |-> None]]
  /\ queue = [s \in Slots |-> <<>>] /\ shut = [s \in Slots |-> FALSE]
  /\ bound = [s \in Slots |-> None] /\ removed = [s \in Slots |-> None]
  /\ crashed = FALSE

Room(ch) == Len(ch) < ChanSize

-------------------------------------------------------------------------------
(* Control points *)

HandlerStep(h, from, to) == tpc[h] = from /\ tpc' = [tpc EXCEPT ![h] = to]
SlotStep(s, from, to) == spc[s] = from /\ spc' = [spc EXCEPT ![s] = to]

\* A send to the controller: it may block, and then next is what h goes on with.
Sending(h, from, msg, next) ==
  /\ HandlerStep(h, from, "send")
  /\ out' = [out EXCEPT ![h] = msg] /\ after' = [after EXCEPT ![h] = next]

\* Every turn of the loop asks the map again for the channel to select on.
Rebind(h) == cbound' = [cbound EXCEPT ![h] = cmap[torrentOf[h]]]

\* The next turn of the loop, without a send.
Again(h) == tpc' = tpc /\ Rebind(h) /\ UNCHANGED <<out, after>>

\* The peers with an entry in comPeerHandler.children.
Registered(h) == {a \in Addresses : pmap[h][a] # None}

-------------------------------------------------------------------------------
(* Starting peer handlers *)

Free(s) ==
  /\ spc[s] = "free"
  /\ \A h \in Handlers : target[h] # s /\ \A a \in Addresses : pmap[h][a] # s
  /\ \A q \in Slots : bound[q] # s /\ removed[q] # s

\* "go peer.Handler(comPeerHandler, val, tor)" in the slots S, for the peers f.
Spawn(h, S, f) ==
  /\ spc' = [s \in Slots |-> IF s \in S THEN "connecting" ELSE spc[s]]
  /\ owner' = [s \in Slots |-> IF s \in S THEN h ELSE owner[s]]
  /\ addr' = [s \in Slots |-> IF s \in S THEN f[s] ELSE addr[s]]

\* The loop over Tracker.Peers that ends after MaxPeers of them.
SpawnFirst(h) ==
  \E S \in SUBSET {s \in Slots : Free(s)} : \E f \in [S -> known[h]] :
    /\ \A s, q \in S : s # q => f[s] # f[q]
    /\ Cardinality(S) = IF Cardinality(known[h]) < MaxPeers THEN Cardinality(known[h]) ELSE MaxPeers
    /\ Spawn(h, S, f)

\* Mutant of Respawn: the failed peer is not replaced.
Respawn_Never(h) == UNCHANGED slotVars

\* Mutant of Respawn: the loop lacks its break and starts every unregistered peer.
Respawn_NoBreak(h) ==
  \E S \in SUBSET {s \in Slots : Free(s)} : \E f \in [S -> known[h] \ Registered(h)] :
    /\ {f[s] : s \in S} = known[h] \ Registered(h)
    /\ Spawn(h, S, f)

\* The loop that starts one peer without an entry in the map, if there is any.
Respawn(h) ==
  \/ known[h] \subseteq Registered(h) /\ UNCHANGED slotVars
  \/ \E s \in Slots, a \in known[h] \ Registered(h) : Free(s) /\ Spawn(h, {s}, [q \in {s} |-> a])

-------------------------------------------------------------------------------
(* The torrent handler goroutine.  HandlerNext adds what none of its steps changes. *)

\* A response with these peers: those not in Tracker.Peers are added.
Merge(h, peers) == known' = [known EXCEPT ![h] = @ \cup peers]

\* The first request, and its result for the controller.
First(h) ==
  /\ \/ /\ Sending(h, "first", Say("Add", h, TRUE), "register")
        /\ \E peers \in SUBSET Addresses : Merge(h, peers)
     \/ Sending(h, "first", Say("Add", h, FALSE), "gone") /\ UNCHANGED known
  /\ UNCHANGED <<fanVars, retryCount, misses, restarts, cbound, cremoved, results, ctlChanVars,
                 slotVars, inbox, queue, crashed>>

\* "ch.Parent <- msg"
Send(h) ==
  /\ HandlerStep(h, "send", after[h])
  /\ Room(results) /\ results' = Append(results, out[h])
  /\ out' = [out EXCEPT ![h] = Say("Add", h, TRUE)] /\ after' = [after EXCEPT ![h] = "off"]
  /\ IF after[h] = "loop" THEN Rebind(h) ELSE UNCHANGED cbound
  /\ UNCHANGED <<fanVars, trackerVars, restarts, cremoved, ctlChanVars, slotVars, inbox, queue, crashed>>

\* AddChild, the first peer handlers, and the loop.
Register(h) ==
  /\ HandlerStep(h, "register", "loop")
  /\ cmap' = [cmap EXCEPT ![torrentOf[h]] = h] /\ cbound' = [cbound EXCEPT ![h] = h]
  /\ SpawnFirst(h)
  /\ UNCHANGED <<out, after, fanVars, trackerVars, restarts, cremoved, results, cqueue, cshut,
                 inbox, queue, crashed>>

\* A command on the channel h selects on.
Take(h, id) ==
  /\ tpc[h] = "loop" /\ cbound[h] # None
  /\ cqueue[cbound[h]] # <<>> /\ Head(cqueue[cbound[h]]) = id
  /\ cqueue' = [cqueue EXCEPT ![cbound[h]] = Tail(@)]

\* The call of SendChildren: the loop visits the entries the map has now, unless
\* they are deleted before, and may visit entries that are added meanwhile.  An
\* entry that is deleted and added again is a new one.
SendChildren(h, msg) ==
  /\ HandlerStep(h, "loop", "fanout")
  /\ fan' = [fan EXCEPT ![h] = msg]
  /\ due' = [due EXCEPT ![h] = Registered(h)] /\ served' = [served EXCEPT ![h] = {}]
  /\ UNCHANGED <<target, out, after, cbound>>

\* Start: refused as long as the map has entries.
Start(h) ==
  /\ Take(h, "Start")
  /\ Sending(h, "loop", Say("Start", h, Registered(h) = {}), "loop")
  /\ IF Registered(h) = {}
     THEN SpawnFirst(h) /\ restarts' = [restarts EXCEPT ![h] = @ + 1]
     ELSE UNCHANGED <<slotVars, restarts>>
  /\ UNCHANGED <<fanVars, cbound>>

\* Remove and Quit end h, without a word to its peer handlers.
Command(h) ==
  /\ \/ Start(h)
     \/ /\ \/ /\ \/ Take(h, "Remove") /\ Sending(h, "loop", Say("Remove", h, TRUE), "leave")
                 \/ Take(h, "List") /\ Sending(h, "loop", Say("List", h, TRUE), "loop")
                 \/ Take(h, "Quit") /\ HandlerStep(h, "loop", "leave") /\ UNCHANGED <<out, after>>
              /\ UNCHANGED <<fanVars, cbound>>
           \/ Take(h, "Stop") /\ SendChildren(h, "Quit")
        /\ UNCHANGED <<slotVars, restarts>>
  /\ UNCHANGED <<trackerVars, cremoved, results, cmap, cshut, inbox, queue, crashed>>

\* A closed channel yields zero messages: Id Add, which the loop ignores.
ReadClosed(h) ==
  /\ tpc[h] = "loop" /\ cbound[h] # None
  /\ cqueue[cbound[h]] = <<>> /\ cshut[cbound[h]]
  /\ Again(h)
  /\ UNCHANGED <<fanVars, trackerVars, restarts, cremoved, results, ctlChanVars, slotVars, inbox,
                 queue, crashed>>

\* A message of a peer handler or a downloader.
FromPeer(h) ==
  /\ tpc[h] = "loop" /\ inbox[h] # <<>>
  /\ inbox' = [inbox EXCEPT ![h] = Tail(@)]
  /\ \/ /\ Head(inbox[h]) = "Success" /\ UNCHANGED <<fanVars, slotVars>>
        /\ \/ /\ cmap[torrentOf[h]] # None
              /\ Sending(h, "loop", Say("Success", h, TRUE), "loop") /\ UNCHANGED cbound
           \/ cmap[torrentOf[h]] = None /\ Again(h)
     \/ Head(inbox[h]) = "Have" /\ SendChildren(h, "Have") /\ UNCHANGED slotVars
     \/ Head(inbox[h]) = "TotalFailure" /\ Respawn(h) /\ Again(h) /\ UNCHANGED fanVars
     \/ Head(inbox[h]) = "Exiting" /\ Again(h) /\ UNCHANGED <<fanVars, slotVars>>
  /\ UNCHANGED <<trackerVars, restarts, cremoved, results, ctlChanVars, queue, crashed>>

\* The range loop comes to the next child, and sends: on a closed channel that
\* panics, on a full one it blocks.
NextChild(h) ==
  /\ tpc[h] = "fanout" /\ target[h] = None
  /\ \E a \in Registered(h) \ served[h] :
       /\ target' = [target EXCEPT ![h] = pmap[h][a]]
       /\ served' = [served EXCEPT ![h] = @ \cup {a}]
  /\ UNCHANGED <<tpc, out, after, fan, due, cbound, trackerVars, restarts, cremoved, results,
                 ctlChanVars, slotVars, inbox, queue, crashed>>

SendTarget(h) ==
  /\ target[h] # None
  /\ \/ shut[target[h]] /\ crashed' = TRUE /\ UNCHANGED <<queue, target>>
     \/ /\ ~ shut[target[h]] /\ Room(queue[target[h]])
        /\ queue' = [queue EXCEPT ![target[h]] = Append(@, fan[h])]
        /\ target' = [target EXCEPT ![h] = None] /\ UNCHANGED crashed
  /\ UNCHANGED <<tpc, out, after, fan, due, served, cbound, trackerVars, restarts, cremoved,
                 results, ctlChanVars, slotVars, inbox>>

\* Every child that was there, and still is, has been reached.
FanDone(h) == due[h] \subseteq served[h]

EndSendChildren(h) ==
  /\ HandlerStep(h, "fanout", "loop") /\ target[h] = None /\ FanDone(h)
  /\ Rebind(h)
  /\ due' = [due EXCEPT ![h] = {}] /\ served' = [served EXCEPT ![h] = {}]
  /\ UNCHANGED <<out, after, fan, target, trackerVars, restarts, cremoved, results, ctlChanVars,
                 slotVars, inbox, queue, crashed>>

\* The interval timer: a request, of which the whole goroutine waits for the end.
Timer(h) ==
  /\ HandlerStep(h, "loop", "asking")
  /\ UNCHANGED <<out, after, fanVars, trackerVars, restarts, cbound, cremoved, results, ctlChanVars,
                 slotVars, inbox, queue, crashed>>

\* Mutant of AfterSuccess: the counter is not reset.
AfterSuccess_Keep(n) == n

\* retryCount after a request that succeeded.
AfterSuccess(n) == 0

\* Mutant of GivesUp: one request too many.
GivesUp_OffByOne(n) == n > MaxRetryCount

\* The handler ends after so many requests that failed in a row.
GivesUp(n) == n >= MaxRetryCount

\* The answer of the tracker, or an error: of the connection, of the tracker, or
\* of a response that cannot be parsed.
Answer(h) ==
  /\ \/ /\ HandlerStep(h, "asking", "loop") /\ Rebind(h) /\ UNCHANGED <<out, after>>
        /\ \E peers \in SUBSET Addresses : Merge(h, peers)
        /\ retryCount' = [retryCount EXCEPT ![h] = AfterSuccess(@)]
        /\ misses' = [misses EXCEPT ![h] = 0]
     \/ /\ IF GivesUp(retryCount[h] + 1)
           THEN Sending(h, "asking", Say("TotalFailure", h, FALSE), "leave")
           ELSE Sending(h, "asking", Say("Failure", h, FALSE), "loop")
        /\ retryCount' = [retryCount EXCEPT ![h] = @ + 1]
        /\ misses' = [misses EXCEPT ![h] = @ + 1]
        /\ UNCHANGED <<known, cbound>>
  /\ UNCHANGED <<fanVars, restarts, cremoved, results, ctlChanVars, slotVars, inbox, queue, crashed>>

\* The deferred RemoveChild, step by step: Exiting, close, delete.
LeaveController(h) ==
  /\ \/ /\ tpc[h] = "leave" /\ UNCHANGED <<cmap, cshut, crashed>>
        /\ \/ /\ cmap[torrentOf[h]] # None
              /\ cremoved' = [cremoved EXCEPT ![h] = cmap[torrentOf[h]]]
              /\ Sending(h, "leave", Say("Exiting", h, TRUE), "closing")
           \/ /\ HandlerStep(h, "leave", "deleting") /\ cmap[torrentOf[h]] = None
              /\ UNCHANGED <<cremoved, out, after>>
     \/ /\ UNCHANGED <<cmap, cremoved, out, after>>
        /\ \/ /\ tpc[h] = "closing" /\ cshut[cremoved[h]]
              /\ crashed' = TRUE /\ UNCHANGED <<tpc, cshut>>
           \/ /\ HandlerStep(h, "closing", "deleting") /\ ~ cshut[cremoved[h]]
              /\ cshut' = [cshut EXCEPT ![cremoved[h]] = TRUE] /\ UNCHANGED crashed
     \/ /\ HandlerStep(h, "deleting", "gone")
        /\ cmap' = [cmap EXCEPT ![torrentOf[h]] = None]
        /\ UNCHANGED <<cshut, cremoved, out, after, crashed>>
  /\ UNCHANGED <<fanVars, trackerVars, restarts, cbound, results, cqueue, slotVars, inbox, queue>>

HandlerNext(h) ==
  /\ \/ First(h) \/ Send(h) \/ Register(h) \/ Command(h) \/ ReadClosed(h) \/ FromPeer(h)
     \/ NextChild(h) \/ SendTarget(h) \/ EndSendChildren(h) \/ Timer(h) \/ Answer(h)
     \/ LeaveController(h)
  /\ UNCHANGED <<torrentOf, pmap, shut, bound, removed>>

-------------------------------------------------------------------------------
(* The peer handlers *)

Quiet == UNCHANGED <<pmap, queue, shut, bound, removed, inbox, due, served, crashed>>

\* Handshake: the peer answers with the info hash, or anything fails.
Connect(s) ==
  /\ SlotStep(s, "connecting", "success") \/ SlotStep(s, "connecting", "refused")
  /\ UNCHANGED <<owner, addr>> /\ Quiet

\* A goroutine that has ended leaves its slot.
Vacate(s) == owner' = [owner EXCEPT ![s] = None] /\ addr' = [addr EXCEPT ![s] = None]

Says(s, from, id, to) ==
  /\ SlotStep(s, from, to)
  /\ Room(inbox[owner[s]]) /\ inbox' = [inbox EXCEPT ![owner[s]] = Append(@, id)]

\* The messages with which a handler tells of its state; each may block.
Report(s) ==
  /\ \/ Says(s, "success", "Success", "joining") /\ UNCHANGED <<owner, addr>>
     \/ Says(s, "refused", "TotalFailure", "free") /\ Vacate(s)
     \/ Says(s, "failing", "TotalFailure", "leaving") /\ UNCHANGED <<owner, addr>>
  /\ UNCHANGED <<pmap, queue, shut, bound, removed, due, served, crashed>>

\* AddChild: a new channel, in place of one the map may have for that peer.
Join(s) ==
  /\ SlotStep(s, "joining", "running")
  /\ pmap' = [pmap EXCEPT ![owner[s]][addr[s]] = s]
  /\ queue' = [queue EXCEPT ![s] = <<>>] /\ shut' = [shut EXCEPT ![s] = FALSE]
  /\ bound' = [bound EXCEPT ![s] = s]
  /\ UNCHANGED <<owner, addr, removed, inbox, due, served, crashed>>

\* The next turn of the loop.
TurnTo(s) == bound' = [bound EXCEPT ![s] = pmap[owner[s]][addr[s]]]

\* Bound: no more peers fail than slots are left for those that replace them.
Spare ==
  LET Failing == {s \in Slots : spc[s] = "failing"}
      Failed(h) == {i \in DOMAIN inbox[h] : inbox[h][i] = "TotalFailure"}
  IN  \A h \in Handlers :
        Cardinality(Failing) + Cardinality(Failed(h)) < Cardinality({s \in Slots : Free(s)})

\* A message of the remote, or an error.
Run(s) ==
  /\ spc[s] = "running"
  /\ \/ TurnTo(s) /\ spc' = spc /\ UNCHANGED inbox
     \/ Spare /\ SlotStep(s, "running", "failing") /\ UNCHANGED <<bound, inbox>>
  /\ UNCHANGED <<owner, addr, pmap, queue, shut, removed, due, served, crashed>>

\* The downloader announces a piece, if it likes long after its peer handler ended.
Announce(s) ==
  /\ spc[s] \in {"running", "failing", "leaving", "exiting", "closing", "deleting", "lingering"}
  /\ Room(inbox[owner[s]]) /\ inbox' = [inbox EXCEPT ![owner[s]] = Append(@, "Have")]
  /\ UNCHANGED <<slotVars, pmap, queue, shut, bound, removed, due, served, crashed>>

\* The downloader ends too.
LastOut(s) == SlotStep(s, "lingering", "free") /\ Vacate(s) /\ Quiet

\* A message of the torrent handler, or the zero message of a closed channel.
Obey(s) ==
  /\ spc[s] = "running" /\ bound[s] # None
  /\ \/ /\ queue[bound[s]] # <<>> /\ queue' = [queue EXCEPT ![bound[s]] = Tail(@)]
        /\ IF Head(queue[bound[s]]) = "Quit"
           THEN SlotStep(s, "running", "leaving") /\ UNCHANGED bound
           ELSE spc' = spc /\ TurnTo(s)
     \/ queue[bound[s]] = <<>> /\ shut[bound[s]] /\ spc' = spc /\ TurnTo(s) /\ UNCHANGED queue
  /\ UNCHANGED <<owner, addr, pmap, shut, removed, inbox, due, served, crashed>>

\* A channel that no goroutine refers to is garbage.
Drop(s) ==
  LET Held == \/ \E q \in Slots \ {s} : bound[q] = s \/ removed[q] = s
              \/ \E h \in Handlers : target[h] = s
  IN  /\ queue' = IF Held THEN queue ELSE [queue EXCEPT ![s] = <<>>]
      /\ shut' = IF Held THEN shut ELSE [shut EXCEPT ![s] = FALSE]

\* Mutant of Forget: the entry stays.
Forget_Not(h, a) == UNCHANGED <<pmap, due, served>>

\* Mutant of Forget: SendChildren ranges over a copy of the keys.
Forget_Copied(h, a) ==
  /\ pmap' = [pmap EXCEPT ![h][a] = None]
  /\ UNCHANGED <<due, served>>

\* "delete(ch.children, child)", whatever channel it is; a loop of SendChildren
\* does not come to the entry any more.
Forget(h, a) ==
  /\ pmap' = [pmap EXCEPT ![h][a] = None]
  /\ due' = [due EXCEPT ![h] = @ \ {a}] /\ served' = [served EXCEPT ![h] = @ \ {a}]

\* The deferred RemoveChild: the channel looked up, Exiting, close, delete.
LeavePeer(s) ==
  \/ /\ \/ /\ SlotStep(s, "leaving", "exiting") /\ pmap[owner[s]][addr[s]] # None
           /\ removed' = [removed EXCEPT ![s] = pmap[owner[s]][addr[s]]]
        \/ /\ SlotStep(s, "leaving", "deleting") /\ pmap[owner[s]][addr[s]] = None
           /\ UNCHANGED removed
     /\ bound' = [bound EXCEPT ![s] = None]
     /\ UNCHANGED <<owner, addr, pmap, queue, shut, inbox, due, served, crashed>>
  \/ /\ Says(s, "exiting", "Exiting", "closing")
     /\ UNCHANGED <<owner, addr, pmap, queue, shut, bound, removed, due, served, crashed>>
  \/ /\ \/ /\ SlotStep(s, "closing", "deleting") /\ ~ shut[removed[s]]
           /\ shut' = [shut EXCEPT ![removed[s]] = TRUE]
           /\ removed' = [removed EXCEPT ![s] = None] /\ UNCHANGED crashed
        \/ /\ spc[s] = "closing" /\ shut[removed[s]] /\ crashed' = TRUE
           /\ UNCHANGED <<spc, shut, removed>>
     /\ UNCHANGED <<owner, addr, pmap, queue, bound, inbox, due, served>>
  \/ /\ SlotStep(s, "deleting", "lingering") /\ Forget(owner[s], addr[s]) /\ Drop(s)
     /\ UNCHANGED <<owner, addr, bound, removed, inbox, crashed>>

SlotNext(s) ==
  /\ \/ Connect(s) \/ Report(s) \/ Join(s) \/ Run(s) \/ Obey(s) \/ LeavePeer(s)
     \/ Announce(s) \/ LastOut(s)
  /\ UNCHANGED <<tpc, torrentOf, out, after, fan, target, trackerVars, restarts, cbound,
                 cremoved, results, ctlChanVars>>

\* A write to the map while another goroutine is at it: each locks a mutex of its own.
MapThrow ==
  /\ \E s \in Slots :
       /\ spc[s] \in {"joining", "deleting"}
       /\ \/ \E q \in Slots \ {s} :
               owner[q] = owner[s] /\ spc[q] \in {"joining", "running", "leaving", "deleting"}
          \/ tpc[owner[s]] = "fanout"
          \/ tpc[owner[s]] = "loop" /\ inbox[owner[s]] # <<>> /\ Head(inbox[owner[s]]) = "TotalFailure"
  /\ crashed' = TRUE
  /\ UNCHANGED <<handlerVars, results, ctlChanVars, slotVars, inbox, peerChanVars>>

-------------------------------------------------------------------------------
(* The handler on its own: the controller starts it, sends it commands and takes *)
(* its results.                                                                  *)

\* "go torrent.Handler(comTorrentHandler, tor)"
Launch(h, t) ==
  /\ HandlerStep(h, "off", "first") /\ torrentOf' = [torrentOf EXCEPT ![h] = t]
  /\ UNCHANGED <<out, after, fanVars, trackerVars, restarts, cbound, cremoved, results,
                 ctlChanVars, slotVars, inbox, peerChanVars, crashed>>

\* A send to the channel the map has for a torrent.
Tell(t, id) ==
  /\ cmap[t] # None
  /\ \/ ~ cshut[cmap[t]] /\ Room(cqueue[cmap[t]])
        /\ cqueue' = [cqueue EXCEPT ![cmap[t]] = Append(@, id)] /\ UNCHANGED crashed
     \/ cshut[cmap[t]] /\ crashed' = TRUE /\ UNCHANGED cqueue
  /\ UNCHANGED <<handlerVars, results, cmap, cshut, slotVars, inbox, peerChanVars>>

TakeResult ==
  /\ results # <<>> /\ results' = Tail(results)
  /\ UNCHANGED <<handlerVars, ctlChanVars, slotVars, inbox, peerChanVars, crashed>>

Starts(h) == restarts[h] + Cardinality({i \in DOMAIN cqueue[h] : cqueue[h][i] = "Start"})

\* Bound: so many Starts, and no handler is ended that has been started again.
MaySend(t, id) ==
  cmap[t] # None =>
    /\ id = "Start" => Starts(cmap[t]) < RestartBound
    /\ id \in {"Remove", "Quit"} => Starts(cmap[t]) = 0

Next ==
  /\ ~ crashed
  /\ \/ \E h \in Handlers : HandlerNext(h) \/ \E t \in Torrents : Launch(h, t)
     \/ \E s \in Slots : SlotNext(s)
     \/ \E t \in Torrents, id \in Asked :
          MaySend(t, id) /\ Tell(t, id)
     \/ TakeResult \/ MapThrow

Spec == THInit /\ [][Next]_thVars

-------------------------------------------------------------------------------
(* Properties *)

\* The goroutines of h that have not given up their place, and the failures of
\* which h has not heard.
Load(h) ==
  Cardinality({s \in Slots : /\ owner[s] = h
                             /\ spc[s] \in {"connecting", "success", "refused", "joining",
                                            "running", "failing"}})
    + Cardinality({i \in DOMAIN inbox[h] : inbox[h][i] = "TotalFailure"})

\* A torrent never has more peer handlers at work, or about to be replaced, than
\* MaxPeers for its first start and MaxPeers for each Start command: the one
\* goroutine that follows a TotalFailure takes the place of the one that sent it.
LoadBounded == \A h \in Handlers : Load(h) <= MaxPeers * (1 + restarts[h])

\* A place is given up only by a peer handler that is told to Quit, or when the
\* tracker has named no peer without a handler at the moment of the failure.
PeersReplaced ==
  [][\A h \in Handlers :
       Load(h)' < Load(h) =>
         \/ \E s \in Slots : owner[s] = h /\ spc[s] = "running" /\ spc'[s] = "leaving"
         \/ known[h] \subseteq Registered(h)]_thVars

\* The handler gives up on the tracker after MaxRetryCount requests that fail in a
\* row, no fewer and no more.
RetriesExact ==
  \A h \in Handlers :
    /\ out[h].id = "TotalFailure" => misses[h] = MaxRetryCount
    /\ tpc[h] \in {"loop", "asking", "fanout"} => misses[h] < MaxRetryCount

\* A channel that is closed is reachable through the map only while a peer handler
\* of that peer is between the close and the delete of RemoveChild: at any other
\* time a send to the children cannot panic.
ClosedIsLeaving ==
  \A h \in Handlers, a \in Addresses :
    pmap[h][a] # None /\ shut[pmap[h][a]] =>
      \E s \in Slots : owner[s] = h /\ addr[s] = a /\ spc[s] = "deleting"

\* SendChildren never stands still between two children: it has reached all it must,
\* or there is one in the map that it can go on with, whoever left meanwhile.
FanoutGoesOn ==
  \A h \in Handlers :
    tpc[h] = "fanout" /\ target[h] = None => FanDone(h) \/ Registered(h) \ served[h] # {}
===============================================================================
