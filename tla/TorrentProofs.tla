---------------------------- MODULE TorrentProofs ----------------------------
(***************************************************************************)
(* Theorems about TorrentHandler, for every number of torrents, peers and   *)
(* retries and every capacity of the channels.  The lemmas about the steps  *)
(* do not speak of Spec: Controller takes the same steps.                   *)
(***************************************************************************)
EXTENDS TorrentHandler, QueueLemmas

USE ConstantsOK

-------------------------------------------------------------------------------
(* Types *)

\* A torrent handler that has been launched has its torrent, and a peer handler
\* that runs has its torrent handler and its peer.
NamesOK ==
  /\ \A h \in Handlers : tpc[h] # "off" => torrentOf[h] \in Torrents
  /\ \A s \in Slots : spc[s] # "free" => owner[s] \in Handlers /\ addr[s] \in Addresses

\* What a torrent handler does after a send.
AfterSend == {"register", "gone", "loop", "leave", "closing"}

\* h has not given up on its tracker.
StillAsks(h) ==
  \/ tpc[h] \in {"off", "first", "register", "loop", "asking", "fanout"}
  \/ tpc[h] = "send" /\ after[h] \in {"register", "loop"}

\* The counter is below its limit until the handler gives up, and at the limit while
\* it says so; a message is held only while it is being sent.
RetriesOK ==
  \A h \in Handlers :
    /\ misses[h] = retryCount[h]
    /\ StillAsks(h) => retryCount[h] < MaxRetryCount
    /\ out[h].id = "TotalFailure" => retryCount[h] = MaxRetryCount
    /\ tpc[h] # "send" => out[h].id = "Add"
    /\ tpc[h] = "send" => after[h] \in AfterSend
    /\ out[h].from = h

TorrentInv == TorrentTypeOK /\ NamesOK /\ RetriesOK

\* The invariant holds at first.
LEMMA TorrentInit == THInit => TorrentInv
<1> SUFFICES ASSUME THInit
             PROVE  TorrentInv
  OBVIOUS
<1> USE DEF THInit, Say
<1>1. HandlersOK
  BY DEF HandlersOK, HandlerPC, Result, PeerTold
<1>2. ControlOK
  BY DEF ControlOK
<1>3. SlotsOK
  BY DEF SlotsOK, SlotPC
<1>4. NamesOK /\ RetriesOK
  BY DEF NamesOK, RetriesOK, StillAsks, AfterSend
<1>5. QED
  BY <1>1, <1>2, <1>3, <1>4 DEF TorrentInv, TorrentTypeOK

\* What a torrent handler says is a result, and comes from itself.
LEMMA SayType ==
  ASSUME NEW h \in Handlers, NEW ok \in BOOLEAN,
         NEW id \in {"Add", "Remove", "Start", "List", "Success", "Failure", "TotalFailure", "Exiting"}
  PROVE  Say(id, h, ok) \in Result /\ Say(id, h, ok).id = id /\ Say(id, h, ok).from = h
BY DEF Say, Result

-------------------------------------------------------------------------------
(* Control points of a torrent handler *)

\* What is said by a torrent handler, when, and what it does next.
Speaks(h, from, id, next) == \E ok \in BOOLEAN : Sending(h, from, Say(id, h, ok), next)

\* One torrent handler moves: it begins a send, ends one, or goes elsewhere.
Moves(h) ==
  /\ tpc' \in [Handlers -> HandlerPC] /\ after' \in [Handlers -> HandlerPC]
  /\ out' \in [Handlers -> Result]
  /\ \A k \in Handlers \ {h} : tpc'[k] = tpc[k] /\ after'[k] = after[k] /\ out'[k] = out[k]
  /\ out'[h].from = h
  /\ tpc'[h] = "off" <=> tpc[h] = "off"
  /\ tpc'[h] # "send" => out'[h].id = "Add"
  /\ tpc'[h] = "send" => after'[h] \in AfterSend

\* It hears nothing of its tracker: it neither starts to ask again nor gives up.
HearsNothing(h) ==
  (StillAsks(h)' => StillAsks(h)) /\ (out'[h].id = "TotalFailure" => out[h].id = "TotalFailure")

\* Speaks moves a torrent handler to its send, with the message in its hands.
LEMMA SpeaksMoves ==
  ASSUME TorrentInv, NEW h \in Handlers, NEW from \in HandlerPC \ {"off"}, NEW next \in AfterSend,
         NEW id \in {"Add", "Remove", "Start", "List", "Success", "Failure", "TotalFailure", "Exiting"},
         Speaks(h, from, id, next)
  PROVE  Moves(h) /\ tpc[h] = from /\ tpc'[h] = "send" /\ after'[h] = next /\ out'[h].id = id
<1>1. PICK ok \in BOOLEAN : Sending(h, from, Say(id, h, ok), next)
  BY DEF Speaks
<1>2. Say(id, h, ok) \in Result /\ Say(id, h, ok).id = id /\ Say(id, h, ok).from = h
  BY SayType
<1>3. tpc[h] = from /\ tpc' = [tpc EXCEPT ![h] = "send"] /\ after' = [after EXCEPT ![h] = next]
  BY <1>1 DEF Sending, HandlerStep
<1>4. PICK m \in Result : m.id = id /\ m.from = h /\ out' = [out EXCEPT ![h] = m]
  BY <1>1, <1>2 DEF Sending
<1>5. QED
  BY <1>3, <1>4 DEF Moves, TorrentInv, TorrentTypeOK, HandlersOK, HandlerPC, AfterSend

\* A step between two points without a send moves it, with no message.
LEMMA StepMoves ==
  ASSUME TorrentInv, NEW h \in Handlers, NEW from \in HandlerPC \ {"off", "send"},
         NEW to \in HandlerPC \ {"off", "send"}, HandlerStep(h, from, to), UNCHANGED <<out, after>>
  PROVE  Moves(h) /\ tpc[h] = from /\ tpc'[h] = to /\ UNCHANGED <<out, after>>
BY DEF Moves, HandlerStep, TorrentInv, TorrentTypeOK, HandlersOK, HandlerPC, RetriesOK

\* A torrent handler that stays where it is hears nothing.
LEMMA StayMoves ==
  ASSUME TorrentInv, NEW h \in Handlers, UNCHANGED <<tpc, out, after>>
  PROVE  Moves(h) /\ HearsNothing(h)
BY DEF Moves, HearsNothing, StillAsks, TorrentInv, TorrentTypeOK, HandlersOK, RetriesOK

\* Every step of a torrent handler but the answer of its tracker moves it in this way.
LEMMA HandlerMoves ==
  ASSUME TorrentInv, NEW h \in Handlers, HandlerNext(h)
  PROVE  Moves(h) /\ (~ Answer(h) => HearsNothing(h))
<1> USE DEF HandlerPC, AfterSend, HearsNothing, StillAsks
<1>1. CASE First(h)
  <2>1. \E next \in {"register", "gone"} : Speaks(h, "first", "Add", next)
    BY <1>1, ZenonT(30) DEF First, Speaks
  <2>2. QED
    BY <2>1, SpeaksMoves
<1>2. CASE Send(h)
  <2>1. tpc[h] = "send" /\ after[h] \in AfterSend
    BY <1>2 DEF Send, HandlerStep, TorrentInv, RetriesOK
  <2>2. tpc' = [tpc EXCEPT ![h] = after[h]] /\ after' = [after EXCEPT ![h] = "off"]
    BY <1>2 DEF Send, HandlerStep
  <2>3. PICK m \in Result : m.from = h /\ m.id = "Add" /\ out' = [out EXCEPT ![h] = m]
    <3>1. Say("Add", h, TRUE) \in Result /\ Say("Add", h, TRUE).from = h /\ Say("Add", h, TRUE).id = "Add"
      BY SayType
    <3>2. QED
      BY <1>2, <3>1 DEF Send
  <2>4. QED
    BY <2>1, <2>2, <2>3 DEF Moves, TorrentInv, TorrentTypeOK, HandlersOK
<1>3. CASE Register(h)
  BY <1>3, StepMoves DEF Register
<1>4. CASE Command(h)
  <2>1. CASE \E id \in {"Start", "Remove", "List"}, next \in {"loop", "leave"} : Speaks(h, "loop", id, next)
    BY <2>1, SpeaksMoves
  <2>2. CASE HandlerStep(h, "loop", "leave") /\ UNCHANGED <<out, after>>
    BY <2>2, StepMoves
  <2>3. CASE SendChildren(h, "Quit")
    BY <2>3, StepMoves DEF SendChildren
  <2>4. CASE Start(h)
    <3>1. Speaks(h, "loop", "Start", "loop")
      BY <2>4 DEF Start, Speaks
    <3>2. QED
      BY <3>1, <2>1
  <2>5. CASE Sending(h, "loop", Say("Remove", h, TRUE), "leave") \/ Sending(h, "loop", Say("List", h, TRUE), "loop")
    <3>1. Speaks(h, "loop", "Remove", "leave") \/ Speaks(h, "loop", "List", "loop")
      BY <2>5 DEF Speaks
    <3>2. QED
      BY <3>1, <2>1
  <2>6. QED
    BY <1>4, <2>2, <2>3, <2>4, <2>5 DEF Command
<1>5. CASE FromPeer(h)
  <2>1. CASE Sending(h, "loop", Say("Success", h, TRUE), "loop")
    <3>1. Speaks(h, "loop", "Success", "loop")
      BY <2>1 DEF Speaks
    <3>2. QED
      BY <3>1, SpeaksMoves
  <2>2. CASE SendChildren(h, "Have")
    BY <2>2, StepMoves DEF SendChildren
  <2>3. CASE Again(h)
    BY <2>3, StayMoves DEF Again
  <2>4. QED
    BY <1>5, <2>1, <2>2, <2>3 DEF FromPeer
<1>6. CASE EndSendChildren(h) \/ Timer(h)
  BY <1>6, StepMoves DEF EndSendChildren, Timer
<1>7. CASE Answer(h)
  <2>1. CASE HandlerStep(h, "asking", "loop") /\ UNCHANGED <<out, after>>
    BY <1>7, <2>1, StepMoves
  <2>2. CASE Speaks(h, "asking", "TotalFailure", "leave") \/ Speaks(h, "asking", "Failure", "loop")
    BY <1>7, <2>2, SpeaksMoves
  <2>3. QED
    BY <1>7, <2>1, <2>2, ZenonT(30) DEF Answer, Speaks
<1>8. CASE LeaveController(h)
  <2>1. CASE Sending(h, "leave", Say("Exiting", h, TRUE), "closing")
    <3>1. Speaks(h, "leave", "Exiting", "closing")
      BY <2>1 DEF Speaks
    <3>2. QED
      BY <3>1, SpeaksMoves
  <2>2. CASE /\ UNCHANGED <<out, after>>
             /\ \/ HandlerStep(h, "leave", "deleting") \/ HandlerStep(h, "closing", "deleting")
                \/ HandlerStep(h, "deleting", "gone")
    BY <2>2, StepMoves
  <2>3. CASE UNCHANGED <<tpc, out, after>>
    BY <2>3, StayMoves
  <2>4. QED
    BY <1>8, <2>1, <2>2, <2>3 DEF LeaveController
<1>9. CASE ReadClosed(h) \/ NextChild(h) \/ SendTarget(h)
  BY <1>9, StayMoves DEF ReadClosed, Again, NextChild, SendTarget
<1>10. QED
  BY <1>1, <1>2, <1>3, <1>4, <1>5, <1>6, <1>7, <1>8, <1>9 DEF HandlerNext

\* The counters are right after every step but an answer.
LEMMA RetriesStay ==
  ASSUME TorrentInv, NEW h \in Handlers, Moves(h), HearsNothing(h), UNCHANGED <<retryCount, misses>>
  PROVE  RetriesOK'
BY DEF RetriesOK, Moves, HearsNothing, StillAsks, TorrentInv

\* An answer resets the counters, or adds to them as long as the handler asks on.
LEMMA RetriesAnswer ==
  ASSUME TorrentInv, NEW h \in Handlers, Answer(h), Moves(h)
  PROVE  RetriesOK' /\ retryCount' \in [Handlers -> 0 .. MaxRetryCount] /\ misses' \in [Handlers -> Nat]
<1> USE DEF HandlerPC, AfterSend
<1>1. /\ retryCount \in [Handlers -> 0 .. MaxRetryCount] /\ misses \in [Handlers -> Nat]
      /\ misses[h] = retryCount[h]
  BY DEF TorrentInv, TorrentTypeOK, HandlersOK, RetriesOK
<1>2. tpc[h] = "asking"
  BY DEF Answer, HandlerStep, Sending
<1>3. retryCount[h] < MaxRetryCount
  BY <1>2 DEF TorrentInv, RetriesOK, StillAsks
<1>4. CASE /\ HandlerStep(h, "asking", "loop") /\ UNCHANGED <<out, after>>
           /\ retryCount' = [retryCount EXCEPT ![h] = 0] /\ misses' = [misses EXCEPT ![h] = 0]
  BY <1>1, <1>2, <1>4, StepMoves DEF RetriesOK, Moves, StillAsks, TorrentInv
<1>5. ASSUME /\ retryCount' = [retryCount EXCEPT ![h] = @ + 1] /\ misses' = [misses EXCEPT ![h] = @ + 1]
             /\ \/ GivesUp(retryCount[h] + 1) /\ Speaks(h, "asking", "TotalFailure", "leave")
                \/ ~ GivesUp(retryCount[h] + 1) /\ Speaks(h, "asking", "Failure", "loop")
      PROVE  RetriesOK' /\ retryCount' \in [Handlers -> 0 .. MaxRetryCount] /\ misses' \in [Handlers -> Nat]
  <2>1. CASE GivesUp(retryCount[h] + 1)
    <3>1. tpc'[h] = "send" /\ after'[h] = "leave" /\ out'[h].id = "TotalFailure"
      BY <1>5, <2>1, SpeaksMoves
    <3>2. retryCount[h] + 1 = MaxRetryCount
      BY <1>1, <1>3, <2>1 DEF GivesUp
    <3>3. QED
      BY <1>1, <1>3, <1>5, <3>1, <3>2 DEF RetriesOK, Moves, StillAsks, TorrentInv
  <2>2. CASE ~ GivesUp(retryCount[h] + 1)
    <3>1. tpc'[h] = "send" /\ after'[h] = "loop" /\ out'[h].id = "Failure"
      BY <1>5, <2>2, SpeaksMoves
    <3>2. retryCount[h] + 1 < MaxRetryCount
      BY <1>1, <1>3, <2>2 DEF GivesUp
    <3>3. QED
      BY <1>1, <1>3, <1>5, <3>1, <3>2 DEF RetriesOK, Moves, StillAsks, TorrentInv
  <2>3. QED
    BY <2>1, <2>2
<1>6. QED
  BY <1>4, <1>5, ZenonT(30) DEF Answer, AfterSuccess, Speaks

-------------------------------------------------------------------------------
(* The steps of a torrent handler *)

\* After a step every slot is at a control point, and a peer handler has its names.
PeersNamed ==
  /\ spc' \in [Slots -> SlotPC] /\ owner' \in [Slots -> Handlers \cup {None}]
  /\ addr' \in [Slots -> Addresses \cup {None}]
  /\ \A s \in Slots : spc'[s] # "free" => owner'[s] \in Handlers /\ addr'[s] \in Addresses

\* Starting peer handlers for known peers names their torrent handler and peer.
LEMMA SpawnType ==
  ASSUME TorrentInv, NEW h \in Handlers, NEW S \in SUBSET Slots, NEW f \in [S -> Addresses],
         Spawn(h, S, f)
  PROVE  PeersNamed
BY DEF PeersNamed, Spawn, TorrentInv, TorrentTypeOK, SlotsOK, NamesOK, SlotPC

\* The loops of Register, Start and TotalFailure start only peer handlers of that kind.
LEMMA StartingType ==
  ASSUME TorrentInv, NEW h \in Handlers, SpawnFirst(h) \/ Respawn(h) \/ UNCHANGED slotVars
  PROVE  PeersNamed
<1>1. known[h] \subseteq Addresses
  BY DEF TorrentInv, TorrentTypeOK, HandlersOK
<1>2. CASE UNCHANGED slotVars
  BY <1>2 DEF PeersNamed, slotVars, TorrentInv, TorrentTypeOK, SlotsOK, NamesOK
<1>3. CASE SpawnFirst(h)
  <2>1. PICK S \in SUBSET Slots : \E f \in [S -> known[h]] : Spawn(h, S, f)
    BY <1>3 DEF SpawnFirst
  <2>2. PICK f \in [S -> known[h]] : Spawn(h, S, f)
    BY <2>1
  <2>3. f \in [S -> Addresses]
    BY <1>1
  <2>4. QED
    BY <2>2, <2>3, SpawnType
<1>4. CASE \E s \in Slots, a \in known[h] \ Registered(h) : Spawn(h, {s}, [q \in {s} |-> a])
  <2>1. PICK s \in Slots, a \in Addresses : Spawn(h, {s}, [q \in {s} |-> a])
    BY <1>1, <1>4
  <2>2. [q \in {s} |-> a] \in [{s} -> Addresses]
    OBVIOUS
  <2>3. QED
    BY <2>1, <2>2, SpawnType
<1>5. QED
  BY <1>2, <1>3, <1>4 DEF Respawn

\* The loops over the children keep the sets they still have to visit typed.
LEMMA FanoutType ==
  ASSUME TorrentInv, NEW h \in Handlers, HandlerNext(h)
  PROVE  /\ fan' \in [Handlers -> PeerTold] /\ target' \in [Handlers -> Slots \cup {None}]
         /\ due' \in [Handlers -> SUBSET Addresses] /\ served' \in [Handlers -> SUBSET Addresses]
<1> USE DEF TorrentInv, TorrentTypeOK, HandlersOK, SlotsOK, Registered
<1>1. CASE UNCHANGED fanVars
  BY <1>1 DEF fanVars
<1>2. CASE SendChildren(h, "Quit") \/ SendChildren(h, "Have")
  <2>1. PICK msg \in PeerTold : fan' = [fan EXCEPT ![h] = msg]
    BY <1>2 DEF SendChildren, PeerTold
  <2>2. UNCHANGED target /\ served' = [served EXCEPT ![h] = {}] /\ due' = [due EXCEPT ![h] = Registered(h)]
    BY <1>2 DEF SendChildren
  <2>3. Registered(h) \subseteq Addresses
    OBVIOUS
  <2>4. QED
    BY <2>1, <2>2, <2>3
<1>3. CASE NextChild(h)
  BY <1>3 DEF NextChild
<1>4. CASE SendTarget(h)
  BY <1>4 DEF SendTarget
<1>5. CASE EndSendChildren(h)
  BY <1>5 DEF EndSendChildren
<1>6. QED
  <2>1. CASE Command(h)
    BY <2>1, <1>1, <1>2 DEF Command, Start
  <2>2. CASE FromPeer(h)
    BY <2>2, <1>1, <1>2 DEF FromPeer
  <2>3. CASE First(h) \/ Send(h) \/ Register(h) \/ ReadClosed(h)
    BY <2>3, <1>1 DEF First, Send, Register, ReadClosed
  <2>4. CASE Timer(h) \/ Answer(h) \/ LeaveController(h)
    BY <2>4, <1>1 DEF Timer, Answer, LeaveController
  <2>5. QED
    BY <1>3, <1>4, <1>5, <2>1, <2>2, <2>3, <2>4 DEF HandlerNext

\* A torrent handler knows only peers that exist, and counts its starts.
LEMMA KnownType ==
  ASSUME TorrentInv, NEW h \in Handlers, HandlerNext(h)
  PROVE  known' \in [Handlers -> SUBSET Addresses] /\ restarts' \in [Handlers -> Nat]
<1> USE DEF TorrentInv, TorrentTypeOK, HandlersOK
<1>1. CASE UNCHANGED <<known, restarts>>
  BY <1>1
<1>2. CASE UNCHANGED known /\ restarts' = [restarts EXCEPT ![h] = @ + 1]
  BY <1>2
<1>3. CASE UNCHANGED restarts /\ \E peers \in SUBSET Addresses : Merge(h, peers)
  BY <1>3 DEF Merge
<1>4. QED
  <2>1. CASE First(h) \/ Answer(h)
    BY <2>1, <1>1, <1>3 DEF First, Answer
  <2>2. CASE Command(h)
    BY <2>2, <1>1, <1>2 DEF Command, Start, trackerVars
  <2>3. CASE Send(h) \/ Register(h) \/ ReadClosed(h) \/ FromPeer(h)
    BY <2>3, <1>1 DEF Send, Register, ReadClosed, FromPeer, trackerVars
  <2>4. CASE NextChild(h) \/ SendTarget(h) \/ EndSendChildren(h) \/ Timer(h) \/ LeaveController(h)
    BY <2>4, <1>1 DEF NextChild, SendTarget, EndSendChildren, Timer, LeaveController, trackerVars
  <2>5. QED
    BY <2>1, <2>2, <2>3, <2>4 DEF HandlerNext

\* Every step of a torrent handler starts peer handlers in one of these ways, or none.
LEMMA HandlerStarts ==
  ASSUME NEW h \in Handlers, HandlerNext(h)
  PROVE  SpawnFirst(h) \/ Respawn(h) \/ UNCHANGED slotVars
<1>1. CASE Command(h)
  BY <1>1 DEF Command, Start
<1>2. CASE First(h) \/ Send(h) \/ Register(h) \/ ReadClosed(h) \/ FromPeer(h)
  BY <1>2 DEF First, Send, Register, ReadClosed, FromPeer
<1>3. CASE NextChild(h) \/ SendTarget(h) \/ EndSendChildren(h) \/ Timer(h)
  BY <1>3 DEF NextChild, SendTarget, EndSendChildren, Timer
<1>4. CASE Answer(h) \/ LeaveController(h)
  BY <1>4 DEF Answer, LeaveController
<1>5. QED
  BY <1>1, <1>2, <1>3, <1>4 DEF HandlerNext

\* The channels between a torrent handler and the controller hold their messages.
LEMMA ControlType ==
  ASSUME TorrentInv, NEW h \in Handlers, HandlerNext(h)
  PROVE  ControlOK'
<1> USE DEF TorrentInv, TorrentTypeOK, ControlOK, ctlChanVars
<1>1. tpc[h] # "off" => torrentOf[h] \in Torrents
  BY DEF NamesOK
<1>2. CASE First(h) \/ NextChild(h) \/ SendTarget(h) \/ Timer(h)
  BY <1>2 DEF First, NextChild, SendTarget, Timer
<1>3. CASE Send(h)
  <2>1. out[h] \in Result
    BY DEF HandlersOK
  <2>2. tpc[h] # "off"
    BY <1>3 DEF Send, HandlerStep
  <2>3. results' \in Seq(Result) /\ UNCHANGED <<cmap, cqueue, cshut, cremoved>>
    BY <1>3, <2>1 DEF Send
  <2>4. cbound' \in [Handlers -> Handlers \cup {None}]
    BY <1>1, <1>3, <2>2 DEF Send, Rebind
  <2>5. QED
    BY <2>3, <2>4
<1>4. CASE Register(h)
  BY <1>1, <1>4 DEF Register, HandlerStep
<1>5. CASE Command(h)
  <2>1. \E id \in Commands : Take(h, id)
    BY <1>5 DEF Command, Start, Commands
  <2>2. UNCHANGED <<results, cmap, cshut, cbound, cremoved>>
    BY <1>5 DEF Command, Start, SendChildren
  <2>3. cqueue' \in [Handlers -> Seq(Commands)]
    <3>1. cbound[h] \in Handlers /\ cqueue[cbound[h]] \in Seq(Commands) /\ cqueue[cbound[h]] # <<>>
      BY <2>1 DEF Take
    <3>2. Tail(cqueue[cbound[h]]) \in Seq(Commands)
      BY <3>1
    <3>3. QED
      BY <2>1, <3>1, <3>2 DEF Take
  <2>4. QED
    BY <2>2, <2>3
<1>6. CASE ReadClosed(h) \/ EndSendChildren(h)
  BY <1>1, <1>6 DEF ReadClosed, EndSendChildren, HandlerStep, Again, Rebind
<1>7. CASE FromPeer(h)
  BY <1>1, <1>7 DEF FromPeer, SendChildren, Again, Rebind
<1>8. CASE Answer(h)
  BY <1>1, <1>8 DEF Answer, HandlerStep, Rebind
<1>9. CASE LeaveController(h)
  BY <1>1, <1>9 DEF LeaveController, HandlerStep
<1>10. QED
  BY <1>2, <1>3, <1>4, <1>5, <1>6, <1>7, <1>8, <1>9 DEF HandlerNext

\* The channels between a torrent handler and its peer handlers hold theirs.
LEMMA PeerChanType ==
  ASSUME TorrentInv, NEW h \in Handlers, HandlerNext(h)
  PROVE  inbox' \in [Handlers -> Seq(PeerSays)] /\ queue' \in [Slots -> Seq(PeerTold)] /\ crashed' \in BOOLEAN
<1> USE DEF TorrentInv, TorrentTypeOK, HandlersOK, SlotsOK
<1>1. CASE UNCHANGED <<inbox, queue, crashed>>
  BY <1>1
<1>2. CASE FromPeer(h)
  BY <1>2 DEF FromPeer
<1>3. CASE SendTarget(h)
  <2>1. target[h] \in Slots /\ queue[target[h]] \in Seq(PeerTold) /\ fan[h] \in PeerTold
    BY <1>3 DEF SendTarget
  <2>2. Append(queue[target[h]], fan[h]) \in Seq(PeerTold)
    BY <2>1
  <2>3. queue' \in [Slots -> Seq(PeerTold)]
    BY <1>3, <2>1, <2>2 DEF SendTarget
  <2>4. QED
    BY <1>3, <2>3 DEF SendTarget
<1>4. CASE LeaveController(h)
  BY <1>4 DEF LeaveController
<1>5. QED
  <2>1. CASE First(h) \/ Send(h) \/ Register(h) \/ Command(h) \/ ReadClosed(h)
    BY <2>1, <1>1 DEF First, Send, Register, Command, ReadClosed
  <2>2. CASE NextChild(h) \/ EndSendChildren(h) \/ Timer(h) \/ Answer(h)
    BY <2>2, <1>1 DEF NextChild, EndSendChildren, Timer, Answer
  <2>3. QED
    BY <1>2, <1>3, <1>4, <2>1, <2>2 DEF HandlerNext

\* A step of a torrent handler keeps the invariant.
LEMMA HandlerInv ==
  ASSUME TorrentInv, NEW h \in Handlers, HandlerNext(h)
  PROVE  TorrentInv'
<1>1. UNCHANGED <<torrentOf, pmap, shut, bound, removed>>
  BY DEF HandlerNext
<1>2. Moves(h)
  BY HandlerMoves
<1>3. RetriesOK' /\ retryCount' \in [Handlers -> 0 .. MaxRetryCount] /\ misses' \in [Handlers -> Nat]
  <2>1. CASE Answer(h)
    BY <1>2, <2>1, RetriesAnswer
  <2>2. CASE ~ Answer(h)
    <3>1. UNCHANGED <<retryCount, misses>>
      <4>1. CASE First(h) \/ Send(h) \/ Register(h) \/ Command(h) \/ ReadClosed(h) \/ FromPeer(h)
        BY <4>1 DEF First, Send, Register, Command, ReadClosed, FromPeer, trackerVars
      <4>2. CASE NextChild(h) \/ SendTarget(h) \/ EndSendChildren(h) \/ Timer(h) \/ LeaveController(h)
        BY <4>2 DEF NextChild, SendTarget, EndSendChildren, Timer, LeaveController, trackerVars
      <4>3. QED
        BY <2>2, <4>1, <4>2 DEF HandlerNext
    <3>2. HearsNothing(h)
      BY <2>2, HandlerMoves
    <3>3. QED
      BY <1>2, <3>1, <3>2, RetriesStay DEF TorrentInv, TorrentTypeOK, HandlersOK
  <2>3. QED
    BY <2>1, <2>2
<1>4. HandlersOK'
  BY <1>1, <1>2, <1>3, FanoutType, KnownType DEF Moves, TorrentInv, TorrentTypeOK, HandlersOK
<1>5. PeersNamed
  BY HandlerStarts, StartingType
<1>6. SlotsOK'
  BY <1>1, <1>5, PeerChanType DEF PeersNamed, TorrentInv, TorrentTypeOK, SlotsOK
<1>7. NamesOK'
  BY <1>1, <1>2, <1>5 DEF PeersNamed, Moves, NamesOK, TorrentInv, TorrentTypeOK, HandlersOK
<1>8. QED
  BY <1>3, <1>4, <1>6, <1>7, ControlType, PeerChanType DEF TorrentInv, TorrentTypeOK

-------------------------------------------------------------------------------
(* The steps of a peer handler *)

\* A step from one control point to another keeps the names of the peer handler.
LEMMA SlotStepType ==
  ASSUME TorrentInv, NEW s \in Slots, NEW from \in SlotPC \ {"free"}, NEW to \in SlotPC,
         SlotStep(s, from, to), UNCHANGED <<owner, addr>>
  PROVE  PeersNamed
<1>1. spc[s] = from /\ spc' = [spc EXCEPT ![s] = to] /\ owner' = owner /\ addr' = addr
  BY DEF SlotStep
<1>2. QED
  BY <1>1 DEF PeersNamed, TorrentInv, TorrentTypeOK, SlotsOK, NamesOK

\* A slot that takes no step keeps them as well.
LEMMA SlotStayType ==
  ASSUME TorrentInv, UNCHANGED <<spc, owner, addr>>
  PROVE  PeersNamed
BY DEF PeersNamed, TorrentInv, TorrentTypeOK, SlotsOK, NamesOK

\* A peer handler that ends frees its slot and keeps the others typed.
LEMMA VacateType ==
  ASSUME TorrentInv, NEW s \in Slots, NEW from \in SlotPC, SlotStep(s, from, "free"), Vacate(s)
  PROVE  PeersNamed
BY DEF PeersNamed, SlotStep, Vacate, TorrentInv, TorrentTypeOK, SlotsOK, NamesOK, SlotPC

\* A message to the torrent handler fits its channel.
LEMMA SaysType ==
  ASSUME TorrentInv, NEW s \in Slots, NEW from \in SlotPC \ {"free"}, NEW id \in PeerSays, NEW to \in SlotPC,
         Says(s, from, id, to)
  PROVE  inbox' \in [Handlers -> Seq(PeerSays)] /\ spc[s] = from /\ spc' = [spc EXCEPT ![s] = to]
<1>1. spc[s] = from /\ spc' = [spc EXCEPT ![s] = to] /\ inbox' = [inbox EXCEPT ![owner[s]] = Append(@, id)]
  BY DEF Says, SlotStep
<1>2. owner[s] \in Handlers /\ inbox[owner[s]] \in Seq(PeerSays)
  BY <1>1 DEF TorrentInv, TorrentTypeOK, SlotsOK, NamesOK
<1>3. Append(inbox[owner[s]], id) \in Seq(PeerSays)
  BY <1>2
<1>4. QED
  BY <1>1, <1>3 DEF TorrentInv, TorrentTypeOK, SlotsOK

\* The steps of a peer handler leave its control point and its names typed.
LEMMA SlotPeersNamed ==
  ASSUME TorrentInv, NEW s \in Slots, SlotNext(s)
  PROVE  PeersNamed
<1> USE DEF SlotPC, PeerSays
<1>1. CASE Connect(s)
  BY <1>1, SlotStepType DEF Connect
<1>2. CASE Report(s)
  BY <1>2, SlotStepType, VacateType DEF Report, Says
<1>3. CASE Join(s)
  BY <1>3, SlotStepType DEF Join
<1>4. CASE Run(s)
  BY <1>4, SlotStepType, SlotStayType DEF Run
<1>5. CASE Obey(s)
  BY <1>5, SlotStepType, SlotStayType DEF Obey
<1>6. CASE LeavePeer(s)
  BY <1>6, SlotStepType, SlotStayType, VacateType DEF LeavePeer, Says
<1>7. CASE Announce(s) \/ LastOut(s)
  BY <1>7, SlotStayType, VacateType DEF Announce, LastOut, slotVars
<1>8. QED
  BY <1>1, <1>2, <1>3, <1>4, <1>5, <1>6, <1>7 DEF SlotNext

\* After a step the channels of the peer handlers have their types.
ChannelsTyped ==
  /\ inbox' \in [Handlers -> Seq(PeerSays)]
  /\ due' \in [Handlers -> SUBSET Addresses] /\ served' \in [Handlers -> SUBSET Addresses]
  /\ pmap' \in [Handlers -> [Addresses -> Slots \cup {None}]]
  /\ queue' \in [Slots -> Seq(PeerTold)] /\ shut' \in [Slots -> BOOLEAN]
  /\ bound' \in [Slots -> Slots \cup {None}] /\ removed' \in [Slots -> Slots \cup {None}]
  /\ crashed' \in BOOLEAN

\* The steps of a peer handler leave its channels typed.
LEMMA SlotChannels ==
  ASSUME TorrentInv, NEW s \in Slots, SlotNext(s)
  PROVE  ChannelsTyped
<1> USE DEF TorrentInv, TorrentTypeOK, HandlersOK, SlotsOK, ChannelsTyped, SlotPC, PeerSays
<1>1. spc[s] # "free" => /\ owner[s] \in Handlers /\ addr[s] \in Addresses
                        /\ pmap[owner[s]][addr[s]] \in Slots \cup {None}
  BY DEF NamesOK
<1>2. CASE Connect(s)
  BY <1>2 DEF Connect, Quiet
<1>3. CASE Report(s)
  <2>1. \E from \in SlotPC \ {"free"}, id \in PeerSays, to \in SlotPC : Says(s, from, id, to)
    BY <1>3, Zenon DEF Report
  <2>2. inbox' \in [Handlers -> Seq(PeerSays)]
    BY <2>1, SaysType
  <2>3. QED
    BY <1>3, <2>2 DEF Report
<1>4. CASE Join(s)
  <2>1. owner[s] \in Handlers /\ addr[s] \in Addresses
    BY <1>1, <1>4 DEF Join, SlotStep
  <2>2. pmap' \in [Handlers -> [Addresses -> Slots \cup {None}]]
    BY <1>4, <2>1 DEF Join
  <2>3. queue' \in [Slots -> Seq(PeerTold)] /\ shut' \in [Slots -> BOOLEAN]
    BY <1>4 DEF Join
  <2>4. QED
    BY <1>4, <2>2, <2>3 DEF Join
<1>5. CASE Run(s)
  <2>1. bound' \in [Slots -> Slots \cup {None}]
    BY <1>1, <1>5 DEF Run, TurnTo
  <2>2. QED
    BY <1>5, <2>1 DEF Run
<1>6. CASE Obey(s)
  <2>1. bound[s] \in Slots /\ owner[s] \in Handlers /\ addr[s] \in Addresses
    BY <1>1, <1>6 DEF Obey
  <2>2. queue' \in [Slots -> Seq(PeerTold)]
    <3>1. queue[bound[s]] # <<>> => Tail(queue[bound[s]]) \in Seq(PeerTold)
      BY <2>1
    <3>2. QED
      BY <1>6, <2>1, <3>1 DEF Obey
  <2>3. bound' \in [Slots -> Slots \cup {None}]
    BY <1>6, <2>1 DEF Obey, TurnTo
  <2>4. QED
    BY <1>6, <2>2, <2>3 DEF Obey
<1>7. CASE LeavePeer(s)
  <2>1. CASE SlotStep(s, "leaving", "exiting") \/ SlotStep(s, "leaving", "deleting")
    <3>1. pmap[owner[s]][addr[s]] \in Slots \cup {None} /\ bound' = [bound EXCEPT ![s] = None]
      BY <1>1, <1>7, <2>1 DEF LeavePeer, SlotStep, Says
    <3>2. UNCHANGED removed \/ removed' = [removed EXCEPT ![s] = pmap[owner[s]][addr[s]]]
      BY <1>7, <2>1 DEF LeavePeer, SlotStep, Says
    <3>3. UNCHANGED <<pmap, queue, shut, inbox, due, served, crashed>>
      BY <1>7, <2>1 DEF LeavePeer, SlotStep, Says
    <3>4. QED
      BY <3>1, <3>2, <3>3
  <2>2. CASE Says(s, "exiting", "Exiting", "closing")
    BY <1>7, <2>2, SaysType DEF LeavePeer, SlotStep
  <2>3. CASE spc[s] = "closing"
    BY <1>7, <2>3 DEF LeavePeer, SlotStep, Says
  <2>4. CASE Forget(owner[s], addr[s]) /\ Drop(s) /\ spc[s] = "deleting"
    <3>1. UNCHANGED <<bound, removed, inbox, crashed>>
      BY <1>7, <2>4 DEF LeavePeer, SlotStep, Says
    <3>2. queue' \in [Slots -> Seq(PeerTold)] /\ shut' \in [Slots -> BOOLEAN]
      BY <2>4 DEF Drop
    <3>3. /\ pmap' \in [Handlers -> [Addresses -> Slots \cup {None}]]
          /\ due' \in [Handlers -> SUBSET Addresses] /\ served' \in [Handlers -> SUBSET Addresses]
      BY <1>1, <2>4 DEF Forget
    <3>4. QED
      BY <3>1, <3>2, <3>3
  <2>5. QED
    BY <1>7, <2>1, <2>2, <2>3, <2>4 DEF LeavePeer, SlotStep
<1>8. CASE Announce(s)
  <2>1. owner[s] \in Handlers /\ Append(inbox[owner[s]], "Have") \in Seq(PeerSays)
    BY <1>1, <1>8 DEF Announce
  <2>2. QED
    BY <1>8, <2>1 DEF Announce
<1>9. CASE LastOut(s)
  BY <1>9 DEF LastOut, Quiet
<1>10. QED
  BY <1>2, <1>3, <1>4, <1>5, <1>6, <1>7, <1>8, <1>9 DEF SlotNext

\* A step of a peer handler keeps the invariant.
LEMMA SlotInv ==
  ASSUME TorrentInv, NEW s \in Slots, SlotNext(s)
  PROVE  TorrentInv'
<1>1. UNCHANGED <<tpc, torrentOf, out, after, fan, target, trackerVars, restarts, cbound,
                  cremoved, results, ctlChanVars>>
  BY DEF SlotNext
<1>2. PeersNamed /\ ChannelsTyped
  BY SlotPeersNamed, SlotChannels
<1> USE DEF PeersNamed, ChannelsTyped, TorrentInv, TorrentTypeOK, trackerVars, ctlChanVars
<1>3. HandlersOK' /\ ControlOK' /\ SlotsOK'
  BY <1>1, <1>2 DEF HandlersOK, ControlOK, SlotsOK
<1>4. NamesOK' /\ RetriesOK'
  BY <1>1, <1>2 DEF NamesOK, RetriesOK, StillAsks
<1>5. QED
  BY <1>2, <1>3, <1>4

-------------------------------------------------------------------------------
(* The other steps *)

\* Starting a torrent handler keeps the invariant.
LEMMA LaunchInv ==
  ASSUME TorrentInv, NEW h \in Handlers, NEW t \in Torrents, Launch(h, t)
  PROVE  TorrentInv'
<1> USE DEF Launch, HandlerStep, TorrentInv, TorrentTypeOK, fanVars, trackerVars, ctlChanVars, slotVars, peerChanVars
<1>1. HandlersOK'
  BY DEF HandlersOK, HandlerPC
<1>2. ControlOK' /\ SlotsOK' /\ crashed' \in BOOLEAN
  BY DEF ControlOK, SlotsOK
<1>3. NamesOK'
  BY DEF HandlersOK, NamesOK
<1>4. RetriesOK'
  BY DEF HandlersOK, RetriesOK, StillAsks
<1>5. QED
  BY <1>1, <1>2, <1>3, <1>4

\* A step that touches nothing but the channels of the controller keeps the
\* invariant, and so does the end of the process.
LEMMA ChannelInv ==
  ASSUME TorrentInv, UNCHANGED <<handlerVars, cmap, cshut, slotVars, inbox, peerChanVars>>,
         results' \in Seq(Result), cqueue' \in [Handlers -> Seq(Commands)], crashed' \in BOOLEAN
  PROVE  TorrentInv'
<1> USE DEF TorrentInv, TorrentTypeOK, handlerVars, fanVars, trackerVars, slotVars, peerChanVars
<1>1. HandlersOK' /\ ControlOK' /\ SlotsOK' /\ crashed' \in BOOLEAN
  BY DEF HandlersOK, ControlOK, SlotsOK
<1>2. NamesOK' /\ RetriesOK'
  BY DEF NamesOK, RetriesOK, StillAsks
<1>3. QED
  BY <1>1, <1>2

\* A command on the channel of a torrent handler is one that handler.go knows.
LEMMA CommandType ==
  ASSUME TorrentInv, NEW k \in Handlers, NEW id \in Commands,
         cqueue' = [cqueue EXCEPT ![k] = Append(@, id)]
  PROVE  cqueue' \in [Handlers -> Seq(Commands)]
<1>1. Append(cqueue[k], id) \in Seq(Commands)
  BY DEF TorrentInv, TorrentTypeOK, ControlOK
<1>2. QED
  BY <1>1 DEF TorrentInv, TorrentTypeOK, ControlOK

\* The controller keeps the invariant when it sends a command,
LEMMA TellInv ==
  ASSUME TorrentInv, NEW t \in Torrents, NEW id \in Asked, Tell(t, id)
  PROVE  TorrentInv'
<1>1. cmap[t] \in Handlers /\ id \in Commands
  BY DEF Tell, TorrentInv, TorrentTypeOK, ControlOK, Commands
<1>2. crashed' \in BOOLEAN /\ (UNCHANGED cqueue \/ cqueue' = [cqueue EXCEPT ![cmap[t]] = Append(@, id)])
  BY DEF Tell, TorrentInv, TorrentTypeOK
<1>3. cqueue' \in [Handlers -> Seq(Commands)]
  BY <1>1, <1>2, CommandType DEF TorrentInv, TorrentTypeOK, ControlOK
<1>4. QED
  BY <1>2, <1>3, ChannelInv DEF Tell, TorrentInv, TorrentTypeOK, ControlOK

\* when it takes a result,
LEMMA TakeResultInv ==
  ASSUME TorrentInv, UNCHANGED <<handlerVars, ctlChanVars, slotVars, inbox, peerChanVars, crashed>>,
         results # <<>>, results' = Tail(results)
  PROVE  TorrentInv'
BY ChannelInv DEF TorrentInv, TorrentTypeOK, ControlOK, ctlChanVars

\* and when the process ends.
LEMMA CrashInv ==
  ASSUME TorrentInv, crashed' \in BOOLEAN,
         UNCHANGED <<handlerVars, results, ctlChanVars, slotVars, inbox, peerChanVars>>
  PROVE  TorrentInv'
BY ChannelInv DEF TorrentInv, TorrentTypeOK, ControlOK, ctlChanVars

\* Every step keeps the invariant.
LEMMA TorrentNext ==
  ASSUME TorrentInv, [Next]_thVars
  PROVE  TorrentInv'
<1>1. CASE UNCHANGED thVars
  BY <1>1, CrashInv DEF thVars, TorrentInv, TorrentTypeOK
<1>2. CASE \E h \in Handlers : HandlerNext(h) \/ \E t \in Torrents : Launch(h, t)
  BY <1>2, HandlerInv, LaunchInv
<1>3. CASE \E s \in Slots : SlotNext(s)
  BY <1>3, SlotInv
<1>4. CASE \E t \in Torrents, id \in Asked : Tell(t, id)
  BY <1>4, TellInv
<1>5. CASE TakeResult
  BY <1>5, TakeResultInv DEF TakeResult
<1>6. CASE MapThrow
  BY <1>6, CrashInv DEF MapThrow
<1>7. QED
  BY <1>1, <1>2, <1>3, <1>4, <1>5, <1>6 DEF Next

-------------------------------------------------------------------------------
(* Theorems *)

\* In every reachable state the invariant holds.
THEOREM TorrentInvariant == Spec => []TorrentInv
BY TorrentInit, TorrentNext, PTL DEF Spec

\* Every variable of the torrent handlers keeps its type.
THEOREM TorrentTypes == Spec => []TorrentTypeOK
<1>1. TorrentInv => TorrentTypeOK
  BY DEF TorrentInv
<1>2. QED
  BY <1>1, TorrentInvariant, PTL

\* A torrent handler gives up on its tracker after MaxRetryCount requests that fail
\* in a row, and never before: the counter of handler.go and the history agree.
THEOREM GivesUpExactly == Spec => []RetriesExact
<1>1. TorrentInv => RetriesExact
  BY DEF TorrentInv, RetriesOK, RetriesExact, StillAsks
<1>2. QED
  BY <1>1, TorrentInvariant, PTL

===============================================================================
