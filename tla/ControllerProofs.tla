--------------------------- MODULE ControllerProofs ---------------------------
(***************************************************************************)
(* Theorems about Controller: no Add is lost or answered twice, for every   *)
(* number of torrents and every capacity of the channels.                   *)
(***************************************************************************)
EXTENDS Controller, TorrentProofs

-------------------------------------------------------------------------------
(* Types *)

\* An Add that main is sending is one that it may still count.
EnteredOK == mpc = "send" /\ entered.id = "Add" => asked < AddBound

ControllerInv == TorrentInv /\ ControllerTypeOK /\ EnteredOK

\* The variables of main, of the printer and of the controller have their types.
ViewOK ==
  /\ mpc \in {"prompt", "send"} /\ entered \in Line /\ viewCh \in Seq(Line)
  /\ registered \in BOOLEAN
  /\ cpc \in {"start", "loop", "reply", "fanout"} /\ reply \in Answers
  /\ cdue \in SUBSET Torrents /\ cserved \in SUBSET Torrents
  /\ ctarget \in Handlers \cup {None} /\ replies \in Seq(Answers)
  /\ printing \in Handlers \cup {None}
  /\ asked \in 0 .. AddBound /\ told \in Nat /\ printed \in [Handlers -> Nat]

\* The type invariant is that of the torrent handlers and that of the rest.
LEMMA ViewSplit ==
  /\ ControllerTypeOK <=> TorrentTypeOK /\ ViewOK
  /\ ControllerTypeOK' <=> TorrentTypeOK' /\ ViewOK'
BY DEF ControllerTypeOK, ViewOK

\* A refusal is no result, and a result names the handler it comes from.
LEMMA MessageType ==
  /\ Refusal \in Answers /\ [id |-> "LogLevel"] \in Answers /\ [id |-> "LogLevel"] # Refusal
  /\ Result \subseteq Answers
  /\ \A m \in Answers : m.id \in {"Add", "List"} => m \in Result /\ m.from \in Handlers /\ m # Refusal
  /\ \A m \in Result : m # Refusal /\ m.from \in Handlers
  /\ \A m \in Line : m.id = "Add" => m.torrent \in Torrents
<1>1. Refusal \in Answers /\ [id |-> "LogLevel"] \in Answers /\ [id |-> "LogLevel"] # Refusal
  BY DEF Refusal, Answers
<1>2. Result \subseteq Answers
  BY DEF Answers
<1>3. \A m \in Result : m # Refusal /\ m.from \in Handlers
  BY DEF Result, Refusal
<1>4. \A m \in Answers : m.id \in {"Add", "List"} => m \in Result
  BY DEF Answers
<1>5. \A m \in Line : m.id = "Add" => m.torrent \in Torrents
  BY DEF Line
<1>6. QED
  BY <1>1, <1>2, <1>3, <1>4, <1>5

\* The invariant holds at first.
LEMMA ControllerStart == ControllerInit => ControllerInv
<1> SUFFICES ASSUME ControllerInit
             PROVE  ControllerInv
  OBVIOUS
<1>1. TorrentInv
  BY TorrentInit DEF ControllerInit
<1>2. ViewOK
  <2>1. [id |-> "List"] \in Line /\ Refusal \in Answers /\ 0 \in 0 .. AddBound
    BY MessageType, ControllerConstantsOK DEF Line
  <2>2. printed \in [Handlers -> Nat]
    BY DEF ControllerInit
  <2>3. viewCh \in Seq(Line) /\ replies \in Seq(Answers)
    BY DEF ControllerInit
  <2>4. asked \in 0 .. AddBound /\ told \in Nat
    BY <2>1 DEF ControllerInit
  <2>5. entered \in Line /\ reply \in Answers
    BY <2>1 DEF ControllerInit
  <2>6. cdue \in SUBSET Torrents /\ cserved \in SUBSET Torrents
    BY DEF ControllerInit
  <2>7. mpc \in {"prompt", "send"} /\ cpc \in {"start", "loop", "reply", "fanout"} /\ registered \in BOOLEAN
    BY DEF ControllerInit
  <2>8. ctarget \in Handlers \cup {None} /\ printing \in Handlers \cup {None}
    BY DEF ControllerInit
  <2>9. QED
    BY <2>2, <2>3, <2>4, <2>5, <2>6, <2>7, <2>8 DEF ViewOK
<1>3. EnteredOK
  BY DEF ControllerInit, EnteredOK
<1>4. QED
  BY <1>1, <1>2, <1>3, ViewSplit DEF ControllerInv, TorrentInv

\* The torrent handlers take their steps, or are as they were.
LEMMA ProgramTorrents ==
  ASSUME ControllerInv, [Program]_ctlVars
  PROVE  TorrentInv'
<1> USE DEF ControllerInv
<1>1. CASE UNCHANGED thVars
  BY <1>1, CrashInv DEF thVars, TorrentInv, TorrentTypeOK
<1>2. CASE \E h \in Handlers : RunHandler(h)
  BY <1>2, HandlerInv DEF RunHandler
<1>3. CASE Add
  <2>1. viewCh # <<>> /\ Head(viewCh).id = "Add" /\ Head(viewCh) \in Line
    BY <1>3, ViewSplit DEF Add, TakeCommand, ViewOK
  <2>2. Head(viewCh).torrent \in Torrents
    BY <2>1, MessageType
  <2>3. QED
    BY <1>1, <1>3, <2>2, LaunchInv DEF Add
<1>4. CASE FromHandler
  BY <1>4, TakeResultInv DEF FromHandler, HasResult
<1>5. CASE SendHandler
  <2>1. ctarget \in Handlers
    BY <1>5, ViewSplit DEF SendHandler, ViewOK
  <2>2. UNCHANGED cqueue \/ cqueue' = [cqueue EXCEPT ![ctarget] = Append(@, "List")]
    BY <1>5 DEF SendHandler
  <2>3. cqueue' \in [Handlers -> Seq(Commands)]
    BY <2>1, <2>2, CommandType DEF Commands, TorrentInv, TorrentTypeOK, ControlOK
  <2>4. QED
    BY <1>5, <2>3, ChannelInv DEF SendHandler, TorrentInv, TorrentTypeOK, ControlOK
<1>6. CASE Throw
  BY <1>6, CrashInv DEF Throw
<1>7. CASE Enter \/ SendController \/ Show \/ ShowEnd
  BY <1>1, <1>7 DEF Enter, SendController, Show, ShowEnd
<1>8. CASE StartController \/ List \/ SetLogLevel \/ Reply \/ NextHandler \/ EndList
  BY <1>1, <1>8 DEF StartController, List, SetLogLevel, Reply, NextHandler, EndList
<1>9. QED
  BY <1>1, <1>2, <1>3, <1>4, <1>5, <1>6, <1>7, <1>8 DEF Program, ControllerLoop, ctlVars

\* main, the printer and the controller keep the types of their variables.
LEMMA ProgramView ==
  ASSUME ControllerInv, [Program]_ctlVars
  PROVE  ViewOK' /\ EnteredOK'
<1> USE ViewSplit DEF ControllerInv, EnteredOK, mainVars, fanoutVars, historyVars
<1>1. ViewOK
  OBVIOUS
<1>2. CASE UNCHANGED viewVars
  BY <1>1, <1>2 DEF ViewOK, viewVars
<1>3. CASE Enter
  <2>1. entered' \in Line
    BY <1>3 DEF Enter, Line
  <2>2. entered'.id = "Add" => asked < AddBound
    BY <1>3 DEF Enter
  <2>3. QED
    BY <1>1, <1>3, <2>1, <2>2 DEF Enter, ViewOK
<1>4. CASE SendController
  <2>1. Append(viewCh, entered) \in Seq(Line) /\ [id |-> "List"] \in Line
    BY <1>1 DEF ViewOK, Line
  <2>2. asked' \in 0 .. AddBound
    BY <1>1, <1>4, ControllerConstantsOK DEF SendController, ViewOK
  <2>3. QED
    BY <1>1, <1>4, <2>1, <2>2 DEF SendController, ViewOK
<1>5. CASE Show
  <2>1. Head(replies) \in Answers /\ Tail(replies) \in Seq(Answers)
    BY <1>1, <1>5 DEF Show, ViewOK
  <2>2. Head(replies).id \in {"Add", "List"} => Head(replies).from \in Handlers
    BY <2>1, MessageType
  <2>3. printing' \in Handlers \cup {None} /\ told' \in Nat /\ printed' \in [Handlers -> Nat]
    BY <1>1, <1>5, <2>2 DEF Show, ViewOK
  <2>4. QED
    BY <1>1, <1>5, <2>1, <2>3 DEF Show, ViewOK
<1>6. CASE ShowEnd \/ StartController \/ SendHandler \/ Throw
  BY <1>1, <1>6 DEF ShowEnd, StartController, SendHandler, Throw, viewVars, ViewOK
<1>7. CASE Add \/ List \/ SetLogLevel
  <2>1. viewCh' \in Seq(Line) /\ UNCHANGED <<mainVars, registered, replies, printing, historyVars>>
    <3>1. \E id : TakeCommand(id)
      BY <1>7 DEF Add, List, SetLogLevel
    <3>2. viewCh # <<>> /\ viewCh' = Tail(viewCh)
      BY <3>1 DEF TakeCommand
    <3>3. QED
      BY <1>1, <3>1, <3>2 DEF TakeCommand, ViewOK
  <2>2. cpc' \in {"start", "loop", "reply", "fanout"} /\ reply' \in Answers
    BY <1>1, <1>7, MessageType DEF Add, List, SetLogLevel, Replying, ViewOK
  <2>3. cdue' \in SUBSET Torrents /\ cserved' \in SUBSET Torrents /\ ctarget' \in Handlers \cup {None}
    BY <1>1, <1>7 DEF Add, List, SetLogLevel, Replying, ViewOK
  <2>4. QED
    BY <1>1, <2>1, <2>2, <2>3 DEF ViewOK
<1>8. CASE FromHandler
  <2>1. Head(results) \in Answers
    BY <1>8, MessageType DEF FromHandler, HasResult, TorrentInv, TorrentTypeOK, ControlOK
  <2>2. QED
    BY <1>1, <1>8, <2>1 DEF FromHandler, Replying, ViewOK
<1>9. CASE Reply
  BY <1>1, <1>9, MessageType DEF Reply, ViewOK
<1>10. CASE NextHandler
  <2>1. PICK t \in Torrents : Exists(t) /\ ctarget' = cmap[t] /\ cserved' = cserved \cup {t}
    BY <1>10 DEF NextHandler
  <2>2. cmap[t] \in Handlers \cup {None}
    BY DEF TorrentInv, TorrentTypeOK, ControlOK
  <2>3. QED
    BY <1>1, <1>10, <2>1, <2>2 DEF NextHandler, ViewOK
<1>11. CASE EndList
  BY <1>1, <1>11 DEF EndList, ViewOK
<1>12. CASE \E h \in Handlers : RunHandler(h)
  <2>1. cdue' \in SUBSET Torrents /\ cserved' \in SUBSET Torrents
    BY <1>1, <1>12 DEF RunHandler, ViewOK
  <2>2. QED
    BY <1>1, <1>12, <2>1 DEF RunHandler, ViewOK
<1>13. QED
  BY <1>2, <1>3, <1>4, <1>5, <1>6, <1>7, <1>8, <1>9, <1>10, <1>11, <1>12 DEF Program, ControllerLoop, ctlVars

\* Every step keeps the types.
LEMMA ProgramInv ==
  ASSUME ControllerInv, [Program]_ctlVars
  PROVE  ControllerInv'
BY ProgramTorrents, ProgramView, ViewSplit DEF ControllerInv, TorrentInv

\* In every reachable state the invariant holds.
THEOREM ControllerInvariant == ProgramSpec => []ControllerInv
BY ControllerStart, ProgramInv, PTL DEF ProgramSpec

\* Every variable of the program keeps its type.
THEOREM ControllerTypes == ProgramSpec => []ControllerTypeOK
<1>1. ControllerInv => ControllerTypeOK
  BY DEF ControllerInv
<1>2. QED
  BY <1>1, ControllerInvariant, PTL

-------------------------------------------------------------------------------
(* The Adds *)

\* The Adds on their way to the controller, the refusals, and the results of the Add
\* that started h, as kinds of messages.
Adds == {m \in Line : m.id = "Add"}
AddsOf(h) == {m \in Answers : m.id = "Add" /\ m.from = h}

\* AddsConserved, with the numbers of the messages as in QueueLemmas.
AskedSum ==
  asked = Amount(viewCh, Adds) + (IsOne(cpc = "reply" /\ reply = Refusal)
            + Amount(replies, {Refusal})) + told + Cardinality(Started)
Asking(h) == IsOne(tpc[h] = "first") + IsOne(tpc[h] = "send" /\ out[h] \in AddsOf(h))
Passing(h) == Amount(results, AddsOf(h)) + IsOne(cpc = "reply" /\ reply \in AddsOf(h))
                + Amount(replies, AddsOf(h)) + printed[h]
PlacesSum == \A h \in Handlers : Asking(h) + Passing(h) = IsOne(tpc[h] # "off")

\* The stages of AddLedger that are queues are numbers of messages as well.
LEMMA WaitingIs ==
  ASSUME ControllerInv, ControllerInv'
  PROVE  /\ Waiting = Amount(viewCh, Adds) /\ Waiting' = Amount(viewCh', Adds)
         /\ Refusing = IsOne(cpc = "reply" /\ reply = Refusal) + Amount(replies, {Refusal})
         /\ Refusing' = IsOne(cpc' = "reply" /\ reply' = Refusal) + Amount(replies', {Refusal})
<1>1. /\ {i \in DOMAIN viewCh : viewCh[i].id = "Add"} = Positions(viewCh, Adds)
      /\ {i \in DOMAIN viewCh' : viewCh'[i].id = "Add"} = Positions(viewCh', Adds)
  BY DEF Positions, ControllerInv, ControllerTypeOK, Adds
<1>2. /\ {i \in DOMAIN replies : replies[i] = Refusal} = Positions(replies, {Refusal})
      /\ {i \in DOMAIN replies' : replies'[i] = Refusal} = Positions(replies', {Refusal})
  BY DEF Positions
<1>3. QED
  BY <1>1, <1>2 DEF Waiting, Refusing, Count, Amount

\* Counting by a predicate is counting by the set of the messages that satisfy it.
LEMMA ConservedSum ==
  ASSUME ControllerInv, ControllerInv'
  PROVE  /\ AddsConserved <=> AskedSum /\ PlacesSum
         /\ AddsConserved' <=> AskedSum' /\ PlacesSum'
<1>1. /\ AskedSum <=> asked = Waiting + Refusing + told + Cardinality(Started)
      /\ AskedSum' <=> asked' = Waiting' + Refusing' + told' + Cardinality(Started')
  BY WaitingIs DEF AskedSum
<1>2. \A h \in Handlers : /\ IsOne(h \in Started) = IsOne(tpc[h] # "off")
                          /\ IsOne(h \in Started') = IsOne(tpc'[h] # "off")
  BY DEF Started
<1>3. ASSUME NEW h \in Handlers
      PROVE  /\ {i \in DOMAIN replies : replies[i].id = "Add" /\ replies[i].from = h} = Positions(replies, AddsOf(h))
             /\ {i \in DOMAIN replies' : replies'[i].id = "Add" /\ replies'[i].from = h} = Positions(replies', AddsOf(h))
  BY DEF ControllerInv, ControllerTypeOK, Positions, AddsOf
<1>4. ASSUME NEW h \in Handlers
      PROVE  /\ {i \in DOMAIN results : results[i].id = "Add" /\ results[i].from = h} = Positions(results, AddsOf(h))
             /\ {i \in DOMAIN results' : results'[i].id = "Add" /\ results'[i].from = h} = Positions(results', AddsOf(h))
  BY MessageType DEF Positions, ControllerInv, TorrentInv, TorrentTypeOK, ControlOK, AddsOf
<1>5. ASSUME NEW h \in Handlers
      PROVE  /\ out[h].id = "Add" /\ out[h].from = h <=> out[h] \in AddsOf(h)
             /\ out'[h].id = "Add" /\ out'[h].from = h <=> out'[h] \in AddsOf(h)
             /\ reply.id = "Add" /\ reply.from = h <=> reply \in AddsOf(h)
             /\ reply'.id = "Add" /\ reply'.from = h <=> reply' \in AddsOf(h)
  BY MessageType DEF ControllerInv, ControllerTypeOK, TorrentInv, TorrentTypeOK, HandlersOK, AddsOf
<1>6. ASSUME NEW h \in Handlers
      PROVE  /\ Amount(results, AddsOf(h)) \in Nat /\ Amount(results', AddsOf(h)) \in Nat
             /\ Amount(replies, AddsOf(h)) \in Nat /\ Amount(replies', AddsOf(h)) \in Nat
             /\ printed[h] \in Nat /\ printed'[h] \in Nat
  <2>1. /\ results \in Seq(Result) /\ results' \in Seq(Result) /\ replies \in Seq(Answers) /\ replies' \in Seq(Answers)
        /\ printed[h] \in Nat /\ printed'[h] \in Nat
    BY DEF ControllerInv, ControllerTypeOK, TorrentInv, TorrentTypeOK, ControlOK
  <2>2. QED
    BY <2>1, PositionsFinite
<1>7. AddsConserved <=> AskedSum /\ PlacesSum
  <2>1. ASSUME NEW h \in Handlers
        PROVE  Places(h) = Asking(h) + Passing(h)
    <3> DEFINE a == IsOne(tpc[h] = "first")
               b == IsOne(tpc[h] = "send" /\ out[h] \in AddsOf(h))
               c == IsOne(cpc = "reply" /\ reply \in AddsOf(h))
               m == Amount(results, AddsOf(h))
               n == Amount(replies, AddsOf(h))
    <3>1. Places(h) = a + b + m + c + n + printed[h]
      BY <2>1, <1>3, <1>4, <1>5 DEF Places, Count, Amount, IsOne
    <3>2. a \in Nat /\ b \in Nat /\ c \in Nat
      BY DEF IsOne
    <3>3. m \in Nat /\ n \in Nat /\ printed[h] \in Nat
      BY <1>6, <2>1
    <3>4. Asking(h) = a + b /\ Passing(h) = m + c + n + printed[h]
      BY DEF Asking, Passing
    <3> HIDE DEF a, b, c, m, n
    <3>5. QED
      BY <3>1, <3>2, <3>3, <3>4
  <2>2. AddsConserved <=> AskedSum /\ \A h \in Handlers : Places(h) = IsOne(tpc[h] # "off")
    BY <1>1, <1>2 DEF AddsConserved
  <2>3. QED
    BY <2>1, <2>2 DEF PlacesSum
<1>8. AddsConserved' <=> AskedSum' /\ PlacesSum'
  <2>1. ASSUME NEW h \in Handlers
        PROVE  Places(h)' = Asking(h)' + Passing(h)'
    <3> DEFINE a == IsOne(tpc'[h] = "first")
               b == IsOne(tpc'[h] = "send" /\ out'[h] \in AddsOf(h))
               c == IsOne(cpc' = "reply" /\ reply' \in AddsOf(h))
               m == Amount(results', AddsOf(h))
               n == Amount(replies', AddsOf(h))
    <3>1. Places(h)' = a + b + m + c + n + printed'[h]
      BY <2>1, <1>3, <1>4, <1>5 DEF Places, Count, Amount, IsOne
    <3>2. a \in Nat /\ b \in Nat /\ c \in Nat
      BY DEF IsOne
    <3>3. m \in Nat /\ n \in Nat /\ printed'[h] \in Nat
      BY <1>6, <2>1
    <3>4. Asking(h)' = a + b /\ Passing(h)' = m + c + n + printed'[h]
      BY DEF Asking, Passing
    <3> HIDE DEF a, b, c, m, n
    <3>5. QED
      BY <3>1, <3>2, <3>3, <3>4
  <2>2. AddsConserved' <=> AskedSum' /\ \A h \in Handlers : Places(h)' = IsOne(tpc'[h] # "off")
    BY <1>1, <1>2 DEF AddsConserved
  <2>3. QED
    BY <2>1, <2>2 DEF PlacesSum
<1>9. QED
  BY <1>7, <1>8

\* A torrent handler says Add nowhere but after its first request.
SaysNoAdd(h) ==
  \/ UNCHANGED <<tpc, out>>
  \/ /\ tpc[h] \notin {"first", "send"} /\ tpc'[h] # "first"
     /\ tpc'[h] = "send" => out'[h].id # "Add"

\* It does not when it speaks in its loop,
LEMMA SpeaksNoAdd ==
  ASSUME TorrentInv, NEW h \in Handlers, NEW from \in {"loop", "asking", "leave"}, NEW next \in AfterSend,
         NEW id \in {"Remove", "Start", "List", "Success", "Failure", "TotalFailure", "Exiting"},
         Speaks(h, from, id, next)
  PROVE  SaysNoAdd(h)
<1>1. tpc[h] = from /\ tpc'[h] = "send" /\ out'[h].id = id
  BY SpeaksMoves DEF HandlerPC
<1>2. QED
  BY <1>1 DEF SaysNoAdd

\* nor when it goes on without a word.
LEMMA StepNoAdd ==
  ASSUME TorrentInv, NEW h \in Handlers, NEW from \in HandlerPC \ {"off", "first", "send"},
         NEW to \in HandlerPC \ {"off", "first", "send"}, HandlerStep(h, from, to)
  PROVE  SaysNoAdd(h)
BY DEF SaysNoAdd, HandlerStep, TorrentInv, TorrentTypeOK, HandlersOK

\* So no step but the first request and a send has to do with an Add.
LEMMA OtherNoAdd ==
  ASSUME TorrentInv, NEW h \in Handlers, HandlerNext(h), ~ First(h), ~ Send(h)
  PROVE  SaysNoAdd(h) /\ UNCHANGED results
<1> USE DEF HandlerPC, AfterSend
<1>1. CASE Register(h) \/ EndSendChildren(h) \/ Timer(h)
  BY <1>1, StepNoAdd DEF Register, EndSendChildren, Timer
<1>2. CASE ReadClosed(h) \/ NextChild(h) \/ SendTarget(h)
  BY <1>2 DEF ReadClosed, Again, NextChild, SendTarget, SaysNoAdd
<1>3. CASE Command(h)
  <2>1. UNCHANGED results
    BY <1>3 DEF Command
  <2>2. CASE Speaks(h, "loop", "Start", "loop") \/ Speaks(h, "loop", "Remove", "leave") \/ Speaks(h, "loop", "List", "loop")
    BY <2>1, <2>2, SpeaksNoAdd
  <2>3. CASE HandlerStep(h, "loop", "leave") \/ SendChildren(h, "Quit")
    BY <2>1, <2>3, StepNoAdd DEF SendChildren
  <2>4. QED
    BY <1>3, <2>2, <2>3 DEF Command, Start, Speaks
<1>4. CASE FromPeer(h)
  <2>1. UNCHANGED results
    BY <1>4 DEF FromPeer
  <2>2. CASE Speaks(h, "loop", "Success", "loop")
    BY <2>1, <2>2, SpeaksNoAdd
  <2>3. CASE SendChildren(h, "Have")
    BY <2>1, <2>3, StepNoAdd DEF SendChildren
  <2>4. CASE Again(h)
    BY <2>1, <2>4 DEF Again, SaysNoAdd
  <2>5. QED
    BY <1>4, <2>2, <2>3, <2>4 DEF FromPeer, Speaks
<1>5. CASE Answer(h)
  <2>1. UNCHANGED results
    BY <1>5 DEF Answer
  <2>2. CASE Speaks(h, "asking", "TotalFailure", "leave") \/ Speaks(h, "asking", "Failure", "loop")
    BY <2>1, <2>2, SpeaksNoAdd
  <2>3. CASE HandlerStep(h, "asking", "loop")
    BY <2>1, <2>3, StepNoAdd
  <2>4. QED
    BY <1>5, <2>2, <2>3, ZenonT(30) DEF Answer, Speaks
<1>6. CASE LeaveController(h)
  <2>1. UNCHANGED results
    BY <1>6 DEF LeaveController
  <2>2. CASE Speaks(h, "leave", "Exiting", "closing")
    BY <2>1, <2>2, SpeaksNoAdd
  <2>3. CASE HandlerStep(h, "leave", "deleting") \/ HandlerStep(h, "closing", "deleting") \/ HandlerStep(h, "deleting", "gone")
    BY <2>1, <2>3, StepNoAdd
  <2>4. CASE UNCHANGED <<tpc, out>>
    BY <2>1, <2>4 DEF SaysNoAdd
  <2>5. QED
    BY <1>6, <2>2, <2>3, <2>4 DEF LeaveController, Speaks
<1>7. QED
  BY <1>1, <1>2, <1>3, <1>4, <1>5, <1>6 DEF HandlerNext

\* A step of a torrent handler moves the results of the Adds, and loses none.
LEMMA HandlerAdds ==
  ASSUME TorrentInv, NEW h \in Handlers, HandlerNext(h), NEW k \in Handlers
  PROVE  /\ Asking(k)' + Amount(results', AddsOf(k)) = Asking(k) + Amount(results, AddsOf(k))
         /\ tpc'[k] = "off" <=> tpc[k] = "off"
<1>1. Moves(h)
  BY HandlerMoves
<1>2. tpc'[k] = "off" <=> tpc[k] = "off"
  BY <1>1 DEF Moves
<1>3. results \in Seq(Result) /\ out[h] \in Result /\ out[h].from = h
  BY DEF TorrentInv, TorrentTypeOK, ControlOK, HandlersOK, RetriesOK
<1>4. Amount(results, AddsOf(k)) \in Nat
  BY <1>3, PositionsFinite
<1>5. Asking(k) \in Nat /\ Asking(k)' \in Nat
  BY DEF Asking, IsOne
<1>6. k # h => Asking(k)' = Asking(k)
  BY <1>1 DEF Moves, Asking
<1>7. CASE First(h)
  <2>1. UNCHANGED results
    BY <1>7 DEF First
  <2>2. \E next \in {"register", "gone"} : Speaks(h, "first", "Add", next)
    BY <1>7, ZenonT(30) DEF First, Speaks
  <2>3. tpc[h] = "first" /\ tpc'[h] = "send" /\ out'[h].id = "Add"
    BY <2>2, SpeaksMoves DEF HandlerPC, AfterSend
  <2>4. out'[h] \in AddsOf(h)
    BY <1>1, <2>3, MessageType DEF Moves, AddsOf
  <2>5. Asking(h)' = 1 /\ Asking(h) = 1
    BY <2>3, <2>4 DEF Asking, IsOne
  <2>6. QED
    BY <1>2, <1>6, <2>1, <2>5
<1>8. CASE Send(h)
  <2>1. results' = Append(results, out[h]) /\ tpc[h] = "send" /\ tpc'[h] = after[h] /\ after[h] \in AfterSend
    BY <1>8 DEF Send, HandlerStep, TorrentInv, TorrentTypeOK, HandlersOK, RetriesOK
  <2>2. Amount(results', AddsOf(k)) = Amount(results, AddsOf(k)) + (IF out[h] \in AddsOf(k) THEN 1 ELSE 0)
    BY <1>3, <2>1, AmountAppend
  <2>3. Asking(h)' = 0 /\ Asking(h) = IF out[h] \in AddsOf(h) THEN 1 ELSE 0
    BY <2>1 DEF Asking, IsOne, AfterSend
  <2>4. k # h => out[h] \notin AddsOf(k)
    BY <1>3 DEF AddsOf
  <2>5. QED
    BY <1>2, <1>4, <1>5, <1>6, <2>2, <2>3, <2>4
<1>9. CASE ~ First(h) /\ ~ Send(h)
  <2>1. SaysNoAdd(h) /\ UNCHANGED results
    BY <1>9, OtherNoAdd
  <2>2. Asking(h)' = Asking(h)
    BY <2>1 DEF SaysNoAdd, Asking, IsOne, AddsOf
  <2>3. QED
    BY <1>2, <1>6, <2>1, <2>2
<1>10. QED
  BY <1>7, <1>8, <1>9

\* The numbers in the sums are natural, and the message the controller holds counts
\* for one of them at most.
LEMMA SumNat ==
  ASSUME ControllerInv
  PROVE  /\ Amount(viewCh, Adds) \in Nat /\ Amount(replies, {Refusal}) \in Nat
         /\ asked \in Nat /\ told \in Nat /\ Cardinality(Started) \in Nat /\ IsFiniteSet(Started)
         /\ \A k \in Handlers :
              /\ Amount(results, AddsOf(k)) \in Nat /\ Amount(replies, AddsOf(k)) \in Nat
              /\ printed[k] \in Nat /\ Asking(k) \in {0, 1, 2}
<1>1. /\ viewCh \in Seq(Line) /\ replies \in Seq(Answers) /\ results \in Seq(Result)
      /\ asked \in 0 .. AddBound /\ told \in Nat /\ printed \in [Handlers -> Nat]
  BY DEF ControllerInv, ControllerTypeOK, TorrentInv, TorrentTypeOK, ControlOK
<1>2. Started \in SUBSET Handlers
  BY DEF Started
<1>3. IsFiniteSet(Started) /\ Cardinality(Started) \in Nat
  BY <1>2, FS_Subset, FS_CardinalityType, ControllerConstantsOK
<1>4. \A k \in Handlers : Asking(k) \in {0, 1, 2}
  BY DEF Asking, IsOne
<1>5. Amount(viewCh, Adds) \in Nat /\ Amount(replies, {Refusal}) \in Nat
  BY <1>1, PositionsFinite
<1>6. \A k \in Handlers : Amount(results, AddsOf(k)) \in Nat /\ Amount(replies, AddsOf(k)) \in Nat
  BY <1>1, PositionsFinite
<1>7. QED
  BY <1>1, <1>3, <1>4, <1>5, <1>6, ControllerConstantsOK

\* The controller and main go on, and every message is where it was.
LEMMA QuietAdds ==
  ASSUME AskedSum, PlacesSum, UNCHANGED <<viewCh, replies, told, asked, tpc, out, results, printed>>,
         UNCHANGED <<cpc, reply>> \/ (cpc # "reply" /\ cpc' # "reply")
  PROVE  AskedSum' /\ PlacesSum'
<1>1. AskedSum'
  BY DEF AskedSum, IsOne, Started
<1>2. \A k \in Handlers : Asking(k)' = Asking(k) /\ Passing(k)' = Passing(k)
  BY DEF Asking, Passing, IsOne
<1>3. PlacesSum'
  BY <1>2 DEF PlacesSum
<1>4. QED
  BY <1>1, <1>3

\* A command that main sends is counted if it is an Add.
LEMMA SendAdds ==
  ASSUME ControllerInv, AskedSum, PlacesSum, SendController
  PROVE  AskedSum' /\ PlacesSum'
<1>1. viewCh' = Append(viewCh, entered) /\ viewCh \in Seq(Line) /\ entered \in Line
  BY DEF SendController, ControllerInv, ControllerTypeOK
<1>2. Amount(viewCh', Adds) = Amount(viewCh, Adds) + (IF entered \in Adds THEN 1 ELSE 0)
  BY <1>1, AmountAppend
<1>3. asked' = asked + (IF entered \in Adds THEN 1 ELSE 0)
  BY <1>1, SumNat DEF SendController, Adds
<1>4. UNCHANGED <<tpc, out, results, cpc, reply, replies, told, printed>>
  BY DEF SendController, thVars, handlerVars
<1>5. AskedSum'
  BY <1>2, <1>3, <1>4, SumNat DEF AskedSum, IsOne, Started
<1>6. \A k \in Handlers : Asking(k)' = Asking(k) /\ Passing(k)' = Passing(k)
  BY <1>4 DEF Asking, Passing, IsOne
<1>7. PlacesSum'
  BY <1>4, <1>6 DEF PlacesSum
<1>8. QED
  BY <1>5, <1>7

\* What the printer takes from the channel it counts as printed or refused.
LEMMA ShowAdds ==
  ASSUME ControllerInv, AskedSum, PlacesSum, Show
  PROVE  AskedSum' /\ PlacesSum'
<1>1. replies \in Seq(Answers) /\ replies # <<>> /\ replies' = Tail(replies) /\ Head(replies) \in Answers
  BY DEF Show, ControllerInv, ControllerTypeOK
<1>2. UNCHANGED <<tpc, out, results, cpc, reply, viewCh, asked>>
  BY DEF Show, thVars, handlerVars
<1>3. AskedSum'
  <2>1. Amount(replies, {Refusal}) = Amount(replies', {Refusal}) + (IF Head(replies) \in {Refusal} THEN 1 ELSE 0)
    BY <1>1, AmountTail
  <2>2. Amount(replies', {Refusal}) \in Nat
    <3>1. replies' \in Seq(Answers)
      BY <1>1
    <3>2. QED
      BY <3>1, PositionsFinite
  <2>3. told' = told + (IF Head(replies) \in {Refusal} THEN 1 ELSE 0)
    BY SumNat DEF Show
  <2>4. QED
    BY <1>2, <2>1, <2>2, <2>3, SumNat DEF AskedSum, IsOne, Started
<1>4. ASSUME NEW k \in Handlers
      PROVE  Asking(k)' = Asking(k) /\ Passing(k)' = Passing(k)
  <2>1. Amount(replies, AddsOf(k)) = Amount(replies', AddsOf(k)) + (IF Head(replies) \in AddsOf(k) THEN 1 ELSE 0)
    BY <1>1, AmountTail
  <2>2. Amount(replies', AddsOf(k)) \in Nat
    <3>1. replies' \in Seq(Answers)
      BY <1>1
    <3>2. QED
      BY <3>1, PositionsFinite
  <2>3. printed'[k] = printed[k] + (IF Head(replies) \in AddsOf(k) THEN 1 ELSE 0)
    BY <1>1, SumNat, MessageType DEF Show, AddsOf, ControllerInv, ControllerTypeOK
  <2>4. Asking(k)' = Asking(k)
    BY <1>2 DEF Asking
  <2>5. Amount(replies, AddsOf(k)) \in Nat /\ printed[k] \in Nat /\ Amount(results, AddsOf(k)) \in Nat
    BY SumNat
  <2>6. Passing(k)' = Passing(k)
    BY <1>2, <2>1, <2>2, <2>3, <2>5 DEF Passing, IsOne
  <2>7. QED
    BY <2>4, <2>6
<1>5. PlacesSum'
  BY <1>2, <1>4 DEF PlacesSum
<1>6. QED
  BY <1>3, <1>5

\* The controller takes a command: what is left of the Adds in its channel.
LEMMA TakeAdds ==
  ASSUME ControllerInv, NEW id, TakeCommand(id)
  PROVE  /\ Amount(viewCh', Adds) \in Nat
         /\ Amount(viewCh, Adds) = Amount(viewCh', Adds) + (IF id = "Add" THEN 1 ELSE 0)
         /\ UNCHANGED <<replies, told, asked, printed>>
         /\ cpc = "loop" /\ Head(viewCh) \in Line /\ Head(viewCh).id = id
<1>1. /\ viewCh \in Seq(Line) /\ viewCh # <<>> /\ viewCh' = Tail(viewCh) /\ Head(viewCh) \in Line
      /\ Head(viewCh).id = id /\ cpc = "loop"
  BY DEF TakeCommand, ControllerInv, ControllerTypeOK
<1>2. Amount(viewCh, Adds) = Amount(viewCh', Adds) + (IF Head(viewCh) \in Adds THEN 1 ELSE 0)
  BY <1>1, AmountTail
<1>3. Amount(viewCh', Adds) \in Nat
  <2>1. viewCh' \in Seq(Line)
    BY <1>1
  <2>2. QED
    BY <2>1, PositionsFinite
<1>4. Head(viewCh) \in Adds <=> id = "Add"
  BY <1>1 DEF Adds
<1>5. QED
  BY <1>1, <1>2, <1>3, <1>4 DEF TakeCommand, historyVars

\* The controller refuses an Add, or starts a torrent handler for it.
LEMMA AddAdds ==
  ASSUME ControllerInv, AskedSum, PlacesSum, Add
  PROVE  AskedSum' /\ PlacesSum'
<1>1. /\ Amount(viewCh', Adds) \in Nat /\ Amount(viewCh, Adds) = Amount(viewCh', Adds) + 1
      /\ UNCHANGED <<replies, told, asked, printed>> /\ cpc = "loop"
  BY TakeAdds DEF Add
<1>2. CASE Replying(Refusal) /\ UNCHANGED thVars
  <2>1. cpc' = "reply" /\ reply' = Refusal /\ UNCHANGED <<tpc, out, results>>
    BY <1>2 DEF Replying, thVars, handlerVars
  <2>2. \A k \in Handlers : Refusal \notin AddsOf(k)
    BY MessageType DEF AddsOf
  <2>3. AskedSum'
    BY <1>1, <2>1, SumNat DEF AskedSum, IsOne, Started
  <2>4. \A k \in Handlers : Asking(k)' = Asking(k) /\ Passing(k)' = Passing(k)
    BY <1>1, <2>1, <2>2 DEF Asking, Passing, IsOne
  <2>5. QED
    BY <2>1, <2>3, <2>4 DEF PlacesSum
<1>3. CASE (\E h \in Handlers : \E t : Launch(h, t)) /\ UNCHANGED <<cpc, reply, fanoutVars>>
  <2>1. PICK h \in Handlers : tpc[h] = "off" /\ tpc' = [tpc EXCEPT ![h] = "first"] /\ UNCHANGED <<out, results>>
    BY <1>3 DEF Launch, HandlerStep
  <2>2. tpc'[h] = "first" /\ \A k \in Handlers \ {h} : tpc'[k] = tpc[k]
    BY <2>1 DEF ControllerInv, TorrentInv, TorrentTypeOK, HandlersOK
  <2>3. Started' = Started \cup {h} /\ h \notin Started
    BY <2>1, <2>2 DEF Started
  <2>4. Cardinality(Started') = Cardinality(Started) + 1
    BY <2>3, SumNat, FS_AddElement
  <2>5. AskedSum'
    BY <1>1, <1>3, <2>4, SumNat DEF AskedSum, IsOne
  <2>6. \A k \in Handlers : Passing(k)' = Passing(k)
    BY <1>1, <1>3, <2>1 DEF Passing, IsOne
  <2>7. \A k \in Handlers \ {h} : Asking(k)' = Asking(k)
    BY <2>1, <2>2 DEF Asking, IsOne
  <2>8. Asking(h) = 0 /\ Asking(h)' = 1
    BY <2>1, <2>2 DEF Asking, IsOne
  <2>9. Passing(h) = 0
    BY <2>1, <2>8, SumNat DEF PlacesSum, Passing, IsOne
  <2>10. PlacesSum'
    BY <2>1, <2>2, <2>6, <2>7, <2>8, <2>9 DEF PlacesSum, IsOne
  <2>11. QED
    BY <2>5, <2>10
<1>4. QED
  BY <1>2, <1>3 DEF Add

\* Another command that the controller takes is no Add.
LEMMA OtherAdds ==
  ASSUME ControllerInv, AskedSum, PlacesSum, List \/ SetLogLevel
  PROVE  AskedSum' /\ PlacesSum'
<1>1. /\ Amount(viewCh', Adds) = Amount(viewCh, Adds)
      /\ UNCHANGED <<replies, told, asked, printed>> /\ cpc = "loop"
  BY TakeAdds, SumNat DEF List, SetLogLevel
<1>2. UNCHANGED <<tpc, out, results>>
  BY DEF List, SetLogLevel, thVars, handlerVars
<1>3. cpc' # "reply" \/ reply' = [id |-> "LogLevel"]
  BY DEF List, SetLogLevel, Replying
<1>4. \A k \in Handlers : [id |-> "LogLevel"] \notin AddsOf(k)
  BY DEF AddsOf
<1>5. AskedSum'
  BY <1>1, <1>2, <1>3, MessageType DEF AskedSum, IsOne, Started
<1>6. \A k \in Handlers : Asking(k)' = Asking(k) /\ Passing(k)' = Passing(k)
  BY <1>1, <1>2, <1>3, <1>4 DEF Asking, Passing, IsOne
<1>7. QED
  BY <1>2, <1>5, <1>6 DEF PlacesSum

\* The controller takes a result: it holds it, or drops one that is not of an Add.
LEMMA FromHandlerAdds ==
  ASSUME ControllerInv, AskedSum, PlacesSum, FromHandler
  PROVE  AskedSum' /\ PlacesSum'
<1>1. /\ results \in Seq(Result) /\ results # <<>> /\ results' = Tail(results) /\ Head(results) \in Result
      /\ cpc = "loop"
  BY DEF FromHandler, HasResult, ControllerInv, TorrentInv, TorrentTypeOK, ControlOK
<1>2. UNCHANGED <<tpc, out, viewCh, replies, told, asked, printed>>
  BY DEF FromHandler, handlerVars, historyVars
<1>3. \/ cpc' = "reply" /\ reply' = Head(results)
      \/ cpc' = "loop" /\ Head(results).id # "Add"
  BY <1>1 DEF FromHandler, Replying, PassedOn
<1>4. AskedSum'
  BY <1>1, <1>2, <1>3, MessageType DEF AskedSum, IsOne, Started
<1>5. ASSUME NEW k \in Handlers
      PROVE  Asking(k)' = Asking(k) /\ Passing(k)' = Passing(k)
  <2>1. Amount(results, AddsOf(k)) = Amount(results', AddsOf(k)) + (IF Head(results) \in AddsOf(k) THEN 1 ELSE 0)
    BY <1>1, AmountTail
  <2>2. Amount(results', AddsOf(k)) \in Nat
    <3>1. results' \in Seq(Result)
      BY <1>1
    <3>2. QED
      BY <3>1, PositionsFinite
  <2>3. IsOne(cpc' = "reply" /\ reply' \in AddsOf(k)) = IF Head(results) \in AddsOf(k) THEN 1 ELSE 0
    BY <1>3 DEF IsOne, AddsOf
  <2>4. IsOne(cpc = "reply" /\ reply \in AddsOf(k)) = 0
    BY <1>1 DEF IsOne
  <2>5. Asking(k)' = Asking(k)
    BY <1>2 DEF Asking
  <2>6. QED
    BY <1>2, <2>1, <2>2, <2>3, <2>4, <2>5, SumNat DEF Passing
<1>6. QED
  BY <1>2, <1>4, <1>5 DEF PlacesSum

\* The controller sends what it holds to the view.
LEMMA ReplyAdds ==
  ASSUME ControllerInv, AskedSum, PlacesSum, Reply
  PROVE  AskedSum' /\ PlacesSum'
<1>1. replies \in Seq(Answers) /\ reply \in Answers /\ replies' = Append(replies, reply)
  BY DEF Reply, ControllerInv, ControllerTypeOK
<1>2. UNCHANGED <<tpc, out, results, viewCh, told, asked, printed>> /\ cpc = "reply" /\ cpc' = "loop"
  BY DEF Reply, thVars, handlerVars, historyVars
<1>3. AskedSum'
  <2>1. Amount(replies', {Refusal}) = Amount(replies, {Refusal}) + (IF reply \in {Refusal} THEN 1 ELSE 0)
    BY <1>1, AmountAppend
  <2>2. QED
    BY <1>2, <2>1, SumNat DEF AskedSum, IsOne, Started
<1>4. ASSUME NEW k \in Handlers
      PROVE  Asking(k)' = Asking(k) /\ Passing(k)' = Passing(k)
  <2>1. Amount(replies', AddsOf(k)) = Amount(replies, AddsOf(k)) + (IF reply \in AddsOf(k) THEN 1 ELSE 0)
    BY <1>1, AmountAppend
  <2>2. QED
    BY <1>2, <2>1, SumNat DEF Asking, Passing, IsOne
<1>5. QED
  BY <1>2, <1>3, <1>4 DEF PlacesSum

\* A step of a torrent handler keeps the sums.
LEMMA TorrentAdds ==
  ASSUME ControllerInv, ControllerInv', AskedSum, PlacesSum,
         NEW h \in Handlers, RunHandler(h)
  PROVE  AskedSum' /\ PlacesSum'
<1>1. HandlerNext(h) /\ UNCHANGED <<viewCh, cpc, reply, replies, asked, told, printed>>
  BY DEF RunHandler, historyVars
<1>2. \A k \in Handlers :
        /\ Asking(k)' + Amount(results', AddsOf(k)) = Asking(k) + Amount(results, AddsOf(k))
        /\ tpc'[k] = "off" <=> tpc[k] = "off"
  BY <1>1, HandlerAdds DEF ControllerInv
<1>3. AskedSum'
  BY <1>1, <1>2 DEF AskedSum, Started
<1>4. ASSUME NEW k \in Handlers
      PROVE  Asking(k)' + Passing(k)' = Asking(k) + Passing(k)
  <2>1. Amount(results', AddsOf(k)) \in Nat /\ Asking(k)' \in Nat
    <3>1. results' \in Seq(Result)
      BY DEF ControllerInv, TorrentInv, TorrentTypeOK, ControlOK
    <3>2. QED
      BY <3>1, PositionsFinite DEF Asking, IsOne
  <2>2. QED
    BY <1>1, <1>2, <2>1, SumNat DEF Passing, IsOne
<1>5. QED
  BY <1>2, <1>3, <1>4 DEF PlacesSum

\* Every step of the program keeps the sums.
LEMMA ProgramAdds ==
  ASSUME ControllerInv, ControllerInv', AddsConserved, [Program]_ctlVars
  PROVE  AddsConserved'
<1>1. AskedSum /\ PlacesSum
  BY ConservedSum
<1>2. AskedSum' /\ PlacesSum'
  <2> USE <1>1 DEF thVars, handlerVars, viewVars, mainVars, fanoutVars, historyVars
  <2>1. CASE UNCHANGED ctlVars
    BY <2>1, QuietAdds DEF ctlVars
  <2>2. CASE Enter \/ ShowEnd \/ StartController
    BY <2>2, QuietAdds DEF Enter, ShowEnd, StartController
  <2>3. CASE NextHandler \/ SendHandler \/ EndList \/ Throw
    BY <2>3, QuietAdds DEF NextHandler, SendHandler, EndList, Throw
  <2>4. CASE \E h \in Handlers : RunHandler(h)
    BY <2>4, TorrentAdds
  <2>5. QED
    BY <2>1, <2>2, <2>3, <2>4, SendAdds, ShowAdds, AddAdds, OtherAdds, FromHandlerAdds, ReplyAdds
       DEF Program, ControllerLoop
<1>3. QED
  BY <1>2, ConservedSum

\* No Add is lost or answered twice: each is still to be read, has been refused, or has
\* started a torrent handler, of which exactly one result is under way or printed.
THEOREM NoAddLost == ProgramSpec => []AddsConserved
<1>1. ControllerInit => AddsConserved
  <2> SUFFICES ASSUME ControllerInit
               PROVE  AddsConserved
    OBVIOUS
  <2>1. /\ viewCh = <<>> /\ replies = <<>> /\ results = <<>> /\ cpc = "start" /\ asked = 0 /\ told = 0
        /\ \A h \in Handlers : tpc[h] = "off" /\ printed[h] = 0
    BY DEF ControllerInit, THInit
  <2>2. {h \in Handlers : tpc[h] # "off"} = {} /\ DOMAIN viewCh = {} /\ DOMAIN replies = {} /\ DOMAIN results = {}
    BY <2>1
  <2>3. Cardinality({}) = 0
    BY FS_EmptySet
  <2>4. \A h \in Handlers : Places(h) = IsOne(tpc[h] # "off")
    <3> SUFFICES ASSUME NEW h \in Handlers
                 PROVE  Places(h) = IsOne(tpc[h] # "off")
      OBVIOUS
    <3>1. /\ {i \in DOMAIN results : results[i].id = "Add" /\ results[i].from = h} = {}
          /\ {i \in DOMAIN replies : replies[i].id = "Add" /\ replies[i].from = h} = {}
      BY <2>2
    <3>2. QED
      BY <2>1, <2>3, <3>1 DEF Places, Count, IsOne
  <2>5. /\ {i \in DOMAIN viewCh : viewCh[i].id = "Add"} = {}
        /\ {i \in DOMAIN replies : replies[i] = Refusal} = {}
    BY <2>2
  <2>6. asked = Waiting + Refusing + told + Cardinality(Started)
    <3>1. /\ Cardinality({i \in DOMAIN viewCh : viewCh[i].id = "Add"}) = 0
          /\ Cardinality({i \in DOMAIN replies : replies[i] = Refusal}) = 0
          /\ Cardinality({h \in Handlers : tpc[h] # "off"}) = 0
      BY <2>2, <2>3, <2>5, Zenon
    <3>2. IsOne(cpc = "reply" /\ reply = Refusal) = 0 /\ asked = 0 /\ told = 0
      BY <2>1 DEF IsOne
    <3>3. QED
      BY <3>1, <3>2 DEF Count, Waiting, Refusing, Started
  <2>7. QED
    BY <2>4, <2>6 DEF AddsConserved, Started
<1>2. ControllerInv /\ ControllerInv' /\ AddsConserved /\ [Program]_ctlVars => AddsConserved'
  BY ProgramAdds
<1>3. QED
  BY <1>1, <1>2, ControllerInvariant, PTL DEF ProgramSpec

-------------------------------------------------------------------------------
(* Controller implements AddLedger *)

\* The variables of AddLedger, and a step of it or none.
Stages == <<Waiting, Refusing, told, Started, printed>>
AddsStep == Ledger!AddsNext \/ UNCHANGED Stages

\* The numbers are natural, also after a step.
LEMMA StagesNat ==
  ASSUME ControllerInv, ControllerInv'
  PROVE  Waiting \in Nat /\ Refusing \in Nat /\ told \in Nat /\ Waiting' \in Nat /\ Refusing' \in Nat
<1>1. /\ viewCh \in Seq(Line) /\ replies \in Seq(Answers) /\ told \in Nat
      /\ viewCh' \in Seq(Line) /\ replies' \in Seq(Answers)
  BY DEF ControllerInv, ControllerTypeOK
<1>2. /\ Amount(viewCh, Adds) \in Nat /\ Amount(replies, {Refusal}) \in Nat
      /\ Amount(viewCh', Adds) \in Nat /\ Amount(replies', {Refusal}) \in Nat
  BY <1>1, PositionsFinite
<1>3. QED
  BY <1>1, <1>2, WaitingIs DEF IsOne

\* At first there is nothing.
LEMMA AddsInitially == ControllerInit => Ledger!AddsInit
<1> SUFFICES ASSUME ControllerInit
             PROVE  Ledger!AddsInit
  OBVIOUS
<1>1. /\ viewCh = <<>> /\ replies = <<>> /\ cpc = "start" /\ told = 0
      /\ (\A h \in Handlers : tpc[h] = "off") /\ printed = [h \in Handlers |-> 0]
  BY DEF ControllerInit, THInit
<1>2. {i \in DOMAIN viewCh : viewCh[i].id = "Add"} = {} /\ {i \in DOMAIN replies : replies[i] = Refusal} = {}
  BY <1>1
<1>3. Waiting = 0 /\ Refusing = 0
  <2>1. /\ Cardinality({i \in DOMAIN viewCh : viewCh[i].id = "Add"}) = 0
        /\ Cardinality({i \in DOMAIN replies : replies[i] = Refusal}) = 0
    BY <1>2, FS_EmptySet, Zenon
  <2>2. IsOne(cpc = "reply" /\ reply = Refusal) = 0
    BY <1>1 DEF IsOne
  <2>3. QED
    BY <2>1, <2>2 DEF Waiting, Refusing, Count
<1>4. Started = {}
  BY <1>1 DEF Started
<1>5. QED
  BY <1>1, <1>3, <1>4 DEF Ledger!AddsInit

\* What has to do with none of the queues and leaves the controller with what it holds.
LEMMA StillAdds ==
  ASSUME UNCHANGED <<viewCh, replies, told, printed, tpc>>,
         UNCHANGED <<cpc, reply>> \/ (cpc # "reply" /\ cpc' # "reply")
  PROVE  AddsStep
<1>1. Waiting' = Waiting /\ Refusing' = Refusing /\ Started' = Started
  BY DEF Waiting, Refusing, Started, Count, IsOne
<1>2. QED
  BY <1>1 DEF AddsStep, Stages

\* main sends an Add, or another command.
LEMMA SendAsks ==
  ASSUME ControllerInv, ControllerInv', SendController
  PROVE  AddsStep
<1>1. viewCh' = Append(viewCh, entered) /\ viewCh \in Seq(Line) /\ entered \in Line
  BY DEF SendController, ControllerInv, ControllerTypeOK
<1>2. Amount(viewCh', Adds) = Amount(viewCh, Adds) + (IF entered \in Adds THEN 1 ELSE 0)
  BY <1>1, AmountAppend
<1>3. Waiting' = Waiting + (IF entered \in Adds THEN 1 ELSE 0)
  BY <1>2, WaitingIs
<1>4. UNCHANGED <<Refusing, told, Started, printed>>
  BY DEF SendController, thVars, handlerVars, Refusing, Count, Started
<1>5. Ledger!Ask \/ UNCHANGED Stages
  BY <1>3, <1>4, StagesNat DEF Ledger!Ask, Stages
<1>6. QED
  BY <1>5 DEF AddsStep, Ledger!AddsNext

\* The printer tells the user of a refusal or of a result, which is the first of its
\* handler, or has something else.
LEMMA ShowTells ==
  ASSUME ControllerInv, ControllerInv', PlacesSum, Show
  PROVE  AddsStep
<1> DEFINE m == Head(replies)
<1>1. replies \in Seq(Answers) /\ replies # <<>> /\ replies' = Tail(replies) /\ m \in Answers
  BY DEF Show, ControllerInv, ControllerTypeOK
<1>2. UNCHANGED <<tpc, cpc, reply, viewCh>> /\ UNCHANGED <<Waiting, Started>>
  BY DEF Show, thVars, handlerVars, Waiting, Count, Started
<1>3. Refusing = Refusing' + (IF m = Refusal THEN 1 ELSE 0)
  <2>1. Amount(replies, {Refusal}) = Amount(replies', {Refusal}) + (IF Head(replies) \in {Refusal} THEN 1 ELSE 0)
    BY <1>1, AmountTail
  <2>2. Amount(replies', {Refusal}) \in Nat
    <3>1. replies' \in Seq(Answers)
      BY <1>1
    <3>2. QED
      BY <3>1, PositionsFinite
  <2>3. IsOne(cpc' = "reply" /\ reply' = Refusal) = IsOne(cpc = "reply" /\ reply = Refusal)
    BY <1>2
  <2>4. QED
    BY <2>1, <2>2, <2>3, WaitingIs DEF IsOne
<1>4. /\ told' = IF m = Refusal THEN told + 1 ELSE told
      /\ printed' = IF m.id = "Add" THEN [printed EXCEPT ![m.from] = @ + 1] ELSE printed
  BY DEF Show
<1>5. CASE m = Refusal
  <2>1. m.id # "Add"
    BY <1>5 DEF Refusal
  <2>2. Ledger!Tell
    <3> HIDE DEF m
    <3>1. Refusing = Refusing' + 1 /\ told' = told + 1 /\ printed' = printed
      BY <1>3, <1>4, <1>5, <2>1
    <3>2. QED
      BY <1>2, <3>1, StagesNat DEF Ledger!Tell
  <2>3. QED
    BY <2>2 DEF AddsStep, Ledger!AddsNext
<1>6. CASE m # Refusal /\ m.id = "Add"
  <2> DEFINE k == m.from
  <2>1. k \in Handlers /\ m \in AddsOf(k)
    BY <1>1, <1>6, MessageType DEF AddsOf
  <2>2. Amount(replies, AddsOf(k)) = Amount(replies', AddsOf(k)) + 1
    <3>1. Amount(replies, AddsOf(k)) = Amount(replies', AddsOf(k)) + (IF Head(replies) \in AddsOf(k) THEN 1 ELSE 0)
      BY <1>1, AmountTail
    <3>2. QED
      BY <2>1, <3>1
  <2>3. Amount(replies', AddsOf(k)) \in Nat
    <3>1. replies' \in Seq(Answers)
      BY <1>1
    <3>2. QED
      BY <3>1, PositionsFinite
  <2> HIDE DEF m, k
  <2>4. Asking(k) + Passing(k) = IsOne(tpc[k] # "off") /\ Asking(k) \in {0, 1, 2}
    BY <2>1, SumNat DEF PlacesSum
  <2>5. /\ Amount(results, AddsOf(k)) \in Nat /\ Amount(replies, AddsOf(k)) \in Nat /\ printed[k] \in Nat
    BY <2>1, SumNat
  <2>6. printed[k] = 0 /\ tpc[k] # "off"
    BY <2>2, <2>3, <2>4, <2>5 DEF Passing, IsOne
  <2>7. printed' = [printed EXCEPT ![k] = 1]
    BY <1>4, <1>6, <2>1, <2>6 DEF k
  <2>8. Refusing' = Refusing /\ told' = told
    BY <1>3, <1>4, <1>6, StagesNat
  <2>9. Ledger!Answer(k)
    BY <1>2, <2>1, <2>6, <2>7, <2>8 DEF Ledger!Answer, Started
  <2>10. QED
    BY <2>1, <2>9 DEF AddsStep, Ledger!AddsNext
<1>7. CASE m # Refusal /\ m.id # "Add"
  <2> HIDE DEF m
  <2>1. UNCHANGED <<Refusing, told, printed>>
    BY <1>3, <1>4, <1>7, StagesNat
  <2>2. QED
    BY <1>2, <2>1 DEF AddsStep, Stages
<1>8. QED
  BY <1>5, <1>6, <1>7

\* The controller refuses an Add, or starts a handler for it that had not been started.
LEMMA AddTakes ==
  ASSUME ControllerInv, ControllerInv', Add
  PROVE  AddsStep
<1>1. /\ Waiting = Waiting' + 1 /\ UNCHANGED <<replies, told, printed>> /\ cpc = "loop"
  BY TakeAdds, WaitingIs DEF Add
<1>2. CASE Replying(Refusal) /\ UNCHANGED thVars
  <2>1. cpc' = "reply" /\ reply' = Refusal /\ UNCHANGED tpc
    BY <1>2 DEF Replying, thVars, handlerVars
  <2>2. Amount(replies', {Refusal}) = Amount(replies, {Refusal}) /\ Amount(replies, {Refusal}) \in Nat
    BY <1>1, SumNat
  <2>3. Refusing' = Refusing + 1
    BY <1>1, <2>1, <2>2, WaitingIs DEF IsOne
  <2>4. Started' = Started
    BY <2>1 DEF Started
  <2>5. Ledger!Refuse
    BY <1>1, <2>3, <2>4, StagesNat DEF Ledger!Refuse
  <2>6. QED
    BY <2>5 DEF AddsStep, Ledger!AddsNext
<1>3. CASE (\E h \in Handlers : \E t : Launch(h, t)) /\ UNCHANGED <<cpc, reply, fanoutVars>>
  <2>1. PICK h \in Handlers : tpc[h] = "off" /\ tpc' = [tpc EXCEPT ![h] = "first"]
    BY <1>3 DEF Launch, HandlerStep
  <2>2. tpc'[h] = "first" /\ \A k \in Handlers \ {h} : tpc'[k] = tpc[k]
    BY <2>1 DEF ControllerInv, TorrentInv, TorrentTypeOK, HandlersOK
  <2>3. Started' = Started \cup {h} /\ h \notin Started
    BY <2>1, <2>2 DEF Started
  <2>4. Refusing' = Refusing
    BY <1>1, <1>3 DEF Refusing, Count
  <2>5. Ledger!Launch(h)
    BY <1>1, <2>3, <2>4, StagesNat DEF Ledger!Launch
  <2>6. QED
    BY <2>5 DEF AddsStep, Ledger!AddsNext
<1>4. QED
  BY <1>2, <1>3 DEF Add

\* Another command is no Add, and its answer no refusal.
LEMMA OtherStill ==
  ASSUME ControllerInv, ControllerInv', List \/ SetLogLevel
  PROVE  AddsStep
<1>1. /\ Amount(viewCh', Adds) = Amount(viewCh, Adds)
      /\ UNCHANGED <<replies, told, printed>> /\ cpc = "loop"
  BY TakeAdds, SumNat DEF List, SetLogLevel
<1>2. UNCHANGED tpc
  BY DEF List, SetLogLevel, thVars, handlerVars
<1>3. ~ (cpc' = "reply" /\ reply' = Refusal) /\ ~ (cpc = "reply" /\ reply = Refusal)
  BY <1>1, MessageType DEF List, SetLogLevel, Replying
<1>4. Waiting' = Waiting
  BY <1>1, WaitingIs
<1>5. Refusing' = Refusing /\ Started' = Started
  BY <1>1, <1>2, <1>3 DEF Refusing, Count, IsOne, Started
<1>6. QED
  BY <1>1, <1>4, <1>5 DEF AddsStep, Stages

\* A result the controller takes is no refusal.
LEMMA ResultStill ==
  ASSUME ControllerInv, ControllerInv', FromHandler
  PROVE  AddsStep
<1>1. results # <<>> /\ Head(results) \in Result /\ cpc = "loop"
  BY DEF FromHandler, HasResult, ControllerInv, TorrentInv, TorrentTypeOK, ControlOK
<1>2. UNCHANGED <<tpc, viewCh, replies, told, printed>>
  BY DEF FromHandler, handlerVars, historyVars
<1>3. ~ (cpc' = "reply" /\ reply' = Refusal) /\ ~ (cpc = "reply" /\ reply = Refusal)
  BY <1>1, MessageType DEF FromHandler, Replying
<1>4. Waiting' = Waiting /\ Refusing' = Refusing /\ Started' = Started
  BY <1>2, <1>3 DEF Waiting, Refusing, Count, IsOne, Started
<1>5. QED
  BY <1>2, <1>4 DEF AddsStep, Stages

\* A refusal the controller sends is one the view will find in its channel.
LEMMA ReplyStill ==
  ASSUME ControllerInv, ControllerInv', Reply
  PROVE  AddsStep
<1>1. replies \in Seq(Answers) /\ reply \in Answers /\ replies' = Append(replies, reply)
  BY DEF Reply, ControllerInv, ControllerTypeOK
<1>2. UNCHANGED <<tpc, viewCh, told, printed>> /\ cpc = "reply" /\ cpc' = "loop"
  BY DEF Reply, thVars, handlerVars, historyVars
<1>3. Amount(replies', {Refusal}) = Amount(replies, {Refusal}) + (IF reply \in {Refusal} THEN 1 ELSE 0)
  BY <1>1, AmountAppend
<1>4. Refusing' = Refusing
  BY <1>2, <1>3, WaitingIs, SumNat DEF IsOne
<1>5. Waiting' = Waiting /\ Started' = Started
  BY <1>2 DEF Waiting, Count, Started
<1>6. QED
  BY <1>2, <1>4, <1>5 DEF AddsStep, Stages

\* A handler that has been started stays so.
LEMMA TorrentStill ==
  ASSUME ControllerInv, NEW h \in Handlers, RunHandler(h)
  PROVE  AddsStep
<1>1. HandlerNext(h) /\ UNCHANGED <<viewCh, cpc, reply, replies, told, printed>>
  BY DEF RunHandler, historyVars
<1>2. \A k \in Handlers : tpc'[k] = "off" <=> tpc[k] = "off"
  BY <1>1, HandlerAdds DEF ControllerInv
<1>3. Waiting' = Waiting /\ Refusing' = Refusing /\ Started' = Started
  BY <1>1, <1>2 DEF Waiting, Refusing, Count, Started
<1>4. QED
  BY <1>1, <1>3 DEF AddsStep, Stages

\* Every step of the program is a step of AddLedger or none.
LEMMA ProgramLedger ==
  ASSUME ControllerInv, ControllerInv', AddsConserved, [Program]_ctlVars
  PROVE  AddsStep
<1>1. PlacesSum
  BY ConservedSum
<1> USE <1>1 DEF thVars, handlerVars, viewVars, mainVars, fanoutVars, historyVars
<1>2. CASE UNCHANGED ctlVars
  BY <1>2, StillAdds DEF ctlVars
<1>3. CASE Enter \/ ShowEnd \/ StartController
  BY <1>3, StillAdds DEF Enter, ShowEnd, StartController
<1>4. CASE NextHandler \/ SendHandler \/ EndList \/ Throw
  BY <1>4, StillAdds DEF NextHandler, SendHandler, EndList, Throw
<1>5. CASE \E h \in Handlers : RunHandler(h)
  BY <1>5, TorrentStill
<1>6. QED
  BY <1>2, <1>3, <1>4, <1>5, SendAsks, ShowTells, AddTakes, OtherStill, ResultStill, ReplyStill
     DEF Program, ControllerLoop

\* main, its printer, the controller and the torrent handlers implement AddLedger: a step
\* takes one Add one stage further or none, every refusal passes by the user, and a
\* handler that an Add has started gives one answer at most.
THEOREM ConsoleImplementsAdds == ProgramSpec => AddsSpec
<1>1. ControllerInv /\ ControllerInv' /\ AddsConserved /\ [Program]_ctlVars =>
        [Ledger!AddsNext]_(Ledger!addVars)
  BY ProgramLedger DEF AddsStep, Stages, Ledger!addVars
<1>2. QED
  BY <1>1, AddsInitially, ControllerInvariant, NoAddLost, PTL DEF ProgramSpec, AddsSpec, Ledger!AddsSpec
===============================================================================
