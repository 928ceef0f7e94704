------------------------------ MODULE Controller ------------------------------
(***************************************************************************)
(* The program around the torrent handlers: main, which reads commands and  *)
(* has a goroutine that prints what comes back, and the controller between  *)
(* it and the torrent handlers of module TorrentHandler.                    *)
(*                                                                          *)
(*   console --viewCh--> Controller --cqueue--> torrent.Handler             *)
(*   printer <-replies--            <-results--                             *)
(***************************************************************************)
EXTENDS TorrentHandler

CONSTANTS
  AddBound,   \* bound: the Add commands that are entered
  ListBound   \* bound: the List commands that are under way at a time

ASSUME ControllerConstantsOK ==
  /\ AddBound \in Nat /\ ListBound \in Nat
  /\ IsFiniteSet(Handlers) /\ AddBound <= Cardinality(Handlers)

VARIABLES
  mpc, entered,        \* main: control point, the command it is sending
  viewCh, registered,  \* the controller's channel in comView.children, once it is there
  cpc, reply,          \* controller: control point, the message it sends to the view
  cdue, cserved, ctarget, \* SendChildren of List: as due, served and target
  replies,             \* comView.Parent
  printing,            \* the torrent handler whose Peers the printer ranges over
  asked, told, printed \* history: Adds sent, refusals printed, Add results printed

mainVars == <<mpc, entered>>
fanoutVars == <<cdue, cserved, ctarget>>
historyVars == <<asked, told, printed>>
viewVars == <<mainVars, viewCh, registered, cpc, reply, fanoutVars, replies, printing, historyVars>>
ctlVars == <<thVars, viewVars>>

-------------------------------------------------------------------------------
(* Messages and types *)

\* From main: Add carries its torrent, the others none.
Line == [id : {"Add"}, torrent : Torrents] \cup [id : {"List", "LogLevel"}]

\* To the view: a result of a torrent handler, or an answer of the controller.
Answers == Result \cup [id : {"Refused", "LogLevel"}]

\* The Error of a Failure is about a torrent that exists; no other is possible here.
Refusal == [id |-> "Refused"]

ControllerTypeOK ==
  /\ TorrentTypeOK
  /\ mpc \in {"prompt", "send"} /\ entered \in Line /\ viewCh \in Seq(Line)
  /\ registered \in BOOLEAN
  /\ cpc \in {"start", "loop", "reply", "fanout"} /\ reply \in Answers
  /\ cdue \in SUBSET Torrents /\ cserved \in SUBSET Torrents
  /\ ctarget \in Handlers \cup {None} /\ replies \in Seq(Answers)
  /\ printing \in Handlers \cup {None}
  /\ asked \in 0 .. AddBound /\ told \in Nat /\ printed \in [Handlers -> Nat]

ControllerInit ==
  /\ THInit
  /\ mpc = "prompt" /\ entered = [id |-> "List"]
  /\ viewCh = <<>> /\ registered = FALSE
  /\ cpc = "start" /\ reply = Refusal
  /\ cdue = {} /\ cserved = {} /\ ctarget = None
  /\ replies = <<>> /\ printing = None
  /\ asked = 0 /\ told = 0 /\ printed = [h \in Handlers |-> 0]

-------------------------------------------------------------------------------
(* main *)

Count(ch, Test(_)) == Cardinality({i \in DOMAIN ch : Test(ch[i])})
IsOne(b) == IF b THEN 1 ELSE 0

\* The List commands on their way to the torrent handlers, and the answers on theirs.
Lists ==
  LET IsList(m) == m.id = "List"
  IN  Count(viewCh, IsList) + IsOne(cpc = "fanout") + IsOne(cpc = "reply" /\ IsList(reply))
        + Count(results, IsList) + Count(replies, IsList)
        + Cardinality(UNION {{h} \X DOMAIN cqueue[h] : h \in Handlers})
        + Cardinality({h \in Handlers : tpc[h] = "send" /\ IsList(out[h])})

\* A line is read.  Before the controller has registered itself, an Add is answered
\* with "Unable to Add", and the other commands reach no one.
Enter ==
  /\ mpc = "prompt" /\ registered /\ mpc' = "send"
  /\ \/ \E t \in Torrents : asked < AddBound /\ entered' = [id |-> "Add", torrent |-> t]
     \/ Lists < ListBound /\ entered' = [id |-> "List"]
     \/ entered' = [id |-> "LogLevel"]
  /\ UNCHANGED <<thVars, viewCh, registered, cpc, reply, fanoutVars, replies, printing, historyVars>>

\* The send to the controller, which may block.
SendController ==
  /\ mpc = "send" /\ mpc' = "prompt"
  /\ Room(viewCh) /\ viewCh' = Append(viewCh, entered)
  /\ asked' = IF entered.id = "Add" THEN asked + 1 ELSE asked
  /\ entered' = [id |-> "List"]
  /\ UNCHANGED <<thVars, registered, cpc, reply, fanoutVars, replies, printing, told, printed>>

\* The goroutine that prints: of a List it also ranges over Tracker.Peers.
Show ==
  /\ replies # <<>> /\ printing = None /\ replies' = Tail(replies)
  /\ printing' = IF Head(replies).id = "List" THEN Head(replies).from ELSE None
  /\ told' = IF Head(replies) = Refusal THEN told + 1 ELSE told
  /\ printed' = IF Head(replies).id = "Add"
                THEN [printed EXCEPT ![Head(replies).from] = @ + 1] ELSE printed
  /\ UNCHANGED <<thVars, mainVars, viewCh, registered, cpc, reply, fanoutVars, asked>>

ShowEnd ==
  /\ printing # None /\ printing' = None
  /\ UNCHANGED <<thVars, mainVars, viewCh, registered, cpc, reply, fanoutVars, replies, historyVars>>

-------------------------------------------------------------------------------
(* The controller *)

\* AddChild; fetchTorrentsFromDisk returns nothing.
StartController ==
  /\ cpc = "start" /\ cpc' = "loop" /\ registered' = TRUE
  /\ UNCHANGED <<thVars, mainVars, viewCh, reply, fanoutVars, replies, printing, historyVars>>

TakeCommand(id) ==
  /\ cpc = "loop" /\ viewCh # <<>> /\ Head(viewCh).id = id /\ viewCh' = Tail(viewCh)
  /\ UNCHANGED <<mainVars, registered, replies, printing, historyVars>>

\* A send to the view is under way.
Replying(msg) == cpc' = "reply" /\ reply' = msg /\ UNCHANGED fanoutVars

\* comTorrentHandler.Exists
Exists(t) == cmap[t] # None

\* Add: refused if a handler of the torrent has registered itself, else a new one.
Add ==
  /\ TakeCommand("Add")
  /\ \/ Exists(Head(viewCh).torrent) /\ Replying(Refusal) /\ UNCHANGED thVars
     \/ /\ ~ Exists(Head(viewCh).torrent)
        /\ \E h \in Handlers : Launch(h, Head(viewCh).torrent)
        /\ UNCHANGED <<cpc, reply, fanoutVars>>

\* List: sent to every torrent handler.
List ==
  /\ TakeCommand("List")
  /\ cpc' = "fanout" /\ cdue' = {t \in Torrents : Exists(t)} /\ cserved' = {}
  /\ UNCHANGED <<thVars, reply, ctarget>>

\* LogLevel: whether or not the level is a known one, there is an answer.
SetLogLevel ==
  /\ TakeCommand("LogLevel") /\ Replying([id |-> "LogLevel"])
  /\ UNCHANGED thVars

\* Mutant of PassedOn: the result of an Add is not passed on.
PassedOn_NotAdd(id) == id \in {"Remove", "Start", "Stop", "List"}

\* The results the view is to see; the others are dropped.
PassedOn(id) == id \in {"Add", "Remove", "Start", "Stop", "List"}

\* Mutant of HasResult: the commands come first.
HasResult_Last == results # <<>> /\ viewCh = <<>>

\* The select may take a result, whether or not there are commands.
HasResult == results # <<>>

\* A message of a torrent handler.
FromHandler ==
  /\ cpc = "loop" /\ HasResult /\ results' = Tail(results)
  /\ \/ PassedOn(Head(results).id) /\ Replying(Head(results))
     \/ ~ PassedOn(Head(results).id) /\ UNCHANGED <<cpc, reply, fanoutVars>>
  /\ UNCHANGED <<handlerVars, ctlChanVars, slotVars, inbox, peerChanVars, crashed,
                 mainVars, viewCh, registered, replies, printing, historyVars>>

\* Mutant of Reply: what does not fit into the channel of the view is dropped.
Reply_Drop ==
  /\ cpc = "reply" /\ cpc' = "loop" /\ reply' = Refusal
  /\ replies' = IF Room(replies) THEN Append(replies, reply) ELSE replies
  /\ UNCHANGED <<thVars, mainVars, viewCh, registered, fanoutVars, printing, historyVars>>

\* The send to the view, which may block.
Reply ==
  /\ cpc = "reply" /\ cpc' = "loop" /\ reply' = Refusal
  /\ Room(replies) /\ replies' = Append(replies, reply)
  /\ UNCHANGED <<thVars, mainVars, viewCh, registered, fanoutVars, printing, historyVars>>

\* The range loop of SendChildren: an entry that is deleted before it is reached is
\* not visited, one that is added meanwhile may be.
NextHandler ==
  /\ cpc = "fanout" /\ ctarget = None
  /\ \E t \in Torrents \ cserved :
       Exists(t) /\ ctarget' = cmap[t] /\ cserved' = cserved \cup {t}
  /\ UNCHANGED <<thVars, mainVars, viewCh, registered, cpc, reply, cdue, replies, printing, historyVars>>

SendHandler ==
  /\ ctarget # None
  /\ \/ cshut[ctarget] /\ crashed' = TRUE /\ UNCHANGED <<cqueue, ctarget>>
     \/ /\ ~ cshut[ctarget] /\ Room(cqueue[ctarget])
        /\ cqueue' = [cqueue EXCEPT ![ctarget] = Append(@, "List")]
        /\ ctarget' = None /\ UNCHANGED crashed
  /\ UNCHANGED <<handlerVars, results, cmap, cshut, slotVars, inbox, peerChanVars,
                 mainVars, viewCh, registered, cpc, reply, cdue, cserved, replies, printing, historyVars>>

\* Every handler that was there, and still is, has been reached.
EndList ==
  /\ cpc = "fanout" /\ ctarget = None /\ cdue \subseteq cserved
  /\ cpc' = "loop" /\ cdue' = {} /\ cserved' = {}
  /\ UNCHANGED <<thVars, mainVars, viewCh, registered, reply, ctarget, replies, printing, historyVars>>

\* A write to a map while another goroutine is at it: the map of the controller, the
\* map of the view at the start, and the peers of a tracker while they are printed.
Throw ==
  /\ \/ \E h \in Handlers :
          /\ tpc[h] \in {"register", "deleting"}
          /\ \/ cpc = "fanout" \/ (cpc = "loop" /\ viewCh # <<>> /\ Head(viewCh).id = "Add")
             \/ \E k \in Handlers \ {h} : tpc[k] \in {"register", "loop", "leave", "deleting"}
     \/ cpc = "start" /\ mpc = "prompt"
     \/ printing # None /\ tpc[printing] = "asking"
  /\ crashed' = TRUE
  /\ UNCHANGED <<handlerVars, results, ctlChanVars, slotVars, inbox, peerChanVars, viewVars>>

\* A step of h, which may delete its entry: the loop does not come to it any more, and
\* an entry that is added later is a new one.
RunHandler(h) ==
  /\ HandlerNext(h)
  /\ cdue' = {t \in cdue : cmap'[t] # None} /\ cserved' = {t \in cserved : cmap'[t] # None}
  /\ UNCHANGED <<mainVars, viewCh, registered, cpc, reply, ctarget, replies, printing, historyVars>>

ControllerLoop ==
  StartController \/ Add \/ List \/ SetLogLevel \/ FromHandler \/ Reply \/ NextHandler
    \/ SendHandler \/ EndList

-------------------------------------------------------------------------------
(* The program *)

Program ==
  /\ ~ crashed
  /\ \/ Enter \/ SendController \/ Show \/ ShowEnd \/ ControllerLoop \/ Throw
     \/ \E h \in Handlers : RunHandler(h)

ProgramSpec == ControllerInit /\ [][Program]_ctlVars

\* Every goroutine runs.  The select of the controller takes a result in the end, if
\* there is one again and again (Go chooses at random), and so does a handler that
\* waits to send one (Go lets senders wait in a queue).  Nothing is assumed of the
\* user, of a tracker or of the timer.
FairProgramSpec ==
  /\ ProgramSpec
  /\ WF_ctlVars(~ crashed /\ SendController)
  /\ WF_ctlVars(~ crashed /\ Show) /\ WF_ctlVars(~ crashed /\ ShowEnd)
  /\ WF_ctlVars(~ crashed /\ ControllerLoop) /\ SF_ctlVars(~ crashed /\ FromHandler)
  /\ \A h \in Handlers :
       /\ WF_ctlVars(~ crashed /\ tpc[h] \notin {"first", "asking"} /\ RunHandler(h))
       /\ SF_ctlVars(~ crashed /\ tpc[h] = "send" /\ RunHandler(h))

-------------------------------------------------------------------------------
(* Properties *)

\* Where the result of the Add that started h is: h is still asking for it, sends it,
\* or it is in a queue, in the hands of the controller, or printed.
Places(h) ==
  LET Mine(m) == m.id = "Add" /\ m.from = h
  IN  IsOne(tpc[h] = "first") + IsOne(tpc[h] = "send" /\ Mine(out[h])) + Count(results, Mine)
        + IsOne(cpc = "reply" /\ Mine(reply)) + Count(replies, Mine) + printed[h]

\* The Adds the controller has not read, the refusals that are not printed, and the
\* handlers that were started.
Waiting ==
  LET IsAdd(m) == m.id = "Add"
  IN  Count(viewCh, IsAdd)
Refusing ==
  LET IsRefusal(m) == m = Refusal
  IN  IsOne(cpc = "reply" /\ reply = Refusal) + Count(replies, IsRefusal)
Started == {h \in Handlers : tpc[h] # "off"}

\* No Add is lost or answered twice: each is still to be read, has been refused, or
\* has started a torrent handler, of which exactly one result is under way or printed.
AddsConserved ==
  /\ asked = Waiting + Refusing + told + Cardinality(Started)
  /\ \A h \in Handlers : Places(h) = IsOne(h \in Started)

\* main.go, controller.go: the console implements AddLedger.  A step takes one Add one
\* stage further or none, a refusal is not passed over, and a handler gets one answer.
Ledger == INSTANCE AddLedger WITH
            waiting <- Waiting, refusing <- Refusing, started <- Started, answers <- printed
AddsSpec == Ledger!AddsSpec

\* The result of an Add is printed in the end, unless the tracker never answers, the
\* process ends, or the controller waits for ever for a handler that takes no commands.
AddAnswered ==
  \A h \in Handlers :
    tpc[h] # "off" ~>
      \/ printed[h] > 0 \/ crashed \/ [](tpc[h] = "first")
      \/ [](ctarget # None /\ ~ Room(cqueue[ctarget]))

\* torrent/handler.go: what a handler sends to the controller is taken in the end, so
\* that it comes back to its select, unless it waits for the tracker, the process
\* ends, or the controller itself waits for ever for a handler that takes no commands.
HandlerReturns ==
  \A h \in Handlers :
    tpc[h] \notin {"off", "loop", "gone"} ~>
      \/ tpc[h] \in {"loop", "gone"} \/ crashed \/ [](tpc[h] \in {"first", "asking"})
      \/ [](tpc[h] = "send" /\ ctarget # None /\ ~ Room(cqueue[ctarget]))

\* What the error at controller.go:50 says: a torrent that exists is not added, so one
\* handler at a time is in charge of a torrent.
OneHandlerPerTorrent ==
  \A h, k \in Handlers :
    tpc[h] = "loop" /\ tpc[k] = "loop" /\ torrentOf[h] = torrentOf[k] => h = k
===============================================================================
