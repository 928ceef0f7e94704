------------------------------ MODULE SlotProofs ------------------------------
(***************************************************************************)
(* Theorems about the peer handlers of a torrent handler: which channels of *)
(* theirs its map may have, that a loop over them goes on, and how many of  *)
(* them there are.                                                          *)
(***************************************************************************)
EXTENDS TorrentProofs

-------------------------------------------------------------------------------
(* The map *)

\* An entry of the map is of a peer handler of that torrent and of that peer, which
\* has not ended.
MapOwned ==
  \A h \in Handlers, a \in Addresses :
    pmap[h][a] # None =>
      /\ owner[pmap[h][a]] = h /\ addr[pmap[h][a]] = a
      /\ spc[pmap[h][a]] \in {"running", "failing", "leaving", "exiting", "closing", "deleting"}

\* A channel that is being removed is of the same torrent and the same peer, unless
\* the peer handler that made it has ended.
RemovedOwned ==
  \A s \in Slots :
    removed[s] # None =>
      /\ spc[s] \in {"exiting", "closing"}
      /\ \/ owner[removed[s]] = owner[s] /\ addr[removed[s]] = addr[s]
         \/ spc[removed[s]] = "free"

LeaveInv == MapOwned /\ RemovedOwned /\ ClosedIsLeaving

\* A new peer handler takes a free slot and leaves the others alone.
LEMMA SpawnTakesFree ==
  ASSUME TorrentInv, NEW h \in Handlers, HandlerNext(h), NEW s \in Slots, ~ Free(s)
  PROVE  spc'[s] = spc[s] /\ owner'[s] = owner[s] /\ addr'[s] = addr[s]
<1> USE DEF TorrentInv, TorrentTypeOK, SlotsOK
<1>1. CASE UNCHANGED slotVars
  BY <1>1 DEF slotVars
<1>2. CASE SpawnFirst(h)
  <2>1. PICK S \in SUBSET {q \in Slots : Free(q)} : \E f \in [S -> known[h]] : Spawn(h, S, f)
    BY <1>2 DEF SpawnFirst
  <2>2. s \notin S
    BY <2>1
  <2>3. QED
    BY <2>1, <2>2 DEF Spawn
<1>3. CASE \E q \in Slots, a \in known[h] \ Registered(h) : Free(q) /\ Spawn(h, {q}, [p \in {q} |-> a])
  <2>1. PICK q \in Slots, a \in known[h] : Free(q) /\ Spawn(h, {q}, [p \in {q} |-> a])
    BY <1>3
  <2>2. s \notin {q}
    BY <2>1
  <2>3. QED
    BY <2>1, <2>2 DEF Spawn
<1>4. QED
  BY <1>1, <1>2, <1>3, HandlerStarts DEF Respawn

\* A step of a torrent handler changes none of the channels.
LEMMA HandlerLeave ==
  ASSUME TorrentInv, LeaveInv, NEW h \in Handlers, HandlerNext(h)
  PROVE  LeaveInv'
<1>1. UNCHANGED <<pmap, shut, removed>>
  BY DEF HandlerNext
<1>2. \A k \in Handlers, a \in Addresses :
        pmap[k][a] # None => pmap[k][a] \in Slots /\ ~ Free(pmap[k][a])
  BY DEF Free, TorrentInv, TorrentTypeOK, SlotsOK
<1>3. \A s \in Slots : removed[s] # None => removed[s] \in Slots /\ ~ Free(removed[s])
  BY DEF Free, TorrentInv, TorrentTypeOK, SlotsOK
<1>4. \A s \in Slots : spc[s] # "free" => ~ Free(s)
  BY DEF Free
<1>5. MapOwned'
  BY <1>1, <1>2, SpawnTakesFree DEF LeaveInv, MapOwned
<1>6. RemovedOwned'
  BY <1>1, <1>3, <1>4, SpawnTakesFree DEF LeaveInv, RemovedOwned
<1>7. ClosedIsLeaving'
  <2> SUFFICES ASSUME NEW k \in Handlers, NEW a \in Addresses, pmap'[k][a] # None /\ shut'[pmap'[k][a]]
               PROVE  \E s \in Slots : owner'[s] = k /\ addr'[s] = a /\ spc'[s] = "deleting"
    BY DEF ClosedIsLeaving
  <2>1. PICK s \in Slots : owner[s] = k /\ addr[s] = a /\ spc[s] = "deleting"
    BY <1>1 DEF LeaveInv, ClosedIsLeaving
  <2>2. QED
    BY <1>4, <2>1, SpawnTakesFree
<1>8. QED
  BY <1>5, <1>6, <1>7 DEF LeaveInv

\* A step that changes none of the channels, and in which a peer handler goes on
\* before it leaves.
LEMMA StayLeave ==
  ASSUME TorrentInv, LeaveInv, NEW s \in Slots, UNCHANGED <<pmap, shut, removed, owner, addr>>,
         \/ UNCHANGED spc
         \/ \E to \in {"failing", "leaving", "exiting", "closing", "deleting", "success", "refused", "joining"} :
              /\ spc' = [spc EXCEPT ![s] = to]
              /\ to \in {"success", "refused", "joining"} => spc[s] \in {"connecting", "success"}
              /\ removed[s] # None => to \in {"exiting", "closing"}
              /\ spc[s] \notin {"free", "deleting"}
  PROVE  LeaveInv'
<1>1. MapOwned'
  <2> SUFFICES ASSUME NEW h \in Handlers, NEW a \in Addresses, pmap[h][a] # None
               PROVE  /\ owner[pmap[h][a]] = h /\ addr[pmap[h][a]] = a
                      /\ spc'[pmap[h][a]] \in {"running", "failing", "leaving", "exiting", "closing", "deleting"}
    BY DEF MapOwned
  <2> DEFINE c == pmap[h][a]
  <2>1. /\ c \in Slots /\ owner[c] = h /\ addr[c] = a
        /\ spc[c] \in {"running", "failing", "leaving", "exiting", "closing", "deleting"}
    BY DEF LeaveInv, MapOwned, TorrentInv, TorrentTypeOK, SlotsOK
  <2>2. c = s => spc[s] \notin {"connecting", "success"}
    BY <2>1
  <2>3. QED
    BY <2>1, <2>2 DEF TorrentInv, TorrentTypeOK, SlotsOK
<1>2. RemovedOwned'
  BY DEF LeaveInv, RemovedOwned, TorrentInv, TorrentTypeOK, SlotsOK
<1>3. ClosedIsLeaving'
  BY DEF LeaveInv, ClosedIsLeaving, TorrentInv, TorrentTypeOK, SlotsOK
<1>4. QED
  BY <1>1, <1>2, <1>3 DEF LeaveInv

\* A peer handler that has been refused has no entry when it ends, and a downloader
\* that has outlived its peer handler has none either.
LEMMA VacateLeave ==
  ASSUME TorrentInv, LeaveInv, NEW s \in Slots, NEW from \in {"refused", "lingering"},
         SlotStep(s, from, "free"), Vacate(s),
         UNCHANGED <<pmap, shut, removed>>
  PROVE  LeaveInv'
<1> USE DEF SlotStep, Vacate, TorrentInv, TorrentTypeOK, SlotsOK
<1>1. MapOwned'
  BY DEF LeaveInv, MapOwned
<1>2. RemovedOwned'
  BY DEF LeaveInv, RemovedOwned
<1>3. ClosedIsLeaving'
  BY DEF LeaveInv, ClosedIsLeaving
<1>4. QED
  BY <1>1, <1>2, <1>3 DEF LeaveInv

\* AddChild puts a channel into the map that is open.
LEMMA JoinLeave ==
  ASSUME TorrentInv, LeaveInv, NEW s \in Slots, Join(s)
  PROVE  LeaveInv'
<1> USE DEF TorrentInv, TorrentTypeOK, SlotsOK
<1>1. /\ spc[s] = "joining" /\ spc' = [spc EXCEPT ![s] = "running"]
      /\ shut' = [shut EXCEPT ![s] = FALSE] /\ UNCHANGED <<owner, addr, removed>>
  BY DEF Join, SlotStep
<1>2. owner[s] \in Handlers /\ addr[s] \in Addresses
  BY <1>1 DEF NamesOK
<1>3. \A h \in Handlers, a \in Addresses :
        pmap'[h][a] = IF h = owner[s] /\ a = addr[s] THEN s ELSE pmap[h][a]
  BY <1>2 DEF Join
<1>4. MapOwned'
  BY <1>1, <1>2, <1>3 DEF LeaveInv, MapOwned
<1>5. RemovedOwned'
  BY <1>1 DEF LeaveInv, RemovedOwned
<1>6. ClosedIsLeaving'
  BY <1>1, <1>3 DEF LeaveInv, ClosedIsLeaving
<1>7. QED
  BY <1>4, <1>5, <1>6 DEF LeaveInv

\* RemoveChild looks its channel up, which is its own or that of its successor.
LEMMA LookupLeave ==
  ASSUME TorrentInv, LeaveInv, NEW s \in Slots, SlotStep(s, "leaving", "exiting"),
         pmap[owner[s]][addr[s]] # None, removed' = [removed EXCEPT ![s] = pmap[owner[s]][addr[s]]],
         UNCHANGED <<owner, addr, pmap, shut>>
  PROVE  LeaveInv'
<1> USE DEF TorrentInv, TorrentTypeOK, SlotsOK
<1>1. spc[s] = "leaving" /\ spc' = [spc EXCEPT ![s] = "exiting"]
  BY DEF SlotStep
<1>2. owner[s] \in Handlers /\ addr[s] \in Addresses
  BY <1>1 DEF NamesOK
<1>3. MapOwned'
  BY <1>1 DEF LeaveInv, MapOwned
<1>4. RemovedOwned'
  <2>1. removed'[s] = pmap[owner[s]][addr[s]] /\ removed'[s] \in Slots
    BY <1>2
  <2>2. owner[removed'[s]] = owner[s] /\ addr[removed'[s]] = addr[s]
    BY <1>2, <2>1 DEF LeaveInv, MapOwned
  <2>3. QED
    BY <1>1, <2>2 DEF LeaveInv, RemovedOwned
<1>5. ClosedIsLeaving'
  BY <1>1 DEF LeaveInv, ClosedIsLeaving
<1>6. QED
  BY <1>3, <1>4, <1>5 DEF LeaveInv

\* It closes the channel, and stands before the delete while the map may still have it.
LEMMA CloseLeave ==
  ASSUME TorrentInv, LeaveInv, NEW s \in Slots, SlotStep(s, "closing", "deleting"),
         shut' = [shut EXCEPT ![removed[s]] = TRUE], removed' = [removed EXCEPT ![s] = None],
         UNCHANGED <<owner, addr, pmap>>
  PROVE  LeaveInv'
<1> USE DEF TorrentInv, TorrentTypeOK, SlotsOK
<1>1. spc[s] = "closing" /\ spc' = [spc EXCEPT ![s] = "deleting"]
  BY DEF SlotStep
<1>2. MapOwned'
  BY <1>1 DEF LeaveInv, MapOwned
<1>3. RemovedOwned'
  BY <1>1 DEF LeaveInv, RemovedOwned
<1>4. ClosedIsLeaving'
  <2> SUFFICES ASSUME NEW h \in Handlers, NEW a \in Addresses, pmap[h][a] # None, shut'[pmap[h][a]]
               PROVE  \E q \in Slots : owner[q] = h /\ addr[q] = a /\ spc'[q] = "deleting"
    BY DEF ClosedIsLeaving
  <2>1. CASE shut[pmap[h][a]]
    BY <1>1, <2>1 DEF LeaveInv, ClosedIsLeaving
  <2>2. CASE ~ shut[pmap[h][a]]
    <3>1. removed[s] = pmap[h][a]
      BY <2>2
    <3>2. /\ owner[pmap[h][a]] = h /\ addr[pmap[h][a]] = a
          /\ spc[pmap[h][a]] \in {"running", "failing", "leaving", "exiting", "closing", "deleting"}
      BY DEF LeaveInv, MapOwned
    <3>3. owner[s] = h /\ addr[s] = a
      <4>1. removed[s] # None /\ owner[removed[s]] = h /\ addr[removed[s]] = a /\ spc[removed[s]] # "free"
        BY <3>1, <3>2
      <4>2. QED
        BY <4>1 DEF LeaveInv, RemovedOwned
    <3>4. QED
      BY <1>1, <3>3
  <2>3. QED
    BY <2>1, <2>2
<1>5. QED
  BY <1>2, <1>3, <1>4 DEF LeaveInv

\* With the delete the entry goes.
LEMMA DeleteLeave ==
  ASSUME TorrentInv, LeaveInv, NEW s \in Slots, SlotStep(s, "deleting", "lingering"),
         Forget(owner[s], addr[s]), Drop(s), UNCHANGED <<owner, addr, removed>>
  PROVE  LeaveInv'
<1> USE DEF TorrentInv, TorrentTypeOK, SlotsOK
<1>1. spc[s] = "deleting" /\ spc' = [spc EXCEPT ![s] = "lingering"]
  BY DEF SlotStep
<1>2. owner[s] \in Handlers /\ addr[s] \in Addresses
  BY <1>1 DEF NamesOK
<1>3. \A h \in Handlers, a \in Addresses :
        pmap'[h][a] = IF h = owner[s] /\ a = addr[s] THEN None ELSE pmap[h][a]
  BY <1>2 DEF Forget
<1>4. \A h \in Handlers, a \in Addresses : pmap'[h][a] # None => pmap[h][a] = pmap'[h][a] /\ pmap[h][a] # s
  BY <1>3 DEF LeaveInv, MapOwned
<1>5. \A q \in Slots : shut'[q] => shut[q]
  BY DEF Drop
<1>6. MapOwned'
  BY <1>1, <1>4 DEF LeaveInv, MapOwned
<1>7. RemovedOwned'
  BY <1>1 DEF LeaveInv, RemovedOwned
<1>8. ClosedIsLeaving'
  <2> SUFFICES ASSUME NEW h \in Handlers, NEW a \in Addresses, pmap'[h][a] # None, shut'[pmap'[h][a]]
               PROVE  \E q \in Slots : owner'[q] = h /\ addr'[q] = a /\ spc'[q] = "deleting"
    BY DEF ClosedIsLeaving
  <2>1. PICK q \in Slots : owner[q] = h /\ addr[q] = a /\ spc[q] = "deleting"
    BY <1>4, <1>5 DEF LeaveInv, ClosedIsLeaving
  <2>2. q # s
    BY <1>3, <2>1
  <2>3. QED
    BY <1>1, <2>1, <2>2
<1>9. QED
  BY <1>6, <1>7, <1>8 DEF LeaveInv

\* Every step of a peer handler keeps what is known of the map.
LEMMA SlotLeave ==
  ASSUME TorrentInv, LeaveInv, NEW s \in Slots, SlotNext(s)
  PROVE  LeaveInv'
<1>1. removed[s] # None => spc[s] \in {"exiting", "closing"}
  BY DEF LeaveInv, RemovedOwned
<1>2. CASE Connect(s)
  BY <1>1, <1>2, StayLeave DEF Connect, SlotStep, Quiet
<1>3. CASE Report(s)
  <2>1. CASE Says(s, "refused", "TotalFailure", "free") /\ Vacate(s)
    BY <1>3, <2>1, VacateLeave DEF Report, Says
  <2>2. CASE (\/ Says(s, "success", "Success", "joining")
              \/ Says(s, "failing", "TotalFailure", "leaving")) /\ UNCHANGED <<owner, addr>>
    BY <1>1, <1>3, <2>2, StayLeave DEF Report, Says, SlotStep
  <2>3. QED
    BY <1>3, <2>1, <2>2 DEF Report
<1>4. CASE Join(s)
  BY <1>4, JoinLeave
<1>5. CASE Run(s)
  <2>1. spc' = spc \/ spc' = [spc EXCEPT ![s] = "failing"]
    BY <1>5 DEF Run, SlotStep
  <2>2. QED
    BY <1>1, <1>5, <2>1, StayLeave DEF Run
<1>6. CASE Obey(s)
  <2>1. spc' = spc \/ spc' = [spc EXCEPT ![s] = "leaving"]
    BY <1>6 DEF Obey, SlotStep
  <2>2. QED
    BY <1>1, <1>6, <2>1, StayLeave DEF Obey
<1>7. CASE LeavePeer(s)
  <2>1. CASE /\ SlotStep(s, "leaving", "exiting") /\ pmap[owner[s]][addr[s]] # None
             /\ removed' = [removed EXCEPT ![s] = pmap[owner[s]][addr[s]]]
             /\ UNCHANGED <<owner, addr, pmap, shut>>
    BY <2>1, LookupLeave
  <2>2. CASE /\ SlotStep(s, "leaving", "deleting") \/ SlotStep(s, "exiting", "closing")
             /\ UNCHANGED <<owner, addr, pmap, shut, removed>>
    BY <1>1, <2>2, StayLeave DEF SlotStep
  <2>3. CASE /\ SlotStep(s, "closing", "deleting") /\ shut' = [shut EXCEPT ![removed[s]] = TRUE]
             /\ removed' = [removed EXCEPT ![s] = None] /\ UNCHANGED <<owner, addr, pmap>>
    BY <2>3, CloseLeave
  <2>4. CASE UNCHANGED <<spc, owner, addr, pmap, shut, removed>>
    BY <2>4, StayLeave
  <2>5. CASE /\ SlotStep(s, "deleting", "lingering") /\ Forget(owner[s], addr[s]) /\ Drop(s)
             /\ UNCHANGED <<owner, addr, removed>>
    BY <2>5, DeleteLeave
  <2>6. QED
    BY <1>7, <2>1, <2>2, <2>3, <2>4, <2>5 DEF LeavePeer, Says
<1>8. CASE Announce(s)
  BY <1>8, StayLeave DEF Announce, slotVars
<1>9. CASE LastOut(s)
  BY <1>9, VacateLeave DEF LastOut, Quiet
<1>10. QED
  BY <1>2, <1>3, <1>4, <1>5, <1>6, <1>7, <1>8, <1>9 DEF SlotNext

\* Every step of the system does.
LEMMA LeaveNext ==
  ASSUME TorrentInv, LeaveInv, [Next]_thVars
  PROVE  LeaveInv'
<1>1. CASE UNCHANGED <<slotVars, peerChanVars>>
  BY <1>1 DEF LeaveInv, MapOwned, RemovedOwned, ClosedIsLeaving, slotVars, peerChanVars
<1>2. CASE \E h \in Handlers : HandlerNext(h)
  BY <1>2, HandlerLeave
<1>3. CASE \E s \in Slots : SlotNext(s)
  BY <1>3, SlotLeave
<1>4. QED
  BY <1>1, <1>2, <1>3 DEF Next, Launch, Tell, TakeResult, MapThrow, thVars

\* No send to the children of a torrent handler can meet a closed channel unless a
\* peer handler of that peer is between the close and the delete of RemoveChild.
THEOREM ClosedOnlyLeaving == Spec => []ClosedIsLeaving
<1>1. THInit => LeaveInv
  BY DEF THInit, LeaveInv, MapOwned, RemovedOwned, ClosedIsLeaving
<1>2. TorrentInv /\ LeaveInv /\ [Next]_thVars => LeaveInv'
  BY LeaveNext
<1>3. LeaveInv => ClosedIsLeaving
  BY DEF LeaveInv
<1>4. QED
  BY <1>1, <1>2, <1>3, TorrentInvariant, PTL DEF Spec

-------------------------------------------------------------------------------
(* The loop over the children *)

\* What a loop of SendChildren still has to reach is in the map.
DueRegistered == \A h \in Handlers : due[h] \subseteq Registered(h)

\* A loop begins with the entries that the map has.
LEMMA HandlerDue ==
  ASSUME TorrentInv, DueRegistered, NEW h \in Handlers, HandlerNext(h)
  PROVE  DueRegistered'
<1>1. UNCHANGED pmap
  BY DEF HandlerNext
<1>2. \A k \in Handlers : Registered(k)' = Registered(k)
  BY <1>1 DEF Registered
<1>3. ASSUME UNCHANGED due \/ due' = [due EXCEPT ![h] = {}] \/ due' = [due EXCEPT ![h] = Registered(h)]
      PROVE  \A k \in Handlers : due'[k] \subseteq Registered(k)
  BY <1>3 DEF DueRegistered, TorrentInv, TorrentTypeOK, HandlersOK
<1>4. UNCHANGED due \/ due' = [due EXCEPT ![h] = {}] \/ due' = [due EXCEPT ![h] = Registered(h)]
  <2>1. CASE UNCHANGED fanVars
    BY <2>1 DEF fanVars
  <2>2. CASE SendChildren(h, "Quit") \/ SendChildren(h, "Have")
    BY <2>2 DEF SendChildren
  <2>3. CASE NextChild(h) \/ SendTarget(h) \/ EndSendChildren(h)
    BY <2>3 DEF NextChild, SendTarget, EndSendChildren
  <2>4. CASE Command(h)
    BY <2>1, <2>2, <2>4 DEF Command, Start
  <2>5. CASE FromPeer(h)
    BY <2>1, <2>2, <2>5 DEF FromPeer
  <2>6. CASE First(h) \/ Send(h) \/ Register(h) \/ ReadClosed(h)
    BY <2>1, <2>6 DEF First, Send, Register, ReadClosed
  <2>7. CASE Timer(h) \/ Answer(h) \/ LeaveController(h)
    BY <2>1, <2>7 DEF Timer, Answer, LeaveController
  <2>8. QED
    BY <2>3, <2>4, <2>5, <2>6, <2>7 DEF HandlerNext
<1>5. QED
  BY <1>2, <1>3, <1>4 DEF DueRegistered

\* An entry leaves the map and what is due in one step.
LEMMA SlotDue ==
  ASSUME TorrentInv, DueRegistered, NEW s \in Slots, SlotNext(s)
  PROVE  DueRegistered'
<1> USE DEF TorrentInv, TorrentTypeOK, HandlersOK, SlotsOK
<1>1. CASE UNCHANGED <<pmap, due>>
  BY <1>1 DEF DueRegistered, Registered
<1>2. CASE Join(s)
  <2>1. spc[s] = "joining" /\ UNCHANGED due /\ pmap' = [pmap EXCEPT ![owner[s]][addr[s]] = s]
    BY <1>2 DEF Join, SlotStep
  <2>2. owner[s] \in Handlers /\ addr[s] \in Addresses /\ s # None
    BY <2>1, ConstantsOK DEF NamesOK
  <2>3. \A h \in Handlers, a \in Addresses : pmap[h][a] # None => pmap'[h][a] # None
    BY <2>1, <2>2
  <2>4. \A h \in Handlers : Registered(h) \subseteq Registered(h)'
    BY <2>3 DEF Registered
  <2>5. QED
    BY <2>1, <2>4 DEF DueRegistered
<1>3. CASE SlotStep(s, "deleting", "lingering") /\ Forget(owner[s], addr[s])
  <2>1. owner[s] \in Handlers /\ addr[s] \in Addresses
    BY <1>3 DEF SlotStep, NamesOK
  <2>2. \A h \in Handlers, a \in Addresses :
          ~ (h = owner[s] /\ a = addr[s]) => pmap'[h][a] = pmap[h][a]
    BY <1>3, <2>1 DEF Forget
  <2>3. \A h \in Handlers : due'[h] = IF h = owner[s] THEN due[h] \ {addr[s]} ELSE due[h]
    BY <1>3, <2>1 DEF Forget
  <2>4. \A h \in Handlers : \A a \in due'[h] : a \in Addresses /\ pmap'[h][a] # None
    <3>1. SUFFICES ASSUME NEW h \in Handlers, NEW a \in due'[h]
                   PROVE  a \in Addresses /\ pmap'[h][a] # None
      OBVIOUS
    <3>2. a \in due[h] /\ ~ (h = owner[s] /\ a = addr[s])
      BY <2>3, <3>1
    <3>3. a \in Addresses /\ pmap[h][a] # None
      BY <3>2 DEF DueRegistered, Registered
    <3>4. QED
      BY <2>2, <3>2, <3>3
  <2>5. QED
    BY <2>4 DEF DueRegistered, Registered
<1>4. CASE LeavePeer(s)
  BY <1>1, <1>3, <1>4 DEF LeavePeer
<1>5. CASE Connect(s) \/ Report(s) \/ Run(s) \/ Obey(s) \/ Announce(s) \/ LastOut(s)
  BY <1>1, <1>5 DEF Connect, Quiet, Report, Run, Obey, Announce, LastOut
<1>6. QED
  BY <1>2, <1>4, <1>5 DEF SlotNext

\* Whatever peer handlers leave while SendChildren ranges over the map, and whatever
\* ones join, the loop has reached all it must or has an entry to go on with.
THEOREM FanoutAlwaysGoesOn == Spec => []FanoutGoesOn
<1>1. THInit => DueRegistered
  BY DEF THInit, DueRegistered
<1>2. TorrentInv /\ DueRegistered /\ [Next]_thVars => DueRegistered'
  <2> SUFFICES ASSUME TorrentInv, DueRegistered, [Next]_thVars
               PROVE  DueRegistered'
    OBVIOUS
  <2>1. CASE UNCHANGED <<due, pmap>>
    BY <2>1 DEF DueRegistered, Registered
  <2>2. CASE \E h \in Handlers : HandlerNext(h)
    BY <2>2, HandlerDue
  <2>3. CASE \E s \in Slots : SlotNext(s)
    BY <2>3, SlotDue
  <2>4. QED
    BY <2>1, <2>2, <2>3 DEF Next, Launch, Tell, TakeResult, MapThrow, thVars, handlerVars, fanVars, peerChanVars
<1>3. DueRegistered => FanoutGoesOn
  BY DEF DueRegistered, FanoutGoesOn, FanDone
<1>4. QED
  BY <1>1, <1>2, <1>3, TorrentInvariant, PTL DEF Spec

-------------------------------------------------------------------------------
(* How many there are *)

\* The control points of a peer handler that has not given up its place.
Working == {"connecting", "success", "refused", "joining", "running", "failing"}

\* The peer handlers of h at work, and the failures of which h has not heard.
Busy(h) == {s \in Slots : owner[s] = h /\ spc[s] \in Working}
Failures(h) == Amount(inbox[h], {"TotalFailure"})

\* Before its first peer handlers a torrent handler has none.
Fresh(h) == tpc[h] \in {"off", "first", "register"} \/ (tpc[h] = "send" /\ after[h] = "register")
FreshOK ==
  \A h \in Handlers : Fresh(h) => restarts[h] = 0 /\ inbox[h] = <<>> /\ \A s \in Slots : owner[s] # h

\* The load is the number of the ones and of the others, before a step and after it.
LEMMA LoadSum ==
  ASSUME NEW h \in Handlers
  PROVE  /\ Load(h) = Cardinality(Busy(h)) + Failures(h)
         /\ Load(h)' = Cardinality(Busy(h)') + Failures(h)'
BY DEF Load, Busy, Working, Failures, Amount, Positions

\* Any part of the slots, or of the peers, is finite.
LEMMA FinitePart ==
  ASSUME NEW T, T \subseteq Slots \/ T \subseteq Addresses
  PROVE  IsFiniteSet(T) /\ Cardinality(T) \in Nat
<1>1. IsFiniteSet(T)
  <2>1. CASE T \in SUBSET Slots
    BY <2>1, FS_Subset, ConstantsOK
  <2>2. CASE T \in SUBSET Addresses
    BY <2>2, FS_Subset, ConstantsOK
  <2>3. QED
    BY <2>1, <2>2
<1>2. QED
  BY <1>1, FS_CardinalityType

\* Both numbers are natural.
LEMMA LoadNat ==
  ASSUME TorrentInv, TorrentInv', NEW h \in Handlers
  PROVE  /\ IsFiniteSet(Busy(h)) /\ Cardinality(Busy(h)) \in Nat /\ Cardinality(Busy(h)') \in Nat
         /\ Failures(h) \in Nat /\ Failures(h)' \in Nat
<1>1. IsFiniteSet(Busy(h)) /\ IsFiniteSet(Busy(h)')
  <2>1. Busy(h) \subseteq Slots /\ Busy(h)' \subseteq Slots
    BY DEF Busy
  <2>2. QED
    BY <2>1, FinitePart
<1>2. inbox[h] \in Seq(PeerSays) /\ inbox'[h] \in Seq(PeerSays)
  BY DEF TorrentInv, TorrentTypeOK, SlotsOK
<1>3. Failures(h) \in Nat /\ Failures(h)' \in Nat
  BY <1>2, PositionsFinite DEF Failures
<1>4. QED
  BY <1>1, <1>3, FS_CardinalityType

\* New peer handlers add their number to those at work.
LEMMA SpawnBusy ==
  ASSUME TorrentInv, NEW h \in Handlers, NEW S \in SUBSET {s \in Slots : Free(s)}, NEW f, Spawn(h, S, f)
  PROVE  /\ IsFiniteSet(S) /\ Cardinality(S) \in Nat
         /\ Cardinality(Busy(h)') = Cardinality(Busy(h)) + Cardinality(S)
         /\ \A k \in Handlers \ {h} : Busy(k)' = Busy(k)
<1>1. \A s \in S : s \in Slots /\ spc[s] = "free"
  BY DEF Free
<1>2. IsFiniteSet(S) /\ IsFiniteSet(Busy(h))
  <2>1. S \subseteq Slots /\ Busy(h) \subseteq Slots
    BY <1>1 DEF Busy
  <2>2. QED
    BY <2>1, FinitePart
<1>3. /\ \A s \in S : spc'[s] = "connecting" /\ owner'[s] = h
      /\ \A s \in Slots \ S : spc'[s] = spc[s] /\ owner'[s] = owner[s]
  BY <1>1 DEF Spawn
<1>4. Busy(h)' = Busy(h) \cup S
  BY <1>1, <1>3 DEF Busy, Working
<1>5. Busy(h) \cap S = {}
  BY <1>1 DEF Busy, Working
<1>6. Cardinality(Busy(h) \cup S) = Cardinality(Busy(h)) + Cardinality(S) - Cardinality(Busy(h) \cap S)
  BY <1>2, FS_Union
<1>7. /\ Cardinality(Busy(h)) \in Nat /\ Cardinality(S) \in Nat /\ Cardinality(Busy(h) \cap S) = 0
  BY <1>2, <1>5, FS_CardinalityType, FS_EmptySet
<1>8. \A k \in Handlers \ {h} : Busy(k)' = Busy(k)
  BY <1>1, <1>3 DEF Busy, Working
<1>9. QED
  BY <1>2, <1>4, <1>6, <1>7, <1>8

\* The loop over the peers of a tracker starts at most MaxPeers.
LEMMA FirstBusy ==
  ASSUME TorrentInv, NEW h \in Handlers, SpawnFirst(h)
  PROVE  /\ \E n \in 0 .. MaxPeers : Cardinality(Busy(h)') = Cardinality(Busy(h)) + n
         /\ \A k \in Handlers \ {h} : Busy(k)' = Busy(k)
<1>1. PICK S \in SUBSET {s \in Slots : Free(s)} :
        \E f \in [S -> known[h]] :
          /\ Cardinality(S) = IF Cardinality(known[h]) < MaxPeers THEN Cardinality(known[h]) ELSE MaxPeers
          /\ Spawn(h, S, f)
  BY DEF SpawnFirst
<1>2. IsFiniteSet(known[h]) /\ Cardinality(known[h]) \in Nat
  BY FinitePart DEF TorrentInv, TorrentTypeOK, HandlersOK
<1>3. Cardinality(S) \in 0 .. MaxPeers
  <2>1. Cardinality(S) = IF Cardinality(known[h]) < MaxPeers THEN Cardinality(known[h]) ELSE MaxPeers
    BY <1>1
  <2>2. QED
    BY <1>2, <2>1, ConstantsOK
<1>4. QED
  BY <1>1, <1>3, SpawnBusy

\* A peer handler goes on, and keeps its place or had none.
LEMMA BusyStays ==
  ASSUME TorrentInv, NEW s \in Slots, NEW to, spc' = [spc EXCEPT ![s] = to],
         spc[s] \in Working <=> to \in Working,
         spc[s] \in Working => UNCHANGED owner,
         \A q \in Slots \ {s} : owner'[q] = owner[q]
  PROVE  \A k \in Handlers : Busy(k)' = Busy(k)
BY DEF Busy, TorrentInv, TorrentTypeOK, SlotsOK

\* A peer handler gives up its place.
LEMMA BusyLeaves ==
  ASSUME TorrentInv, NEW s \in Slots, NEW to, spc' = [spc EXCEPT ![s] = to],
         spc[s] \in Working, to \notin Working, \A q \in Slots \ {s} : owner'[q] = owner[q]
  PROVE  \A k \in Handlers :
           /\ k = owner[s] => Cardinality(Busy(k)') = Cardinality(Busy(k)) - 1
           /\ k # owner[s] => Busy(k)' = Busy(k)
<1> SUFFICES ASSUME NEW k \in Handlers
             PROVE  /\ k = owner[s] => Cardinality(Busy(k)') = Cardinality(Busy(k)) - 1
                    /\ k # owner[s] => Busy(k)' = Busy(k)
  OBVIOUS
<1>1. Busy(k)' = Busy(k) \ {s}
  BY DEF Busy, TorrentInv, TorrentTypeOK, SlotsOK
<1>2. k = owner[s] <=> s \in Busy(k)
  BY DEF Busy
<1>3. IsFiniteSet(Busy(k))
  <2>1. Busy(k) \subseteq Slots
    BY DEF Busy
  <2>2. QED
    BY <2>1, FinitePart
<1>4. QED
  BY <1>1, <1>2, <1>3, FS_RemoveElement

\* A message to the torrent handler is a failure or is not.
LEMMA InboxFailure ==
  ASSUME TorrentInv, NEW s \in Slots, owner[s] \in Handlers, NEW id \in PeerSays,
         inbox' = [inbox EXCEPT ![owner[s]] = Append(@, id)]
  PROVE  \A k \in Handlers :
           Failures(k)' = Failures(k) + (IF k = owner[s] /\ id = "TotalFailure" THEN 1 ELSE 0)
<1> SUFFICES ASSUME NEW k \in Handlers
             PROVE  Failures(k)' = Failures(k) + (IF k = owner[s] /\ id = "TotalFailure" THEN 1 ELSE 0)
  OBVIOUS
<1>1. inbox \in [Handlers -> Seq(PeerSays)] /\ inbox[k] \in Seq(PeerSays)
  BY DEF TorrentInv, TorrentTypeOK, SlotsOK
<1>2. Amount(inbox[k], {"TotalFailure"}) \in Nat
  BY <1>1, PositionsFinite
<1>3. CASE k = owner[s]
  <2>1. inbox'[k] = Append(inbox[k], id)
    BY <1>1, <1>3
  <2>2. Amount(Append(inbox[k], id), {"TotalFailure"})
          = Amount(inbox[k], {"TotalFailure"}) + (IF id \in {"TotalFailure"} THEN 1 ELSE 0)
    BY <1>1, AmountAppend
  <2>3. QED
    BY <1>2, <1>3, <2>1, <2>2 DEF Failures
<1>4. CASE k # owner[s]
  BY <1>1, <1>2, <1>4 DEF Failures
<1>5. QED
  BY <1>3, <1>4

\* So is one that a peer handler sends with a step.
LEMMA SaysFailure ==
  ASSUME TorrentInv, NEW s \in Slots, NEW from \in SlotPC \ {"free"}, NEW id \in PeerSays, NEW to \in SlotPC,
         Says(s, from, id, to)
  PROVE  /\ spc[s] = from /\ spc' = [spc EXCEPT ![s] = to] /\ owner[s] \in Handlers
         /\ \A k \in Handlers :
              Failures(k)' = Failures(k) + (IF k = owner[s] /\ id = "TotalFailure" THEN 1 ELSE 0)
<1>1. spc[s] = from /\ spc' = [spc EXCEPT ![s] = to] /\ inbox' = [inbox EXCEPT ![owner[s]] = Append(@, id)]
  BY DEF Says, SlotStep
<1>2. owner[s] \in Handlers
  BY <1>1 DEF TorrentInv, NamesOK
<1>3. QED
  BY <1>1, <1>2, InboxFailure

\* What a step may do to the load of k: nothing, take one away for a reason that the
\* code has, or start up to MaxPeers peer handlers, for Start or for the first time.
Unloads(k) ==
  /\ Load(k)' = Load(k) - 1 /\ restarts'[k] = restarts[k]
  /\ \/ \E s \in Slots : owner[s] = k /\ spc[s] = "running" /\ spc'[s] = "leaving"
     \/ known[k] \subseteq Registered(k)
Loads(k) ==
  /\ \E n \in 0 .. MaxPeers : Load(k)' = Load(k) + n
  /\ restarts'[k] = restarts[k] + 1 \/ (Fresh(k) /\ restarts'[k] = restarts[k])
LoadStep(k) ==
  \/ Load(k)' = Load(k) /\ restarts'[k] = restarts[k]
  \/ Unloads(k)
  \/ Loads(k)

\* A failure that is taken is replaced, or no peer is left that could replace it.
LEMMA FromPeerLoad ==
  ASSUME TorrentInv, TorrentInv', NEW h \in Handlers, FromPeer(h)
  PROVE  LoadStep(h) /\ \A k \in Handlers \ {h} : Busy(k)' = Busy(k)
<1>1. inbox[h] \in Seq(PeerSays) /\ inbox[h] # <<>> /\ inbox'[h] = Tail(inbox[h])
  BY DEF FromPeer, TorrentInv, TorrentTypeOK, SlotsOK
<1>2. Failures(h) = Failures(h)' + (IF Head(inbox[h]) \in {"TotalFailure"} THEN 1 ELSE 0)
  BY <1>1, AmountTail DEF Failures
<1>3. restarts'[h] = restarts[h]
  BY DEF FromPeer
<1> USE LoadSum, LoadNat
<1>4. CASE Head(inbox[h]) # "TotalFailure"
  <2>1. UNCHANGED slotVars
    BY <1>4 DEF FromPeer
  <2>2. \A k \in Handlers : Busy(k)' = Busy(k)
    BY <2>1 DEF Busy, slotVars
  <2>3. QED
    BY <1>2, <1>3, <1>4, <2>2 DEF LoadStep
<1>5. CASE Head(inbox[h]) = "TotalFailure"
  <2>1. Failures(h) = Failures(h)' + 1
    BY <1>2, <1>5
  <2>2. Respawn(h)
    BY <1>5 DEF FromPeer
  <2>3. CASE known[h] \subseteq Registered(h) /\ UNCHANGED slotVars
    <3>1. \A k \in Handlers : Busy(k)' = Busy(k)
      BY <2>3 DEF Busy, slotVars
    <3>2. Load(h)' = Load(h) - 1
      BY <2>1, <3>1
    <3>3. QED
      BY <1>3, <2>3, <3>1, <3>2 DEF LoadStep, Unloads
  <2>4. CASE \E s \in Slots, a \in known[h] \ Registered(h) : Free(s) /\ Spawn(h, {s}, [q \in {s} |-> a])
    <3>1. PICK s \in Slots, a \in known[h] : Free(s) /\ Spawn(h, {s}, [q \in {s} |-> a])
      BY <2>4
    <3>2. {s} \in SUBSET {q \in Slots : Free(q)} /\ Cardinality({s}) = 1
      BY <3>1, FS_Singleton
    <3>3. /\ Cardinality(Busy(h)') = Cardinality(Busy(h)) + 1
          /\ \A k \in Handlers \ {h} : Busy(k)' = Busy(k)
      BY <3>1, <3>2, SpawnBusy
    <3>4. Load(h)' = Load(h)
      BY <2>1, <3>3
    <3>5. QED
      BY <1>3, <3>3, <3>4 DEF LoadStep
  <2>5. QED
    BY <2>2, <2>3, <2>4 DEF Respawn
<1>6. QED
  BY <1>4, <1>5

\* Register, and each Start, adds at most MaxPeers.
LEMMA FirstLoad ==
  ASSUME TorrentInv, TorrentInv', NEW h \in Handlers, SpawnFirst(h), UNCHANGED inbox,
         restarts'[h] = restarts[h] + 1 \/ (Fresh(h) /\ restarts'[h] = restarts[h])
  PROVE  LoadStep(h) /\ \A k \in Handlers \ {h} : Busy(k)' = Busy(k)
<1>1. PICK n \in 0 .. MaxPeers : Cardinality(Busy(h)') = Cardinality(Busy(h)) + n
  BY FirstBusy
<1>2. Failures(h)' = Failures(h)
  BY DEF Failures
<1>3. Load(h)' = Load(h) + n
  BY <1>1, <1>2, LoadSum, LoadNat
<1>4. QED
  BY <1>3, FirstBusy DEF LoadStep, Loads

\* Every step of a torrent handler changes the load in one of the three ways.
LEMMA HandlerLoad ==
  ASSUME TorrentInv, TorrentInv', NEW h \in Handlers, HandlerNext(h), NEW k \in Handlers
  PROVE  LoadStep(k)
<1> USE DEF TorrentInv, TorrentTypeOK, HandlersOK, SlotsOK
<1>1. CASE FromPeer(h)
  <2>1. k # h => Failures(k)' = Failures(k) /\ restarts'[k] = restarts[k]
    BY <1>1 DEF FromPeer, Failures
  <2>2. QED
    BY <1>1, <2>1, FromPeerLoad, LoadSum DEF LoadStep
<1>2. CASE Register(h)
  <2>1. Fresh(h) /\ UNCHANGED <<restarts, inbox>> /\ SpawnFirst(h)
    BY <1>2 DEF Register, HandlerStep, Fresh
  <2>2. QED
    BY <2>1, FirstLoad, LoadSum DEF LoadStep, Failures
<1>3. CASE UNCHANGED inbox /\ SpawnFirst(h) /\ restarts' = [restarts EXCEPT ![h] = @ + 1]
  <2>1. restarts'[h] = restarts[h] + 1 /\ (k # h => restarts'[k] = restarts[k])
    BY <1>3
  <2>2. QED
    BY <1>3, <2>1, FirstLoad, LoadSum DEF LoadStep, Failures
<1>4. CASE UNCHANGED <<slotVars, inbox, restarts>>
  BY <1>4, LoadSum DEF LoadStep, Busy, Failures, slotVars
<1>5. CASE Command(h)
  BY <1>3, <1>4, <1>5 DEF Command, Start
<1>6. CASE First(h) \/ Send(h) \/ ReadClosed(h) \/ NextChild(h) \/ SendTarget(h)
  BY <1>4, <1>6 DEF First, Send, ReadClosed, NextChild, SendTarget
<1>7. CASE EndSendChildren(h) \/ Timer(h) \/ Answer(h) \/ LeaveController(h)
  BY <1>4, <1>7 DEF EndSendChildren, Timer, Answer, LeaveController
<1>8. QED
  BY <1>1, <1>2, <1>5, <1>6, <1>7 DEF HandlerNext

\* Every step of a peer handler keeps it, unless it is told to quit.
LEMMA SlotLoad ==
  ASSUME TorrentInv, TorrentInv', NEW s \in Slots, SlotNext(s), NEW k \in Handlers
  PROVE  LoadStep(k)
<1> USE LoadSum, LoadNat DEF SlotPC, PeerSays, Working
<1>1. restarts' = restarts
  BY DEF SlotNext
<1>2. ASSUME Busy(k)' = Busy(k), Failures(k)' = Failures(k)
      PROVE  LoadStep(k)
  BY <1>1, <1>2 DEF LoadStep
<1>3. ASSUME UNCHANGED inbox
      PROVE  Failures(k)' = Failures(k)
  BY <1>3 DEF Failures
<1>4. ASSUME UNCHANGED <<spc, owner>>
      PROVE  Busy(k)' = Busy(k)
  BY <1>4 DEF Busy
<1>5. CASE Connect(s)
  BY <1>2, <1>3, <1>5, BusyStays DEF Connect, SlotStep, Quiet
<1>6. CASE Report(s)
  <2>1. CASE Says(s, "success", "Success", "joining") /\ UNCHANGED <<owner, addr>>
    <3>1. spc[s] = "success" /\ spc' = [spc EXCEPT ![s] = "joining"] /\ Failures(k)' = Failures(k)
      BY <2>1, SaysFailure
    <3>2. QED
      BY <1>2, <2>1, <3>1, BusyStays
  <2>2. ASSUME NEW from \in {"refused", "failing"}, NEW to \in {"free", "leaving"},
               Says(s, from, "TotalFailure", to), \A q \in Slots \ {s} : owner'[q] = owner[q]
        PROVE  LoadStep(k)
    <3>1. /\ spc[s] = from /\ spc' = [spc EXCEPT ![s] = to]
          /\ Failures(k)' = Failures(k) + (IF k = owner[s] THEN 1 ELSE 0)
      BY <2>2, SaysFailure
    <3>2. /\ k = owner[s] => Cardinality(Busy(k)') = Cardinality(Busy(k)) - 1
          /\ k # owner[s] => Busy(k)' = Busy(k)
      BY <2>2, <3>1, BusyLeaves
    <3>3. QED
      BY <1>1, <3>1, <3>2 DEF LoadStep
  <2>3. CASE Says(s, "refused", "TotalFailure", "free") /\ Vacate(s)
    <3>1. \A q \in Slots \ {s} : owner'[q] = owner[q]
      BY <2>3 DEF Vacate, TorrentInv, TorrentTypeOK, SlotsOK
    <3>2. QED
      BY <2>2, <2>3, <3>1
  <2>4. CASE Says(s, "failing", "TotalFailure", "leaving") /\ UNCHANGED <<owner, addr>>
    BY <2>2, <2>4
  <2>5. QED
    BY <1>6, <2>1, <2>3, <2>4 DEF Report
<1>7. CASE Join(s)
  BY <1>2, <1>3, <1>7, BusyStays DEF Join, SlotStep
<1>8. CASE Run(s)
  BY <1>2, <1>3, <1>4, <1>8, BusyStays DEF Run, SlotStep
<1>9. CASE Obey(s)
  <2>1. CASE spc' = spc
    BY <1>2, <1>3, <1>4, <1>9, <2>1 DEF Obey
  <2>2. CASE SlotStep(s, "running", "leaving")
    <3>1. /\ k = owner[s] => Cardinality(Busy(k)') = Cardinality(Busy(k)) - 1
          /\ k # owner[s] => Busy(k)' = Busy(k)
      BY <1>9, <2>2, BusyLeaves DEF Obey, SlotStep
    <3>2. CASE k # owner[s]
      BY <1>2, <1>3, <1>9, <3>1, <3>2 DEF Obey
    <3>3. CASE k = owner[s]
      <4>1. Load(k)' = Load(k) - 1
        BY <1>3, <1>9, <3>1, <3>3 DEF Obey
      <4>2. spc[s] = "running" /\ spc'[s] = "leaving"
        BY <2>2 DEF SlotStep, TorrentInv, TorrentTypeOK, SlotsOK
      <4>3. QED
        BY <1>1, <3>3, <4>1, <4>2 DEF LoadStep, Unloads
    <3>4. QED
      BY <3>2, <3>3
  <2>3. QED
    BY <1>9, <2>1, <2>2 DEF Obey
<1>10. CASE LeavePeer(s)
  <2>1. CASE Says(s, "exiting", "Exiting", "closing")
    <3>1. spc[s] = "exiting" /\ spc' = [spc EXCEPT ![s] = "closing"] /\ Failures(k)' = Failures(k)
      BY <2>1, SaysFailure
    <3>2. UNCHANGED owner
      BY <1>10, <3>1 DEF LeavePeer, SlotStep
    <3>3. QED
      BY <1>2, <3>1, <3>2, BusyStays
  <2>2. CASE UNCHANGED <<inbox, spc, owner>>
    BY <1>2, <1>3, <1>4, <2>2
  <2>3. CASE UNCHANGED inbox /\ \E from \in {"leaving", "closing"}, to \in {"exiting", "deleting"} :
                SlotStep(s, from, to) /\ UNCHANGED owner
    BY <1>2, <1>3, <2>3, BusyStays DEF SlotStep
  <2>4. CASE UNCHANGED <<inbox, owner>> /\ SlotStep(s, "deleting", "lingering")
    BY <1>2, <1>3, <2>4, BusyStays DEF SlotStep
  <2>5. QED
    BY <1>10, <2>1, <2>2, <2>3, <2>4 DEF LeavePeer
<1>11. CASE Announce(s)
  <2>1. owner[s] \in Handlers /\ inbox' = [inbox EXCEPT ![owner[s]] = Append(@, "Have")]
    BY <1>11 DEF Announce, TorrentInv, NamesOK
  <2>2. Failures(k)' = Failures(k)
    <3>1. Failures(k)' = Failures(k) + 0 /\ Failures(k) \in Nat
      BY <2>1, InboxFailure
    <3>2. QED
      BY <3>1
  <2>3. QED
    BY <1>2, <1>4, <1>11, <2>2 DEF Announce, slotVars
<1>12. CASE LastOut(s)
  BY <1>2, <1>3, <1>12, BusyStays DEF LastOut, Quiet, SlotStep, Vacate, TorrentInv, TorrentTypeOK, SlotsOK
<1>13. QED
  BY <1>5, <1>6, <1>7, <1>8, <1>9, <1>10, <1>11, <1>12 DEF SlotNext

\* Every step of the system changes it in one of the three ways.
LEMMA NextLoad ==
  ASSUME TorrentInv, TorrentInv', [Next]_thVars, NEW k \in Handlers
  PROVE  LoadStep(k)
<1>1. CASE UNCHANGED <<slotVars, inbox, restarts>>
  BY <1>1, LoadSum DEF LoadStep, Busy, Failures, slotVars
<1>2. CASE \E h \in Handlers : HandlerNext(h)
  BY <1>2, HandlerLoad
<1>3. CASE \E s \in Slots : SlotNext(s)
  BY <1>3, SlotLoad
<1>4. QED
  BY <1>1, <1>2, <1>3 DEF Next, Launch, Tell, TakeResult, MapThrow, thVars, handlerVars

\* Nothing but Register ends the time before the first peer handlers.
LEMMA FreshStays ==
  ASSUME TorrentInv, TorrentInv', FreshOK, [Next]_thVars
  PROVE  FreshOK'
<1> SUFFICES ASSUME NEW k \in Handlers, Fresh(k)'
             PROVE  restarts'[k] = 0 /\ inbox'[k] = <<>> /\ \A s \in Slots : owner'[s] # k
  BY DEF FreshOK
<1> USE DEF TorrentInv, TorrentTypeOK, HandlersOK, SlotsOK
<1>1. ASSUME Fresh(k)
      PROVE  restarts[k] = 0 /\ inbox[k] = <<>> /\ \A s \in Slots : owner[s] # k
  BY <1>1 DEF FreshOK
<1>2. CASE UNCHANGED <<slotVars, inbox, restarts, tpc, after>>
  BY <1>1, <1>2 DEF Fresh, slotVars
<1>3. ASSUME NEW h \in Handlers, NEW t \in Torrents, Launch(h, t)
      PROVE  Fresh(k) /\ UNCHANGED <<slotVars, inbox, restarts>>
  BY <1>3 DEF Launch, HandlerStep, Fresh
<1>4. ASSUME NEW s \in Slots, SlotNext(s)
      PROVE  restarts'[k] = 0 /\ inbox'[k] = <<>> /\ \A q \in Slots : owner'[q] # k
  <2>1. Fresh(k) /\ UNCHANGED restarts
    BY <1>4 DEF SlotNext, Fresh
  <2>2. owner[s] # k /\ (spc[s] # "free" => owner[s] \in Handlers)
    BY <1>1, <2>1 DEF NamesOK
  <2>3. UNCHANGED owner \/ owner' = [owner EXCEPT ![s] = None]
    BY <1>4 DEF SlotNext, Connect, Report, Join, Run, Obey, LeavePeer, Announce, LastOut, Vacate, slotVars
  <2>4. UNCHANGED inbox \/ \E id : inbox' = [inbox EXCEPT ![owner[s]] = Append(@, id)]
    BY <1>4 DEF SlotNext, Connect, Quiet, Report, Join, Run, Obey, LeavePeer, Announce, LastOut, Says
  <2>5. inbox'[k] = inbox[k]
    BY <2>2, <2>4
  <2>6. QED
    BY <1>1, <2>1, <2>2, <2>3, <2>5, ConstantsOK
<1>5. ASSUME NEW h \in Handlers, HandlerNext(h)
      PROVE  restarts'[k] = 0 /\ inbox'[k] = <<>> /\ \A s \in Slots : owner'[s] # k
  <2>1. Moves(h)
    BY <1>5, HandlerMoves
  <2>2. CASE k # h
    <3>1. Fresh(k)
      BY <2>1, <2>2 DEF Moves, Fresh
    <3>2. restarts'[k] = restarts[k] /\ inbox'[k] = inbox[k]
      <4>1. CASE Command(h)
        <5>1. UNCHANGED inbox /\ (UNCHANGED restarts \/ restarts' = [restarts EXCEPT ![h] = @ + 1])
          BY <4>1 DEF Command, Start
        <5>2. QED
          BY <2>2, <5>1
      <4>2. CASE First(h) \/ Send(h) \/ Register(h) \/ ReadClosed(h) \/ FromPeer(h)
        BY <2>2, <4>2 DEF First, Send, Register, ReadClosed, FromPeer
      <4>3. CASE NextChild(h) \/ SendTarget(h) \/ EndSendChildren(h) \/ Timer(h)
        BY <4>3 DEF NextChild, SendTarget, EndSendChildren, Timer
      <4>4. CASE Answer(h) \/ LeaveController(h)
        BY <4>4 DEF Answer, LeaveController
      <4>5. QED
        BY <1>5, <4>1, <4>2, <4>3, <4>4 DEF HandlerNext
    <3>3. \A s \in Slots : owner'[s] = owner[s] \/ owner'[s] = h
      <4>1. CASE UNCHANGED slotVars
        BY <4>1 DEF slotVars
      <4>2. CASE \E S, f : Spawn(h, S, f)
        BY <4>2 DEF Spawn
      <4>3. QED
        BY <1>5, <4>1, <4>2, HandlerStarts DEF SpawnFirst, Respawn
    <3>4. QED
      BY <1>1, <2>2, <3>1, <3>2, <3>3
  <2>3. CASE k = h
    <3>1. CASE First(h)
      BY <1>1, <2>3, <3>1 DEF First, Sending, HandlerStep, Fresh, slotVars
    <3>2. CASE Send(h)
      <4>1. tpc[h] = "send" /\ after[h] \in AfterSend /\ tpc'[h] = after[h]
        BY <3>2 DEF Send, HandlerStep, RetriesOK
      <4>2. after[h] = "register"
        BY <2>3, <3>2, <4>1 DEF Fresh, AfterSend, Send, HandlerStep
      <4>3. QED
        BY <1>1, <2>3, <3>2, <4>1, <4>2 DEF Send, Fresh, slotVars
    <3>3. CASE tpc'[h] \notin {"off", "first", "register"} /\ (tpc'[h] = "send" => after'[h] # "register")
      BY <2>3, <3>3 DEF Fresh
    <3>4. CASE Register(h) \/ Command(h) \/ FromPeer(h) \/ EndSendChildren(h) \/ Timer(h)
      BY <3>3, <3>4 DEF Register, Command, Start, SendChildren, FromPeer, Again, EndSendChildren, Timer,
                        Sending, HandlerStep, Take
    <3>5. CASE ReadClosed(h) \/ NextChild(h)
      BY <3>3, <3>5 DEF ReadClosed, Again, NextChild
    <3>6. CASE Answer(h)
      <4>1. tpc'[h] = "loop" \/ (tpc'[h] = "send" /\ after'[h] \in {"leave", "loop"})
        <5>1. \/ HandlerStep(h, "asking", "loop")
              \/ Speaks(h, "asking", "TotalFailure", "leave") \/ Speaks(h, "asking", "Failure", "loop")
          BY <3>6, ZenonT(30) DEF Answer, Speaks
        <5>2. ASSUME NEW id \in {"TotalFailure", "Failure"}, NEW next \in {"leave", "loop"},
                     Speaks(h, "asking", id, next)
              PROVE  tpc'[h] = "send" /\ after'[h] = next
          BY <5>2 DEF Speaks, Sending, HandlerStep
        <5>3. CASE HandlerStep(h, "asking", "loop")
          BY <5>3 DEF HandlerStep
        <5>4. QED
          BY <5>1, <5>2, <5>3
      <4>2. QED
        BY <3>3, <4>1
    <3>7. CASE LeaveController(h)
      BY <3>3, <3>7 DEF LeaveController, Sending, HandlerStep
    <3>8. CASE SendTarget(h)
      BY <1>1, <2>3, <3>8 DEF SendTarget, Fresh, slotVars
    <3>9. QED
      BY <1>5, <3>1, <3>2, <3>4, <3>5, <3>6, <3>7, <3>8 DEF HandlerNext
  <2>4. QED
    BY <2>2, <2>3
<1>6. QED
  <2>1. CASE \E h \in Handlers, t \in Torrents : Launch(h, t)
    BY <1>1, <1>3, <2>1 DEF slotVars
  <2>2. CASE \E s \in Slots : SlotNext(s)
    BY <1>4, <2>2
  <2>3. CASE \E h \in Handlers : HandlerNext(h)
    BY <1>5, <2>3
  <2>4. QED
    BY <1>2, <2>1, <2>2, <2>3 DEF Next, Tell, TakeResult, MapThrow, thVars, handlerVars

\* Before the first peer handlers there is no load.
LEMMA FreshLoad ==
  ASSUME TorrentInv, FreshOK, NEW k \in Handlers, Fresh(k)
  PROVE  Load(k) = 0
<1>1. Busy(k) = {} /\ inbox[k] = <<>>
  BY DEF FreshOK, Busy
<1>2. Cardinality(Busy(k)) = 0 /\ Failures(k) = 0
  BY <1>1, FS_EmptySet, AmountEmpty DEF Failures
<1>3. QED
  BY <1>2, LoadSum

\* The bound is kept by every step.
LEMMA BoundedStays ==
  ASSUME TorrentInv, TorrentInv', FreshOK, LoadBounded, [Next]_thVars
  PROVE  LoadBounded'
<1> SUFFICES ASSUME NEW k \in Handlers
             PROVE  Load(k)' <= MaxPeers * (1 + restarts'[k])
  BY DEF LoadBounded
<1> DEFINE r == restarts[k]
<1>1. r \in Nat /\ restarts'[k] \in Nat /\ Load(k) \in Nat /\ Load(k)' \in Nat
  BY LoadSum, LoadNat DEF TorrentInv, TorrentTypeOK, HandlersOK
<1>2. Load(k) <= MaxPeers * (1 + r)
  BY DEF LoadBounded
<1>3. LoadStep(k)
  BY NextLoad
<1>4. CASE Load(k)' = Load(k) /\ restarts'[k] = restarts[k]
  BY <1>2, <1>4
<1>5. CASE Unloads(k)
  BY <1>1, <1>2, <1>5, ConstantsOK DEF Unloads
<1>6. CASE Loads(k)
  <2>1. PICK n \in 0 .. MaxPeers : Load(k)' = Load(k) + n
    BY <1>6 DEF Loads
  <2>2. CASE restarts'[k] = r + 1
    <3>1. MaxPeers * (1 + (r + 1)) = MaxPeers * (1 + r) + MaxPeers
      BY <1>1, ConstantsOK
    <3>2. MaxPeers * (1 + r) \in Int
      BY <1>1, ConstantsOK
    <3>3. QED
      BY <1>1, <1>2, <2>1, <2>2, <3>1, <3>2, ConstantsOK
  <2>3. CASE Fresh(k) /\ restarts'[k] = r
    <3>1. Load(k) = 0 /\ r = 0
      BY <2>3, FreshLoad DEF FreshOK
    <3>2. MaxPeers * (1 + restarts'[k]) = MaxPeers
      BY <2>3, <3>1, ConstantsOK
    <3>3. QED
      BY <2>1, <3>1, <3>2, ConstantsOK
  <2>4. QED
    BY <1>6, <2>2, <2>3 DEF Loads
<1>7. QED
  BY <1>3, <1>4, <1>5, <1>6 DEF LoadStep

\* However peers fail, leave and are replaced, a torrent has at most MaxPeers peer
\* handlers at work for its first start and MaxPeers for every Start command.
THEOREM LoadIsBounded == Spec => []LoadBounded
<1>1. THInit => FreshOK /\ LoadBounded
  <2> SUFFICES ASSUME THInit
               PROVE  FreshOK /\ LoadBounded
    OBVIOUS
  <2>1. FreshOK
    BY ConstantsOK DEF THInit, FreshOK
  <2>2. \A k \in Handlers : Fresh(k) /\ restarts[k] = 0
    BY DEF THInit, Fresh
  <2>3. \A k \in Handlers : Load(k) = 0
    BY <2>1, <2>2, TorrentInit, FreshLoad
  <2>4. QED
    BY <2>1, <2>2, <2>3, ConstantsOK DEF LoadBounded
<1>2. TorrentInv /\ TorrentInv' /\ FreshOK /\ LoadBounded /\ [Next]_thVars => FreshOK' /\ LoadBounded'
  BY FreshStays, BoundedStays
<1>3. QED
  BY <1>1, <1>2, TorrentInvariant, PTL DEF Spec

\* A place is given up only by a peer handler that is told to quit, or when no known
\* peer is without an entry in the map at the moment of the failure.
THEOREM PlacesKept == Spec => PeersReplaced
<1> DEFINE Kept == \A h \in Handlers :
             Load(h)' < Load(h) =>
               \/ \E s \in Slots : owner[s] = h /\ spc[s] = "running" /\ spc'[s] = "leaving"
               \/ known[h] \subseteq Registered(h)
<1>1. TorrentInv /\ TorrentInv' /\ [Next]_thVars => [Kept]_thVars
  <2> SUFFICES ASSUME TorrentInv, TorrentInv', [Next]_thVars, NEW h \in Handlers, Load(h)' < Load(h)
               PROVE  \/ \E s \in Slots : owner[s] = h /\ spc[s] = "running" /\ spc'[s] = "leaving"
                      \/ known[h] \subseteq Registered(h)
    OBVIOUS
  <2>1. Load(h) \in Nat /\ Load(h)' \in Nat
    BY LoadSum, LoadNat
  <2>2. LoadStep(h)
    BY NextLoad
  <2>3. ~ Loads(h)
    BY <2>1 DEF Loads
  <2>4. Unloads(h)
    BY <2>1, <2>2, <2>3 DEF LoadStep
  <2>5. QED
    BY <2>4 DEF Unloads
<1>2. QED
  BY <1>1, TorrentInvariant, PTL DEF Spec, PeersReplaced

===============================================================================
