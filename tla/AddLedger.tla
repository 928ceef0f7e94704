------------------------------- MODULE AddLedger -------------------------------
(***************************************************************************)
(* What the console promises of the Add command, without the channels: an   *)
(* Add is refused or starts a torrent handler of its own, a refusal is told *)
(* to the user, and a handler that was started is answered for once.        *)
(***************************************************************************)
EXTENDS Integers

CONSTANT Handlers

VARIABLES waiting,   \* the Adds that are neither refused nor taken up
          refusing,  \* the refusals the user has not been told
          told,      \* those it has
          started,   \* the handlers that were started
          answers    \* the results of each that the user has been told

addVars == <<waiting, refusing, told, started, answers>>

AddsInit ==
  waiting = 0 /\ refusing = 0 /\ told = 0 /\ started = {} /\ answers = [h \in Handlers |-> 0]

\* The user asks for a torrent.
Ask == waiting' = waiting + 1 /\ UNCHANGED <<refusing, told, started, answers>>

\* It is there already.
Refuse ==
  /\ waiting > 0 /\ waiting' = waiting - 1
  /\ refusing' = refusing + 1
  /\ UNCHANGED <<told, started, answers>>

\* It gets a handler that no Add had before.
Launch(h) ==
  /\ waiting > 0 /\ waiting' = waiting - 1
  /\ h \notin started /\ started' = started \cup {h}
  /\ UNCHANGED <<refusing, told, answers>>

\* The user is told of a refusal.
Tell ==
  /\ refusing > 0 /\ refusing' = refusing - 1
  /\ told' = told + 1
  /\ UNCHANGED <<waiting, started, answers>>

\* The user is told how the Add that started h went.
Answer(h) ==
  /\ h \in started /\ answers[h] = 0
  /\ answers' = [answers EXCEPT ![h] = 1]
  /\ UNCHANGED <<waiting, refusing, told, started>>

AddsNext == Ask \/ Refuse \/ Tell \/ \E h \in Handlers : Launch(h) \/ Answer(h)

AddsSpec == AddsInit /\ [][AddsNext]_addVars
===============================================================================
