------------------------------ MODULE PieceLedger ------------------------------
(***************************************************************************)
(* What the bit fields of a Tracker promise, without the goroutines: every  *)
(* piece is free, claimed by one downloader, or had, and a piece is         *)
(* announced to the other peers once, after it is had.                      *)
(***************************************************************************)
EXTENDS Integers, Sequences

CONSTANT Pieces

VARIABLES status,    \* of every piece: "free", "claimed" or "have"
          announced  \* the pieces announced so far, in order

ledgerVars == <<status, announced>>

Announced == {announced[k] : k \in 1 .. Len(announced)}

LedgerInit == status = [i \in Pieces |-> "free"] /\ announced = <<>>

Become(i, from, to) == status[i] = from /\ status' = [status EXCEPT ![i] = to]

\* A downloader claims a free piece.
Claim(i) == Become(i, "free", "claimed") /\ UNCHANGED announced

\* The piece is downloaded.
Obtain(i) == Become(i, "claimed", "have") /\ UNCHANGED announced

\* The download failed, and the piece may be claimed again.
Release(i) == Become(i, "claimed", "free") /\ UNCHANGED announced

\* The other peers are told.
Tell(i) ==
  /\ status[i] = "have"
  /\ i \notin Announced
  /\ announced' = Append(announced, i)
  /\ UNCHANGED status

LedgerNext == \E i \in Pieces : Claim(i) \/ Obtain(i) \/ Release(i) \/ Tell(i)

LedgerSpec == LedgerInit /\ [][LedgerNext]_ledgerVars
===============================================================================
