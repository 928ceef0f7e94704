--------------------------- MODULE DownloadComments ---------------------------
(***************************************************************************)
(* What the comments of the code say of a download, as properties of        *)
(* Download.  Each of them is refuted by a run: the statements do something *)
(* else.  README.md quotes the comments and explains the counterexamples.   *)
(***************************************************************************)
EXTENDS Download

\* handler.go:231-235, tracker.go:46: BitFieldHave is set for a piece that has
\* been downloaded; after an error BitFieldDownloading is cleared instead.
HaveIsDownloaded == \A i \in have : \E b \in disk : b.index = i

\* handler.go:54-58: the handler forwards what it receives from the remote to
\* the downloader; so it never waits for ever in the middle of that.
ForwardedIsTaken == \A p \in Peers : hpc[p] = "forward" ~> (hpc[p] # "forward" \/ crashed)

\* torrent.go:293: the data that passes the verification is the data that was
\* requested, not the answer to an earlier request.
AcceptedIsRequested ==
  [][\A p \in Peers : AcceptPiece(p) =>
       Head(downCh[p]).block =
         [index |-> piece[p], begin |-> begin[p], length |-> RequestLength(p)]]_vars
===============================================================================
