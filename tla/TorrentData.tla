----------------------------- MODULE TorrentData -----------------------------
(***************************************************************************)
(* Where the bytes of a torrent are: the files of GetFiles, WriteData and   *)
(* ReadData of torrent.go, and the ranges downloadPiece asks for.  A file   *)
(* is [index, length, path]; bytes are counted, their contents left out.    *)
(***************************************************************************)
EXTENDS Integers, SequencesExt

CONSTANT MaxRequestLength   \* torrent.MaxRequestLength, in bytes

ASSUME DataOK == MaxRequestLength \in Nat \ {0}

Smaller(a, b) == IF a < b THEN a ELSE b
Total(lengths) == FoldLeft(LAMBDA a, b : a + b, 0, lengths)

\* Mutant of Index: totalLength already includes the file.
Index_After(lengths, k) == Total(SubSeq(lengths, 1, k))

\* GetFiles, totalLength when file k is appended.
Index(lengths, k) == Total(SubSeq(lengths, 1, k - 1))

\* The Files of a torrent whose files have the given lengths, in their order.
FilesOf(lengths) ==
  [k \in 1 .. Len(lengths) |->
     [index |-> Index(lengths, k), length |-> lengths[k], path |-> k]]

\* NewTracker, Tracker.Left at the start.
LeftOf(files) == Total([k \in 1 .. Len(files) |-> files[k].length])

-------------------------------------------------------------------------------
(* WriteData and ReadData.  Both start at the byte "at" of the whole torrent *)
(* and visit the files in order; done lists the pieces of files they moved,  *)
(* off counts their bytes and is tells how the loop stands.                  *)

\* Where both loops start.
StartCopy == [is |-> "next", off |-> 0, done |-> <<>>]

\* A piece of a file: count bytes at pos, which are the bytes from of the block.
Copied(s, file, pos, count) ==
  [s EXCEPT !.off = @ + count,
            !.done = Append(@, [path |-> file.path, pos |-> pos, from |-> s.off, count |-> count])]

\* Mutant of Skips: the file that starts where the block starts is skipped too.
Skips_Equal(at, file) == at <= file.index

\* "if requestIndex < file.Index { continue }"
Skips(at, file) == at < file.index

\* Mutant of AmountToWrite: the end of the file is not looked at.
AmountToWrite_NoLimit(file, seekPos, n) == n

\* The bytes left in the file, or the block: negative when the block starts
\* beyond the end of the file.
AmountToWrite(file, seekPos, n) == Smaller(file.length - seekPos, n)

\* What fails at a file: opening it or seeking in it (the directory is not there, or
\* it was created with mode 0444 before), writing to it, or nothing.
Faults == {"none", "open", "write"}

\* One file of WriteData; faults maps each path to what fails there.  The panic is
\* that of "data[off : off+amountToWrite]".
WriteFile(s, file, faults, at, n) ==
  LET seekPos == at - file.index
      amount  == AmountToWrite(file, seekPos, n)
  IN  IF s.is # "next" \/ Skips(at, file) THEN s
      ELSE IF faults[file.path] = "open" THEN [s EXCEPT !.is = "error"]
      ELSE IF amount < 0 \/ s.off + amount > n THEN [s EXCEPT !.is = "panic"]
      ELSE IF faults[file.path] = "write" THEN [s EXCEPT !.is = "error"]
      ELSE [Copied(s, file, seekPos, amount) EXCEPT
              !.is = IF s.off + amount >= n THEN "done" ELSE "next"]

\* WriteData: a loop that has run out of files ("next") is a success as well.
WriteData(files, faults, at, n) ==
  FoldLeft(LAMBDA s, file : WriteFile(s, file, faults, at, n), StartCopy, files)

\* "dataBuffer[n:]" is what the next file is read into; reading at the end of a
\* file is an error, io.EOF, except into an empty buffer.
ReadFile(s, file, disk, at, n) ==
  LET seekPos == at - file.index
      room    == n - s.off
      amount  == Smaller(disk[file.path] - seekPos, room)
  IN  IF s.is # "next" \/ Skips(at, file) THEN s
      ELSE IF file.path \notin DOMAIN disk \/ (room > 0 /\ amount <= 0)
             THEN [s EXCEPT !.is = "error"]
      ELSE LET count == IF room = 0 THEN 0 ELSE amount
           IN  [Copied(s, file, seekPos, count) EXCEPT
                  !.is = IF count >= n THEN "done" ELSE "next"]

\* ReadData; disk maps the paths that exist under "/" to their sizes: DownloadPath
\* is empty, and only ReadData puts a "/" after it.  Success gives n bytes, of
\* which those that no file supplied stay zero.
ReadData(files, disk, at, n) ==
  FoldLeft(LAMBDA s, file : ReadFile(s, file, disk, at, n), StartCopy, files)

-------------------------------------------------------------------------------
(* The ranges of a piece; width is 2^32 in the code, the width of begin.       *)

\* Mutant of RequestLength32: the last block is as long as the others.
RequestLength32_NoClip(begin, plen, width) == MaxRequestLength

\* "int64(begin+MaxRequestLength) > pieceLength": the sum wraps, the length does not.
RequestLength32(begin, plen, width) ==
  IF (begin + MaxRequestLength) % width > plen THEN (plen - begin) % width
  ELSE MaxRequestLength

\* begin after k blocks, "begin += requestLength", for as many rounds as begin can
\* take without repeating itself.
Begins(plen, width) ==
  LET begin[k \in 0 .. width \div MaxRequestLength] ==
        IF k = 0 THEN 0
        ELSE (begin[k - 1] + RequestLength32(begin[k - 1], plen, width)) % width
  IN  begin

\* The rounds of the loop "for int64(begin) < pieceLength": empty if it never ends.
Rounds(plen, width) ==
  LET ends == {k \in DOMAIN Begins(plen, width) : Begins(plen, width)[k] >= plen}
  IN  {0 .. k - 1 : k \in {e \in ends : \A f \in ends : e <= f}}

\* The bytes the k-th request asks for.
Asks(plen, width, k) ==
  Begins(plen, width)[k] ..
    Begins(plen, width)[k] + RequestLength32(Begins(plen, width)[k], plen, width) - 1
===============================================================================
