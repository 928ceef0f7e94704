CONSTANTS
  Peers = {p1, p2}
  Nobody = Nobody
  NumHashes = 320
  PieceLength = 2
  TotalLength = 640
  FirstLength = 640
  MaxRequestLength = 2
  ChanSize = 1
  Unreliable = {}
  Matching <- Block7
  Corrupt <- Block7
  RemoteTalk <- OnePiece
  WireSize = 1
  TalkBound = 2
  StopBound = 0
  Absences = {"gone"}
  Orderly = TRUE
SPECIFICATION Spec
INVARIANT ClaimsExclusive
INVARIANT ClaimsHeld
PROPERTY LedgerSpec
CHECK_DEADLOCK FALSE
SYMMETRY Symmetry
