CONSTANTS
  Peers = {p1}
  Nobody = Nobody
  NumHashes = 480
  PieceLength = 2
  TotalLength = 960
  FirstLength = 960
  MaxRequestLength = 2
  ChanSize = 1
  Unreliable = {}
  Matching <- Block7
  Corrupt <- Block7
  RemoteTalk <- OnePiece
  WireSize = 1
  TalkBound = 2
  StopBound = 0
  Absences = {}
  Orderly = FALSE
SPECIFICATION Spec
INVARIANT HaveIsDownloaded
CHECK_DEADLOCK FALSE
