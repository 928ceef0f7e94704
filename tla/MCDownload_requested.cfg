CONSTANTS
  Peers = {p1}
  Nobody = Nobody
  NumHashes = 480
  PieceLength = 3
  TotalLength = 1440
  FirstLength = 1440
  MaxRequestLength = 2
  ChanSize = 1
  Unreliable = {}
  Matching <- FirstBlock
  Corrupt <- BothBlocks
  RemoteTalk <- OnePiece
  WireSize = 1
  TalkBound = 4
  StopBound = 0
  Absences = {}
  Orderly = FALSE
SPECIFICATION Spec
PROPERTY AcceptedIsRequested
CHECK_DEADLOCK FALSE
