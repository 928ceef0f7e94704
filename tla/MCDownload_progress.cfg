CONSTANTS
  Peers = {p1}
  Nobody = Nobody
  NumHashes = 660
  PieceLength = 2
  TotalLength = 1320
  FirstLength = 1320
  MaxRequestLength = 2
  ChanSize = 1
  Unreliable = {}
  Matching <- FourBlocks
  Corrupt = {}
  RemoteTalk <- FourPieces
  WireSize = 1
  TalkBound = 4
  StopBound = 0
  Absences = {"away"}
  Orderly = TRUE
SPECIFICATION FairSpec
INVARIANT NoLostRequest
PROPERTY ClaimSettles
PROPERTY ForwardSettles
CHECK_DEADLOCK FALSE
