CONSTANTS
  Peers = {p1}
  Nobody = Nobody
  NumHashes = 480
  PieceLength = 2
  TotalLength = 960
  FirstLength = 20
  MaxRequestLength = 2
  ChanSize = 1
  Unreliable = {p1}
  Matching <- Block7
  Corrupt <- Block15
  RemoteTalk <- AllKinds
  WireSize = 1
  TalkBound = 3
  StopBound = 1
  Absences = {}
  Orderly = FALSE
SPECIFICATION Spec
INVARIANT DownloadTypeOK
INVARIANT NoLostWakeup
CHECK_DEADLOCK FALSE
