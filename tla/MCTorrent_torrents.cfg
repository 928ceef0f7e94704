SPECIFICATION Spec
CONSTANTS
  Handlers = {h}
  Torrents = {t}
  None = None
  MaxPeers = 1
  ChanSize = 1
  RestartBound = 1
  Slots = {s1, s2}
  Addresses = {a, b}
  MaxRetryCount = 1
  Asked = {"Start", "Stop", "Remove", "Quit"}
SYMMETRY Symmetry
INVARIANTS TorrentTypeOK LoadBounded ClosedIsLeaving FanoutGoesOn
PROPERTIES PeersReplaced
CHECK_DEADLOCK FALSE
