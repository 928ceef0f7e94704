SPECIFICATION ProgramSpec
CONSTANTS
  Handlers = {h1, h2}
  Torrents = {t}
  Slots = {}
  Addresses = {}
  None = None
  MaxPeers = 1
  MaxRetryCount = 1
  ChanSize = 1
  Asked = {}
  RestartBound = 0
  AddBound = 2
  ListBound = 2
SYMMETRY Symmetry
INVARIANTS OneHandlerPerTorrent
CHECK_DEADLOCK FALSE
