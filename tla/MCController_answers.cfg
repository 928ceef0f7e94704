SPECIFICATION FairProgramSpec
CONSTANTS
  Handlers = {h1}
  Torrents = {t}
  Slots = {}
  Addresses = {}
  None = None
  MaxPeers = 1
  MaxRetryCount = 2
  ChanSize = 1
  Asked = {}
  RestartBound = 0
  AddBound = 1
  ListBound = 4
INVARIANTS RetriesExact
PROPERTIES AddAnswered HandlerReturns
CHECK_DEADLOCK FALSE
