CONSTANTS
  MaxRequestLength = 20
  ByteValues = 32
  FieldLength = 2
  Fields <- SmallFields
  Ids = {0, 1, 2, 3, 4, 5, 6, 7, 8, 9}
  Payloads <- SmallPayloads
  Arguments <- SmallArguments
  Nexts <- SmallNexts
  PStrs <- SmallPStrs
  Hashes <- SmallHashes
  PeerIds <- SmallPeerIds
  Layouts <- SmallLayouts
  BlockLengths <- SmallBlocks
  Width = 60
  PieceLengths <- SmallPieces
SPECIFICATION InputSpec
INVARIANT ContinuesInNextFile
CHECK_DEADLOCK FALSE
