SPECIFICATION FairSpec
CONSTANTS
  Counts = {0, 1, 2}
  Prescalers = {2, 4}
  Clamp = 5
  Cycles = 14
  Never = 99
  Sources = {2, 3, 4}
  Targets = {0, 1, 2, 3}
  G2Lengths = {0, 1, 2}
  AtOnce = {1}
  TopAddress = 5
  Lists <- MCLists
  Frames <- MCFrames
  WireTime <- MCWireTime
  Attached <- MCAttached
  FramePeriod = 3
  Blocks = {0, 1}
  Quarters = {0, 1}
  Data = {"blank", "marker"}
  NumBlocks = 3
  BlockIds = {1, 2}
  Bits = {0, 1}
  DiscSectors = {0, 1, 2}
  ReadableSectors = {0, 2}
  ReadPlaces = {0, 1, 2}
  ReadCounts = {1, 3}
  Batch = 2
  MaxRequests = 2
  None = None
INVARIANTS
  TransferEndsWhereItCopied
  RepliesOfNewestList
  StorageKeeps
  ReadDelivers
  ReportedOnce
PROPERTIES
  
  ShortTransferEnds
  OverwritesNothingElse
  CommandsEnd
CHECK_DEADLOCK FALSE
