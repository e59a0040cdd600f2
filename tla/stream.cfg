CONSTANTS
  Wraps = {1, 2}
  ZlibHeads = {2, 4}
  GzFixed = 3
  Heads <- MCHeads
  Trailer = 3
  PendBuf = 6
  BlockSizes = {1, 5}
  Margin = 2
  HdrLow = 2
  MaxStored = 3
  WSize = 3
  Room = 4
  Need = 2
  LeftCap = 2
  Kinds = {"tally", "static", "stored"}
  InSizes = {0, 2}
  OutSizes = {0, 1, 7}
  Flushes = {0, 1, 2, 3, 4}
  FinishRule = "contract"
  ResetRule = "closed"
SPECIFICATION FairSpec
INVARIANTS TypeOK WellFormed EndComplete FlushComplete NoFalseStall PendingRoom HeaderExact
PROPERTIES Finishes
