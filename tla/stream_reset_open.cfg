CONSTANTS
  Wraps = {0}
  ZlibHeads = {2, 4}
  GzFixed = 3
  Heads = {}
  Trailer = 3
  PendBuf = 6
  BlockSizes = {1, 5}
  Margin = 2
  HdrLow = 2
  MaxStored = 4
  WSize = 3
  Room = 4
  Need = 2
  LeftCap = 2
  Kinds = {"static"}
  InSizes = {0, 3}
  OutSizes = {20}
  Flushes = {0, 1, 2, 3, 4}
  FinishRule = "contract"
  ResetRule = "any"
SPECIFICATION Spec
INVARIANTS WellFormed
