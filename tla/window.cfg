CONSTANTS
  W = 9
  Mult = 2
  MinMatch = 2
  WantMinMatch = 2
  MaxMatch = 4
  SymEnd = 2
  Hdr = 1
  PendBuf = 10
  MaxStored = 13
  Configs <- MCConfigs
  InSizes = {10}
  OutSizes = {12}
  DictSizes = {10}
  Raw = TRUE
  DictRule = "contract"
SPECIFICATION Spec
VIEW LiveState
INVARIANTS TypeOK SlideSafe StaysInside HistoryKept ChainUsable NoByteLost
  LazyMatchValid SymbolsCoverBlock
PROPERTIES CallAdvances DistanceKept
