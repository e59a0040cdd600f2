CONSTANTS
  W = 8
  Mult = 4
  MinMatch = 2
  WantMinMatch = 2
  MaxMatch = 3
  SymEnd = 4
  Hdr = 1
  PendBuf = 9
  MaxStored = 12
  Configs <- MCStored
  InSizes = {0, 7}
  OutSizes = {20}
  DictSizes = {}
  Raw = TRUE
  DictRule = "contract"
SPECIFICATION Spec
INVARIANTS ReadsFit
