CONSTANTS
  MaxWBits = 2
  Requests <- MCRequests
  GzFlags <- MCGzFlags
  ExtraLens = {3}
  TextLens = {3}
  ExtraMax = 2
  TextMax = 2
  NCodes = {2}
  NLens = {3}
  NReps = {1, 4}
  LitCodes = {8}
  EndCodes = {13}
  LenCodes <- MCLenCodes
  DistCodes <- MCDistCodes
  Root = 10
  Lengths = {1, 3}
  Offsets = {2, 6}
  StoredLens = {0, 2}
  MaxMatch = 3
  MaxHist = 5
  DictSizes = {3}
  PrimeSizes = {16}
  SyncBytes <- MCSyncBytes
  Calls <- MCCalls
  PrimeMax = 16
SPECIFICATION Spec
INVARIANTS HistoryInWindow Verdict CopiesRight FastMargins HeaderSaved
