CONSTANTS
  Elems = 5
  Freqs = {0, 1, 2, 3, 5}
  MaxLengths = {3, 4}
  Symbols = 5
  Lengths = {0, 1, 2, 3, 4}
  Root = 2
  SendLengths = {1, 2, 7, 8, 15, 16, 31, 32, 47, 48}
  SyncLength = 7
  WordSize = 16777216
  Base = 4093
  MaxByte = 7
  NMax = 1680
SPECIFICATION Spec
PROPERTY SlidesByLen
