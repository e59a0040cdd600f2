CONSTANTS
  MINSIZE = 3
  GZBUFSIZE_MAX = 3
  Wants = {1, 9}
  Targets <- MCTargets
  Stories <- MCStories
  ReadLens = {2, 7}
  Newlines = {1}
  Lens = {2, 3}
  MaxPos = 6
  MaxMembers = 1
  SeekRule = "any"
SPECIFICATION FairSpec
CHECK_DEADLOCK FALSE
INVARIANT SeekZeros
