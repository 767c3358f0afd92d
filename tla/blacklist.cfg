CONSTANTS
  a = a
  b = b
  p = p
  URL <- MCURL
  Matches <- MCMatches
  Lists <- MCLists
  MaxVersion = 2
  MaxNested = 2
  NoFile = NoFile
  None = None
SPECIFICATION FairSpec
INVARIANTS TypeOK ImportedWhole
PROPERTIES DeletesOnlyDropped Heals
