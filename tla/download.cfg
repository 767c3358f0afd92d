SPECIFICATION FairSpec
CONSTANTS
  page = page
  r1 = r1
  t1 = t1
  t2 = t2
  NoFile = NoFile
  Files <- OneFile
  Rounds <- OneRound
  Threads <- TwoThreads
  MaxVersion = 3
  Size <- Sizes
INVARIANTS TypeOK SkippedIsCurrent
PROPERTY Arrives
