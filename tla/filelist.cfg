SPECIFICATION Spec
CONSTANTS
  r1 = r1
  r2 = r2
  r3 = r3
  docs = docs
  music = music
  missing = missing
  NoOne = NoOne
  Requests <- ThreeRequests
  Folders <- ThreeFolders
  Directories <- TwoFolders
  MaxTime = 1
SYMMETRY Symmetry
INVARIANTS TypeOK WholeListSent SentIsAskedFor NothingLeft
CHECK_DEADLOCK FALSE
