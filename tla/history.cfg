CONSTANTS
  p1 = p1
  p2 = p2
  Place <- MCPlace
  MaxVisits = 3
  MaxSecond = 2
  FIREFOX_BROWSER = FIREFOX_BROWSER
  CHROME_BROWSER = CHROME_BROWSER
SPECIFICATION FairSpec
INVARIANTS TypeOK ToldInOrder NothingSkipped
PROPERTY VisitHandled
