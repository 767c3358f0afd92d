CONSTANTS
  NumLines = 1
  MaxClicks = 2
SPECIFICATION EventFairSpec
INVARIANTS EventTypeOK BuyAfterLoan ListIsRound
PROPERTY RoundEnds
CHECK_DEADLOCK FALSE
