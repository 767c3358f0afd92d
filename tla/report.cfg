SPECIFICATION FairSpec
CONSTANTS
  cf = cf
  ff = ff
  exe = exe
  old = old
  new = new
  NoFile = NoFile
  NoGame = NoGame
  Games <- TwoGames
  Files <- OneFile
  Contents <- Versions
  Checked <- OneExempt
INVARIANTS TypeOK MailTells BreakIsNews ReportNames
PROPERTY Compared
