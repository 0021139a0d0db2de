SPECIFICATION FlowSpec
CONSTANTS
  j1 = j1
  j2 = j2
  acme = acme
  junior = junior
  senior = senior
  Rows = {j1, j2}
  Mails = {m1}
  Reviewers = {r1, r2}
  Firm <- FirmOf
  Title <- TitleOf
  Fits <- FuzzyFits
  Level <- LevelOf
  Readings <- MailReadings
  MayKill = TRUE
  NoText = NoText
  Roles = {a}
  Blurred = Blurred
  MaxRows = 2
  MaxKills = 1
  Forms = {f1}
  IntakeFaults <- IntakeFaultSets
  NoRow = NoRow
INVARIANTS FlowTypeOK SettledMeansMoved NoLiveTwins
PROPERTIES TriageSparesDecisions EnrichedIsScored
CHECK_DEADLOCK FALSE
