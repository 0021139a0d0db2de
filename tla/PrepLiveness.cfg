SPECIFICATION FairSpec
CONSTANTS
  j1 = j1
  j2 = j2
  Jobs = {j1, j2}
  PrefixOf <- ShortTitle
  Runs = {n1, n2}
  Handlers = {r1, r2}
  MaxPreps = 1
  Routes = {"prep", "continue"}
  Ops = {"reject", "un_reject"}
  Faults = {"kill", "kill_late", "bug"}
  SlowRuns = FALSE
  None = None
CHECK_DEADLOCK FALSE
PROPERTIES SlotsAreReturned RowsAreSettled
