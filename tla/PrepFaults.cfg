SPECIFICATION Spec
CONSTANTS
  j1 = j1
  j2 = j2
  Jobs = {j1}
  PrefixOf <- OwnPrefix
  Runs = {n1, n2}
  Handlers = {r1}
  MaxPreps = 1
  Routes = {"prep", "continue"}
  Ops = {"apply", "un_apply"}
  Faults = {"kill", "kill_late", "kill_in_shim", "popen", "handler_error", "restart", "db_error", "bug", "briefing_expires"}
  SlowRuns = TRUE
  None = None
CHECK_DEADLOCK FALSE
SYMMETRY Symmetry
INVARIANTS LedgerMatchesProcess
PROPERTIES FinishedRowsAreFinal
