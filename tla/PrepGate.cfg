SPECIFICATION Spec
CONSTANTS
  j1 = j1
  j2 = j2
  Jobs = {j1, j2}
  PrefixOf <- ShortTitle
  Runs = {n1, n2, n3}
  Handlers = {r1, r2}
  MaxPreps = 2
  Routes = {"prep", "continue"}
  Ops = {}
  Faults = {"kill", "bug", "briefing_expires"}
  SlowRuns = FALSE
  None = None
CHECK_DEADLOCK FALSE
SYMMETRY SymmetryOfRuns
INVARIANTS OneRunPerJob MaterialsOnDisk PrepIsRecoverable
PROPERTIES ReapsOnlyDeadRuns
