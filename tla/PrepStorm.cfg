SPECIFICATION Spec
CONSTANTS
  j1 = j1
  j2 = j2
  Jobs = {j1, j2}
  PrefixOf <- OnePrefix
  Runs = {n1, n2}
  Handlers = {r1, r2}
  MaxPreps = 1
  Routes = {"prep", "regenerate", "continue", "reactivate_and_prep"}
  Ops = {"waitlist", "reactivate"}
  Faults = {"kill"}
  SlowRuns = FALSE
  None = None
CHECK_DEADLOCK FALSE
SYMMETRY Symmetry
INVARIANTS TypeOK
PROPERTIES ImplementsSlotPool
