SPECIFICATION Spec
CONSTANTS
  Jobs = {j1, j2}
  Handlers = {r1, r2}
  Ops = {"apply", "not_selected", "un_not_selected", "reattribute"}
  StaleTabs = FALSE
  ReattributeTo = {"applied", "interview", "offer"}
  Aborts = TRUE
  MaxNesting = 2
  MaxFeedback = 2
  None = None
CHECK_DEADLOCK FALSE
SYMMETRY Symmetry
PROPERTIES UndoReturnsToApplications
