SPECIFICATION Spec
CONSTANTS
  Jobs = {j1}
  Handlers = {r1}
  Ops = {"apply", "interview", "un_interview", "withdraw", "un_withdraw"}
  StaleTabs = FALSE
  ReattributeTo = {}
  Aborts = FALSE
  MaxNesting = 2
  MaxFeedback = 2
  None = None
CHECK_DEADLOCK FALSE
PROPERTIES UnInterviewStaysApplied
