SPECIFICATION Spec
CONSTANTS
  Jobs = {j1}
  Handlers = {r1}
  Ops = {"promote", "interview", "offer", "withdraw", "withdraw_as_fallback", "mark_as_fallback", "un_interview", "un_withdraw", "promote_from_fallback", "apply", "un_apply", "waitlist", "reactivate", "reject", "un_reject", "not_selected", "un_not_selected"}
  StaleTabs = FALSE
  ReattributeTo = {}
  Aborts = FALSE
  MaxNesting = 3
  MaxFeedback = 2
  None = None
INVARIANTS TypeOK FolderFollowsStage MarkerMeansNotSelected FeedbackMatchesStage
PROPERTIES HistoryIsExact UndoReturnsToApplications
