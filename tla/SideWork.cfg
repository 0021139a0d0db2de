SPECIFICATION SideSpec
CONSTANTS
  Launches = {n1, n2}
  Approvers = {a1}
  SpFaults <- SpeculativeFaultSets
  NoLaunch = NoLaunch
  Tasks = {t1, t2}
  Podcasts = {deep_dive}
  DeepDive = deep_dive
  StFaults = {"kill", "popen", "slow", "restart", "lost_write"}
  NoTaskRef = NoTaskRef
INVARIANTS SideTypeOK ReadyHasBriefing SucceededMeansWritten
PROPERTIES ResearchEnds GuardIsReleased
CHECK_DEADLOCK FALSE
