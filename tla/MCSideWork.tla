------------------------------ MODULE MCSideWork ------------------------------
(* The two kinds of research beside the prep runs, speculative requests and *)
(* interview study material, for TLC.  They share the ledger's code and no  *)
(* state: a behaviour is of one of them.                                    *)
EXTENDS Speculative, InterviewStudy, TLC

VARIABLE side   \* the component this behaviour is of
sideVars == <<spVars, stVars, side>>

SideTypeOK == SpeculativeTypeOK /\ StudyTypeOK

SideInit ==
  /\ SpeculativeInit /\ StudyInit
  /\ side \in {"speculative", "study"}
  /\ side = "study" => spFaults = {"kill", "slow"}
SideNext ==
  \/ side = "speculative" /\ SpeculativeNext /\ UNCHANGED <<stVars, side>>
  \/ side = "study" /\ StudyNext /\ UNCHANGED <<spVars, side>>

\* nothing fair is enabled in a component that has not begun
SideSpec == SideInit /\ [][SideNext]_sideVars /\ SpeculativeFairness /\ StudyFairness

SpeculativeFaultSets == {{"kill", "slow"}, {"popen", "db_error", "restart"}}
=============================================================================
