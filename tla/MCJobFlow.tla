------------------------------- MODULE MCJobFlow -------------------------------
(* What moves jobs rows from outside the board, for TLC: rejection mails and *)
(* the intake of postings.  They meet only in the jobs table, where the      *)
(* intake writes rows before the board shows them and a rejection concerns   *)
(* rows after an application: a behaviour is of one of them.                 *)
EXTENDS Rejections, Intake, TLC

VARIABLE flow   \* the component this behaviour is of
flowVars == <<rejVars, intakeVars, flow>>

CONSTANTS j1, j2, acme, junior, senior

\* two rows of one firm: titles that a fuzzy match does not tell apart, one of
\* which names a seniority
FirmOf == j1 :> acme @@ j2 :> acme
TitleOf == j1 :> junior @@ j2 :> senior
LevelOf == junior :> {} @@ senior :> {"senior"}
FuzzyFits == {junior, senior} \X {junior, senior}
MailReadings == {{"reject"}, {"pause"}, {"reject", "ack"}}

IntakeFaultSets == {{"kill"}, {"race"}, {"score_error"}}

FlowTypeOK == RejectionsTypeOK /\ IntakeTypeOK

\* the component that does not move keeps one of its initial states
FlowInit ==
  /\ RejectionsInit /\ IntakeInit
  /\ flow \in {"rejections", "intake"}
  /\ flow # "intake" => intakeFaults = {"kill"}
  /\ flow # "rejections" =>
       mail = [m \in Mails |-> [firm |-> NoText, role |-> NoText, markers |-> {"reject"}]]

FlowNext ==
  \/ flow = "rejections" /\ RejectionsNext /\ UNCHANGED <<intakeVars, flow>>
  \/ flow = "intake" /\ IntakeNext /\ UNCHANGED <<rejVars, flow>>

\* IntakeFairness, where it is the intake that moves
FlowFairness ==
  /\ WF_intakeVars(flow = "intake" /\ StartTriage)
  /\ WF_intakeVars(flow = "intake" /\ Fetch)
  /\ WF_intakeVars(flow = "intake" /\ InsertPosting)
  /\ WF_intakeVars(flow = "intake" /\ ScorePostings)
  /\ \A f \in Forms : WF_intakeVars(flow = "intake" /\ (FormInsert(f) \/ FormResurface(f)))

FlowSpec == FlowInit /\ [][FlowNext]_flowVars /\ FlowFairness
================================================================================
