----------------------------- MODULE JobHistory -----------------------------
(***************************************************************************)
(* The stage of a job once prep is over: the board's routes move it along,  *)
(* each move writes an audit_log row, and every undo looks the stage to     *)
(* return to up in those rows.  The materials folder follows the stage      *)
(* after the commit, and jobs.prep_folder_path is meant to follow it.       *)
(*                                                                         *)
(* A request is served in steps: the route reads the row and tests its      *)
(* guard, the action layer commits, then the folder operations run one by   *)
(* one.  Reasons, scores, notifications, file contents and the prep cycle   *)
(* (module PrepRuns) are left out; jobs are not synthetic.                  *)
(***************************************************************************)
EXTENDS Naturals, Sequences

CONSTANTS
  Jobs,           \* rows of the jobs table
  Handlers,       \* concurrent requests (threads of the web worker)
  Ops,            \* the routes the operator uses
  StaleTabs,      \* does the operator click on pages that are out of date?
  ReattributeTo,  \* stages of the jobs a rejection is reattributed to
  Aborts,         \* may a request be cut off, or a folder operation fail?
  MaxNesting,     \* bound: directories above a folder, companies/ not counted
  MaxFeedback,    \* bound: feedback_log rows of a job
  None            \* SQL NULL

PreApply == {"manual_review", "scored", "briefing_ready", "materials_drafted"}
Applications == {"applied", "interview", "offer"}
Stage == PreApply \cup Applications \cup
         {"waitlisted", "rejected", "not_selected", "withdrawn", "withdrawn_fallback"}

Moves == {"promote", "interview", "offer", "withdraw", "withdraw_as_fallback", "mark_as_fallback"}
LookedUp == {"applied", "interview", "not_selected", "withdrawn", "withdrawn_fallback"}

Undos == {"un_interview", "un_withdraw", "promote_from_fallback"}
AllOps == Moves \cup Undos \cup
          {"apply", "un_apply", "waitlist", "reactivate", "reject", "un_reject",
           "not_selected", "un_not_selected", "reattribute"}

Dirs == {"_applied", "_waitlisted", "_rejected"}
Place == Seq(Dirs)
Top == << >>

ASSUME HistoryAssumption ==
  /\ Ops \subseteq AllOps
  /\ StaleTabs \in BOOLEAN /\ Aborts \in BOOLEAN
  /\ ReattributeTo \subseteq
       Applications \cup {"withdrawn", "rejected", "not_selected"}
  /\ MaxNesting \in Nat /\ MaxFeedback \in Nat
  /\ None \notin Stage \cup Jobs \cup Place

VARIABLES
  stage,     \* jobs.stage
  prior,     \* per job and stage s an undo looks up: old_value of the job's
             \* latest audit row with new_value s, or None
  recent,    \* jobs with a row '-> applied' of the last 30 seconds
  path,      \* jobs.prep_folder_path: directories under companies/, or None
  place,     \* where the job's folder is on disk, or None
  marked,    \* jobs whose folder holds a NOT_SELECTED_*.txt marker
  feedback,  \* number of the job's feedback_log rows
  req        \* the request each handler thread is serving

rowVars == <<stage, prior, recent>>
vars == <<stage, prior, recent, path, place, marked, feedback, req>>

FsOp == [do : {"move", "mark", "unmark", "path"}, job : Jobs, at : Place, to : Place]
Idle == [pc |-> "idle", op |-> "apply", job |-> None, target |-> None,
         seen |-> "scored", targetSeen |-> "scored", folder |-> None, todo |-> << >>]
Request == [pc : {"idle", "commit", "look", "fs"}, op : AllOps,
            job : Jobs \cup {None}, target : Jobs \cup {None},
            seen : Stage, targetSeen : Stage, folder : Place \cup {None}, todo : Seq(FsOp)]

TypeOK ==
  /\ stage \in [Jobs -> Stage]
  /\ prior \in [Jobs -> [LookedUp -> Stage \cup {None}]]
  /\ recent \subseteq Jobs
  /\ path \in [Jobs -> Place \cup {None}]
  /\ place \in [Jobs -> Place \cup {None}]
  /\ marked \subseteq Jobs
  /\ feedback \in [Jobs -> 0..MaxFeedback]
  /\ req \in [Handlers -> Request]

\* jobs as triage and prep leave them
Init ==
  /\ stage \in [Jobs -> PreApply]
  /\ prior = [j \in Jobs |-> [s \in LookedUp |-> None]]
  /\ recent = {}
  /\ path = [j \in Jobs |-> IF stage[j] \in {"briefing_ready", "materials_drafted"}
                            THEN Top ELSE None]
  /\ place = path
  /\ marked = {}
  /\ feedback = [j \in Jobs |-> 0]
  /\ req = [r \in Handlers |-> Idle]

-----------------------------------------------------------------------------
(* The routes: what the tabs offer, and what the handlers' guards let pass. *)

Offered(op) ==
  CASE op = "promote" -> {"manual_review", "scored"}
    [] op = "waitlist" -> PreApply
    [] op = "reject" -> PreApply \cup {"waitlisted", "withdrawn_fallback"}
    [] op = "apply" -> {"briefing_ready", "materials_drafted"}
    [] op = "un_apply" -> {"applied"}
    [] op = "interview" -> {"applied", "offer"}
    [] op = "offer" -> {"applied", "interview"}
    [] op = "un_interview" -> {"interview"}
    [] op \in {"withdraw", "withdraw_as_fallback", "not_selected"} -> Applications
    [] op = "reactivate" -> {"waitlisted"}
    [] op = "un_reject" -> {"rejected"}
    [] op \in {"un_withdraw", "mark_as_fallback"} -> {"withdrawn"}
    [] op = "promote_from_fallback" -> {"withdrawn_fallback"}
    [] op \in {"un_not_selected", "reattribute"} -> {"not_selected"}

\* mutant: the route's name is taken for the stage's
TargetIsOp(op) == op

\* where a forward move leads
Target(op) ==
  CASE op = "promote" -> "scored"
    [] op = "withdraw" -> "withdrawn"
    [] op \in {"withdraw_as_fallback", "mark_as_fallback"} -> "withdrawn_fallback"
    [] op = "waitlist" -> "waitlisted"
    [] op = "reject" -> "rejected"
    [] op = "apply" -> "applied"
    [] OTHER -> op

\* these routes test only that the job is not there already
Unguarded == {"waitlist", "reject", "apply", "interview", "offer", "withdraw"}

Accepted(op) == IF op \in Unguarded THEN Stage \ {Target(op)} ELSE Offered(op)

Read(r, op, j, k) ==
  /\ req[r].pc = "idle" /\ op \in Ops
  /\ stage[j] \in Accepted(op)
  /\ StaleTabs \/ stage[j] \in Offered(op)
  /\ op = "un_apply" => j \in recent
  /\ IF op = "reattribute" THEN k # j /\ stage[k] \in ReattributeTo ELSE k = j
  /\ op = "reject" => /\ feedback[j] < MaxFeedback
                      /\ path[j] # None => Len(path[j]) < MaxNesting
  /\ req' = [req EXCEPT ![r] = [pc |-> "commit", op |-> op, job |-> j, target |-> k,
                                seen |-> stage[j], targetSeen |-> stage[k],
                                folder |-> path[j], todo |-> << >>]]
  /\ UNCHANGED <<rowVars, path, place, marked, feedback>>

-----------------------------------------------------------------------------
(* The commits of the action layer. *)

\* the stage UPDATE and its audit row, one transaction
Record(j, old, new) ==
  /\ stage' = [stage EXCEPT ![j] = new]
  /\ prior' = IF new \in LookedUp THEN [prior EXCEPT ![j][new] = old] ELSE prior
  /\ recent' = IF new = "applied" THEN recent \cup {j} ELSE recent

\* the audit lookup of the undos
Restored(j, s, default) == IF prior[j][s] = None THEN default ELSE prior[j][s]

\* the folder operations that follow the commit; none left ends the request
Continue(r, todo) ==
  req' = [req EXCEPT ![r] = IF todo = << >> THEN Idle
                            ELSE [@ EXCEPT !.pc = "fs", !.todo = todo]]

Fs(do, j, at, to) == [do |-> do, job |-> j, at |-> at, to |-> to]

\* os.path.isdir(p)
IsDir(j, p) == p # None /\ place[j] = p

\* path is updated in the commit, the folder moves after it
Relocate(r, j, from, to) ==
  IF IsDir(j, from)
  THEN path' = [path EXCEPT ![j] = to] /\ Continue(r, <<Fs("move", j, from, to)>>)
  ELSE path' = path /\ Continue(r, << >>)

Committing(r, op) == req[r].pc = "commit" /\ req[r].op = op

Move(r) ==
  /\ \E op \in Moves : Committing(r, op)
  /\ Record(req[r].job, IF req[r].op = "mark_as_fallback" THEN "withdrawn" ELSE req[r].seen,
            Target(req[r].op))
  /\ Continue(r, << >>)
  /\ UNCHANGED <<path, place, marked, feedback>>

\* the folder is looked up after the commit
Apply(r) ==
  /\ Committing(r, "apply")
  /\ Record(req[r].job, req[r].seen, "applied")
  /\ req' = [req EXCEPT ![r].pc = "look"]
  /\ UNCHANGED <<path, place, marked, feedback>>

MoveFolderToApplied(r) ==
  LET j == req[r].job IN
  /\ req[r].pc = "look"
  /\ Continue(r, IF IsDir(j, path[j])
                 THEN <<Fs("move", j, path[j], <<"_applied">>),
                        Fs("path", j, path[j], <<"_applied">>)>>
                 ELSE << >>)
  /\ UNCHANGED <<rowVars, path, place, marked, feedback>>

\* mutant: the folder stays in _applied/
UnApplyInPlace(r) ==
  LET j == req[r].job IN
  /\ Committing(r, "un_apply")
  /\ Record(j, "applied", Restored(j, "applied", "materials_drafted"))
  /\ Relocate(r, j, path[j], path[j])
  /\ UNCHANGED <<place, marked, feedback>>

UnApply(r) ==
  LET j == req[r].job IN
  /\ Committing(r, "un_apply")
  /\ Record(j, "applied", Restored(j, "applied", "materials_drafted"))
  /\ Relocate(r, j, path[j], Top)
  /\ UNCHANGED <<place, marked, feedback>>

Waitlist(r) ==
  LET j == req[r].job IN
  /\ Committing(r, "waitlist")
  /\ Record(j, req[r].seen, "waitlisted")
  /\ Relocate(r, j, path[j], <<"_waitlisted">>)
  /\ UNCHANGED <<place, marked, feedback>>

Reactivate(r) ==
  LET j == req[r].job IN
  /\ Committing(r, "reactivate")
  /\ Record(j, "waitlisted", IF IsDir(j, path[j]) THEN "materials_drafted" ELSE "scored")
  /\ Relocate(r, j, path[j], Top)
  /\ UNCHANGED <<place, marked, feedback>>

\* _rejected/ is a sibling of the folder, wherever that is
Reject(r) ==
  LET j == req[r].job IN
  /\ Committing(r, "reject")
  /\ Record(j, req[r].seen, "rejected")
  /\ feedback' = [feedback EXCEPT ![j] = IF @ < MaxFeedback THEN @ + 1 ELSE @]
  /\ Relocate(r, j, path[j], IF path[j] = None THEN Top ELSE Append(path[j], "_rejected"))
  /\ UNCHANGED <<place, marked>>

\* mutant: the feedback row outlives the rejection
UnRejectKeepsFeedback(r) ==
  LET j == req[r].job IN
  /\ Committing(r, "un_reject")
  /\ Record(j, "rejected", "scored")
  /\ Relocate(r, j, req[r].folder, Top)
  /\ UNCHANGED <<place, marked, feedback>>

\* the folder is the one the route read
UnReject(r) ==
  LET j == req[r].job IN
  /\ Committing(r, "un_reject")
  /\ Record(j, "rejected", "scored")
  /\ feedback' = [feedback EXCEPT ![j] = 0]
  /\ Relocate(r, j, req[r].folder, Top)
  /\ UNCHANGED <<place, marked>>

\* mutant: un_interview's audit row is a copy of un_withdraw's
UndoAsUnWithdraw(r) ==
  LET j == req[r].job
      from == IF req[r].op = "un_withdraw" THEN "withdrawn" ELSE "interview" IN
  /\ Committing(r, "un_withdraw") \/ Committing(r, "un_interview")
  /\ Record(j, "withdrawn", Restored(j, from, "applied"))
  /\ Continue(r, << >>)
  /\ UNCHANGED <<path, place, marked, feedback>>

\* un_withdraw, un_interview
Undo(r) ==
  LET j == req[r].job
      from == IF req[r].op = "un_withdraw" THEN "withdrawn" ELSE "interview" IN
  /\ Committing(r, "un_withdraw") \/ Committing(r, "un_interview")
  /\ Record(j, from, Restored(j, from, "applied"))
  /\ Continue(r, << >>)
  /\ UNCHANGED <<path, place, marked, feedback>>

\* mutant: the lookup stops at the first row
OneHop(j) == Restored(j, "withdrawn_fallback", "applied")

\* a row that went through 'withdrawn' is followed one hop further
PriorToFallback(j) ==
  LET s == Restored(j, "withdrawn_fallback", "applied")
  IN IF s = "withdrawn" THEN Restored(j, "withdrawn", "applied") ELSE s

PromoteFromFallback(r) ==
  LET j == req[r].job IN
  /\ Committing(r, "promote_from_fallback")
  /\ Record(j, "withdrawn_fallback", PriorToFallback(j))
  /\ Continue(r, << >>)
  /\ UNCHANGED <<path, place, marked, feedback>>

MarkerOps(j) == IF IsDir(j, path[j]) THEN <<Fs("mark", j, path[j], path[j])>> ELSE << >>

\* mutant: the markers stay
NoUnmarkOps(j, p) == << >>

\* the markers are listed at the commit, in the folder the route read
UnmarkOps(j, p) == IF IsDir(j, p) /\ j \in marked THEN <<Fs("unmark", j, p, p)>> ELSE << >>

NotSelected(r) ==
  /\ Committing(r, "not_selected")
  /\ Record(req[r].job, req[r].seen, "not_selected")
  /\ Continue(r, MarkerOps(req[r].job))
  /\ UNCHANGED <<path, place, marked, feedback>>

UnNotSelected(r) ==
  LET j == req[r].job IN
  /\ Committing(r, "un_not_selected")
  /\ Record(j, "not_selected", Restored(j, "not_selected", "applied"))
  /\ Continue(r, UnmarkOps(j, req[r].folder))
  /\ UNCHANGED <<path, place, marked, feedback>>

\* mutant: the target's old stage is read after its UPDATE
ReattributeReadsLate(r) ==
  LET j == req[r].job
      k == req[r].target
      back == Restored(j, "not_selected", "applied") IN
  /\ Committing(r, "reattribute")
  /\ stage' = [stage EXCEPT ![j] = back, ![k] = "not_selected"]
  /\ prior' = [prior EXCEPT ![j][back] = "not_selected", ![k]["not_selected"] = "not_selected"]
  /\ recent' = IF back = "applied" THEN recent \cup {j} ELSE recent
  /\ Continue(r, UnmarkOps(j, req[r].folder) \o MarkerOps(k))
  /\ UNCHANGED <<path, place, marked, feedback>>

\* both jobs in one transaction, then the folder operations of both
Reattribute(r) ==
  LET j == req[r].job
      k == req[r].target
      back == Restored(j, "not_selected", "applied") IN
  /\ Committing(r, "reattribute")
  /\ stage' = [stage EXCEPT ![j] = back, ![k] = "not_selected"]
  /\ prior' = [prior EXCEPT
                 ![j] = IF back \in LookedUp THEN [@ EXCEPT ![back] = "not_selected"] ELSE @,
                 ![k] = [@ EXCEPT !["not_selected"] = req[r].targetSeen]]
  /\ recent' = IF back = "applied" THEN recent \cup {j} ELSE recent
  /\ Continue(r, UnmarkOps(j, req[r].folder) \o MarkerOps(k))
  /\ UNCHANGED <<path, place, marked, feedback>>

Commit(r) ==
  \/ Move(r) \/ Apply(r) \/ UnApply(r) \/ Waitlist(r) \/ Reactivate(r) \/ Reject(r)
  \/ UnReject(r) \/ Undo(r) \/ PromoteFromFallback(r) \/ NotSelected(r)
  \/ UnNotSelected(r) \/ Reattribute(r)

-----------------------------------------------------------------------------
(* The folder operations, and what may go wrong. *)

FsStep(r) ==
  LET o == Head(req[r].todo) IN
  /\ req[r].pc = "fs"
  /\ o.do = "path" \/ place[o.job] = o.at
  /\ o.do = "unmark" => o.job \in marked
  /\ place' = IF o.do = "move" THEN [place EXCEPT ![o.job] = o.to] ELSE place
  /\ path' = IF o.do = "path" THEN [path EXCEPT ![o.job] = o.to] ELSE path
  /\ marked' = CASE o.do = "mark" -> marked \cup {o.job}
                 [] o.do = "unmark" -> marked \ {o.job}
                 [] OTHER -> marked
  /\ Continue(r, Tail(req[r].todo))
  /\ UNCHANGED <<rowVars, feedback>>

\* the folder or the marker is gone: the operation raises, the rest is dropped
FsFails(r) ==
  LET o == Head(req[r].todo) IN
  /\ req[r].pc = "fs"
  /\ o.do # "path"
  /\ place[o.job] # o.at \/ (o.do = "unmark" /\ o.job \notin marked)
  /\ req' = [req EXCEPT ![r] = Idle]
  /\ UNCHANGED <<rowVars, path, place, marked, feedback>>

\* the container stops, or the disk refuses a folder operation
Abort(r) ==
  /\ Aborts /\ req[r].pc # "idle"
  /\ req' = [req EXCEPT ![r] = Idle]
  /\ UNCHANGED <<rowVars, path, place, marked, feedback>>

\* thirty seconds pass
WindowCloses(j) ==
  /\ j \in recent
  /\ recent' = recent \ {j}
  /\ UNCHANGED <<stage, prior, path, place, marked, feedback, req>>

Next ==
  \/ \E r \in Handlers :
       \/ \E op \in Ops, j, k \in Jobs : Read(r, op, j, k)
       \/ Commit(r)
       \/ MoveFolderToApplied(r) \/ FsStep(r) \/ FsFails(r) \/ Abort(r)
  \/ \E j \in Jobs : WindowCloses(j)

Spec == Init /\ [][Next]_vars

-----------------------------------------------------------------------------
(* What the history, the folders and the feedback promise. *)

Quiet == \A r \in Handlers : req[r].pc = "idle"

\* The audit row of every stage change names the stage the job really left,
\* although most undos and some moves write that stage as a literal: with one
\* request at a time, whatever page it comes from.
HistoryIsExact ==
  [][\A j \in Jobs : stage'[j] \in LookedUp \ {stage[j]} => prior'[j][stage'[j]] = stage[j]]_vars

\* Undoing a withdrawal, a fallback or a company rejection puts the job back
\* among the applications, whatever chain of moves and undos led there; in
\* particular a fallback never falls back to 'withdrawn'.
UndoReturnsToApplications ==
  [][\A r \in Handlers, j \in Jobs :
       /\ req[r].pc = "commit" /\ req'[r].pc # "commit" /\ req[r].job = j
       /\ req[r].op \in {"un_withdraw", "promote_from_fallback", "un_not_selected", "reattribute"}
       /\ stage' # stage
       => stage'[j] \in Applications]_vars

\* Between requests jobs.prep_folder_path names the place the folder is at, and
\* that is where the stage wants it: directly under companies/ before the
\* application, in _waitlisted/, or in a _rejected/.
FolderFollowsStage ==
  Quiet => \A j \in Jobs :
    /\ path[j] = place[j]
    /\ place[j] # None =>
         /\ stage[j] \in PreApply => place[j] = Top
         /\ stage[j] = "waitlisted" => place[j] = <<"_waitlisted">>
         /\ stage[j] = "rejected" <=> place[j] # Top /\ place[j][Len(place[j])] = "_rejected"

\* Between requests a NOT_SELECTED marker lies only in the folder of a job at
\* not_selected.
MarkerMeansNotSelected ==
  Quiet => \A j \in marked : stage[j] = "not_selected"

\* The scorer learns from a job exactly when the operator has rejected it.
FeedbackMatchesStage ==
  \A j \in Jobs : feedback[j] = IF stage[j] = "rejected" THEN 1 ELSE 0

\* un_interview: "Row stays on Applied tab".
UnInterviewStaysApplied ==
  [][\A r \in Handlers : req[r].op = "un_interview" /\ Undo(r)
       => stage'[req[r].job] \in Applications]_vars
=============================================================================
