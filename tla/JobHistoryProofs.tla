-------------------------- MODULE JobHistoryProofs --------------------------
(***************************************************************************)
(* What holds of the job history for any jobs, requests and routes: the    *)
(* types, the stage an undo restores, and, while the requests in progress  *)
(* are about different jobs, the exactness of the audit rows the undos     *)
(* look up, the feedback rows, and where the folders and the markers are.  *)
(***************************************************************************)
EXTENDS JobHistory, TLAPS

(* The types, strengthened: a request in progress names two jobs, and one   *)
(* at its folder operations has some left.                                  *)
ServesAJob ==
  \A r \in Handlers : req[r].pc # "idle" =>
    /\ req[r].job \in Jobs /\ req[r].target \in Jobs
    /\ req[r].pc = "fs" => req[r].todo # << >>

TypeInv == TypeOK /\ ServesAJob

-----------------------------------------------------------------------------
(* What the building blocks of the actions preserve. *)

\* A request that goes on with typed folder operations stays typed.
LEMMA ContinueIsTyped ==
  ASSUME TypeInv, NEW r \in Handlers, req[r].pc # "idle",
         NEW todo \in Seq(FsOp), Continue(r, todo)
  PROVE  req' \in [Handlers -> Request] /\ ServesAJob'
<1>1. Idle \in Request
  BY DEF Idle, Request, Stage, PreApply, AllOps
<1>2. /\ req \in [Handlers -> Request]
      /\ req[r].job \in Jobs /\ req[r].target \in Jobs
  BY DEF TypeInv, TypeOK, ServesAJob
<1>3. CASE todo = << >>
  <2>1. req' = [req EXCEPT ![r] = Idle]
    BY <1>3 DEF Continue
  <2>2. req' \in [Handlers -> Request]
    BY <1>1, <1>2, <2>1
  <2>3. ServesAJob'
    BY <1>2, <2>1 DEF TypeInv, ServesAJob, Idle
  <2> QED BY <2>2, <2>3
<1>4. CASE todo # << >>
  <2>1. req' = [req EXCEPT ![r] = [@ EXCEPT !.pc = "fs", !.todo = todo]]
    BY <1>4 DEF Continue
  <2>2. [req[r] EXCEPT !.pc = "fs", !.todo = todo] \in Request
    BY <1>2 DEF Request
  <2>3. req' \in [Handlers -> Request]
    BY <1>2, <2>1, <2>2
  <2>4. ServesAJob'
    BY <1>2, <1>4, <2>1 DEF TypeInv, ServesAJob, Request
  <2> QED BY <2>3, <2>4
<1> QED BY <1>3, <1>4

\* A stage write with its audit row keeps the rows typed.
LEMMA RecordIsTyped ==
  ASSUME TypeInv, NEW j \in Jobs, NEW old \in Stage, NEW new \in Stage,
         Record(j, old, new)
  PROVE  /\ stage' \in [Jobs -> Stage]
         /\ prior' \in [Jobs -> [LookedUp -> Stage \cup {None}]]
         /\ recent' \subseteq Jobs
BY DEF TypeInv, TypeOK, Record

\* The audit lookup yields a stage.
LEMMA RestoredIsStage ==
  ASSUME TypeInv, NEW j \in Jobs, NEW s \in LookedUp, NEW default \in Stage
  PROVE  Restored(j, s, default) \in Stage
BY DEF TypeInv, TypeOK, Restored

\* A folder operation between two places is one.
LEMMA FsIsTyped ==
  ASSUME NEW do \in {"move", "mark", "unmark", "path"}, NEW j \in Jobs,
         NEW at \in Place, NEW to \in Place
  PROVE  Fs(do, j, at, to) \in FsOp
BY DEF Fs, FsOp

\* A relocation keeps the path and the request typed.
LEMMA RelocateIsTyped ==
  ASSUME TypeInv, NEW r \in Handlers, req[r].pc # "idle", NEW j \in Jobs,
         NEW from \in Place \cup {None}, NEW to \in Place, Relocate(r, j, from, to)
  PROVE  /\ path' \in [Jobs -> Place \cup {None}]
         /\ req' \in [Handlers -> Request] /\ ServesAJob'
<1>1. CASE IsDir(j, from)
  <2>1. from \in Place
    BY <1>1 DEF IsDir
  <2>2. Fs("move", j, from, to) \in FsOp
    BY <2>1, FsIsTyped
  <2>3. <<Fs("move", j, from, to)>> \in Seq(FsOp)
    BY <2>2
  <2>4. path' = [path EXCEPT ![j] = to] /\ Continue(r, <<Fs("move", j, from, to)>>)
    BY <1>1 DEF Relocate
  <2>5. path' \in [Jobs -> Place \cup {None}]
    BY <2>4 DEF TypeInv, TypeOK
  <2> QED BY <2>3, <2>4, <2>5, ContinueIsTyped
<1>2. CASE ~IsDir(j, from)
  <2>1. path' = path /\ Continue(r, << >>)
    BY <1>2 DEF Relocate
  <2>2. << >> \in Seq(FsOp)
    OBVIOUS
  <2>3. path' \in [Jobs -> Place \cup {None}]
    BY <2>1 DEF TypeInv, TypeOK
  <2> QED BY <2>1, <2>2, <2>3, ContinueIsTyped
<1> QED BY <1>1, <1>2

\* The marker operations are typed.
LEMMA MarkerOpsAreTyped ==
  ASSUME TypeInv, NEW j \in Jobs, NEW p \in Place \cup {None}
  PROVE  MarkerOps(j) \in Seq(FsOp) /\ UnmarkOps(j, p) \in Seq(FsOp)
<1>1. path[j] \in Place \cup {None}
  BY DEF TypeInv, TypeOK
<1>2. MarkerOps(j) \in Seq(FsOp)
  <2>1. CASE IsDir(j, path[j])
    <3>1. path[j] \in Place
      BY <1>1, <2>1 DEF IsDir
    <3>2. Fs("mark", j, path[j], path[j]) \in FsOp
      BY <3>1, FsIsTyped
    <3> QED BY <2>1, <3>2 DEF MarkerOps
  <2>2. CASE ~IsDir(j, path[j])
    BY <2>2 DEF MarkerOps
  <2> QED BY <2>1, <2>2
<1>3. UnmarkOps(j, p) \in Seq(FsOp)
  <2>1. CASE IsDir(j, p) /\ j \in marked
    <3>1. p \in Place
      BY <2>1 DEF IsDir
    <3>2. Fs("unmark", j, p, p) \in FsOp
      BY <3>1, FsIsTyped
    <3> QED BY <2>1, <3>2 DEF UnmarkOps
  <2>2. CASE ~(IsDir(j, p) /\ j \in marked)
    BY <2>2 DEF UnmarkOps
  <2> QED BY <2>1, <2>2
<1> QED BY <1>2, <1>3

-----------------------------------------------------------------------------
(* The types are an invariant. *)

\* Jobs as triage and prep leave them are typed, and no request is in progress.
LEMMA InitIsTyped == Init => TypeInv
<1> SUFFICES ASSUME Init PROVE TypeInv
  OBVIOUS
<1>1. Idle \in Request
  BY DEF Idle, Request, Stage, PreApply, AllOps
<1>2. Top \in Place
  BY DEF Top, Place
<1>3. TypeOK
  BY <1>1, <1>2, HistoryAssumption DEF Init, TypeOK, Stage
<1>4. ServesAJob
  BY DEF Init, ServesAJob, Idle
<1> QED BY <1>3, <1>4 DEF TypeInv

\* A route that reads a row and passes its guard leaves a typed request.
LEMMA ReadIsTyped ==
  ASSUME TypeInv, NEW r \in Handlers, NEW op \in Ops, NEW j \in Jobs, NEW k \in Jobs,
         Read(r, op, j, k)
  PROVE  TypeInv'
<1> DEFINE new == [pc |-> "commit", op |-> op, job |-> j, target |-> k,
                   seen |-> stage[j], targetSeen |-> stage[k],
                   folder |-> path[j], todo |-> << >>]
<1>1. new \in Request
  BY HistoryAssumption DEF TypeInv, TypeOK, Request
<1>2. req' = [req EXCEPT ![r] = new]
  BY DEF Read
<1>3. req' \in [Handlers -> Request]
  BY <1>1, <1>2 DEF TypeInv, TypeOK
<1>4. ServesAJob'
  BY <1>2 DEF TypeInv, TypeOK, ServesAJob
<1> QED BY <1>3, <1>4 DEF TypeInv, TypeOK, Read, rowVars

\* The commits: each is a stage write, perhaps a relocation, and a request that
\* ends or goes on with typed folder operations.
LEMMA CommitIsTyped ==
  ASSUME TypeInv, NEW r \in Handlers, Commit(r)
  PROVE  TypeInv'
<1> DEFINE j == req[r].job
<1>1. /\ req \in [Handlers -> Request]
      /\ path \in [Jobs -> Place \cup {None}]
      /\ feedback \in [Jobs -> 0..MaxFeedback] /\ MaxFeedback \in Nat
  BY HistoryAssumption DEF TypeInv, TypeOK
<1>2. req[r].pc = "commit"
  BY DEF Commit, Committing, Move, Apply, UnApply, Waitlist, Reactivate, Reject, UnReject,
         Undo, PromoteFromFallback, NotSelected, UnNotSelected, Reattribute
<1>3. req[r].pc # "idle" /\ j \in Jobs /\ req[r].target \in Jobs
  BY <1>2 DEF TypeInv, ServesAJob
<1>4. /\ req[r].seen \in Stage /\ req[r].targetSeen \in Stage
      /\ req[r].folder \in Place \cup {None}
      /\ path[j] \in Place \cup {None}
  BY <1>1, <1>3 DEF Request
<1>5. << >> \in Seq(FsOp)
  OBVIOUS
<1>6. Top \in Place /\ <<"_waitlisted">> \in Place
  BY DEF Top, Place, Dirs
<1> HIDE DEF j
<1>7. CASE Move(r)
  <2>1. PICK op \in Moves : Committing(r, op)
    BY <1>7 DEF Move
  <2>2. Target(req[r].op) \in Stage
    BY <2>1 DEF Committing, Moves, Target, Stage, PreApply, Applications
  <2>3. (IF req[r].op = "mark_as_fallback" THEN "withdrawn" ELSE req[r].seen) \in Stage
    BY <1>4 DEF Stage
  <2>4. /\ stage' \in [Jobs -> Stage]
        /\ prior' \in [Jobs -> [LookedUp -> Stage \cup {None}]]
        /\ recent' \subseteq Jobs
    BY <1>7, <2>2, <2>3, <1>3, RecordIsTyped DEF Move, j
  <2>5. req' \in [Handlers -> Request] /\ ServesAJob'
    BY <1>7, <1>3, <1>5, ContinueIsTyped DEF Move
  <2> QED BY <2>4, <2>5, <1>7 DEF TypeInv, TypeOK, Move
<1>8. CASE Apply(r)
  <2>1. /\ stage' \in [Jobs -> Stage]
        /\ prior' \in [Jobs -> [LookedUp -> Stage \cup {None}]]
        /\ recent' \subseteq Jobs
    BY <1>8, <1>3, <1>4, RecordIsTyped DEF Apply, j, Stage, Applications
  <2>2. req' \in [Handlers -> Request]
    BY <1>8, <1>1 DEF Apply, Request
  <2>3. ServesAJob'
    BY <1>8, <1>1, <1>3 DEF Apply, ServesAJob, TypeInv, j
  <2> QED BY <2>1, <2>2, <2>3, <1>8 DEF TypeInv, TypeOK, Apply
<1>9. CASE UnApply(r)
  <2>1. Restored(j, "applied", "materials_drafted") \in Stage
    BY <1>3, RestoredIsStage DEF LookedUp, Stage, PreApply
  <2>2. /\ stage' \in [Jobs -> Stage]
        /\ prior' \in [Jobs -> [LookedUp -> Stage \cup {None}]]
        /\ recent' \subseteq Jobs
    BY <1>9, <1>3, <2>1, RecordIsTyped DEF UnApply, j, Stage, Applications
  <2>3. /\ path' \in [Jobs -> Place \cup {None}]
        /\ req' \in [Handlers -> Request] /\ ServesAJob'
    BY <1>9, <1>3, <1>4, <1>6, RelocateIsTyped DEF UnApply, j
  <2> QED BY <2>2, <2>3, <1>9 DEF TypeInv, TypeOK, UnApply
<1>10. CASE Waitlist(r)
  <2>1. /\ stage' \in [Jobs -> Stage]
        /\ prior' \in [Jobs -> [LookedUp -> Stage \cup {None}]]
        /\ recent' \subseteq Jobs
    BY <1>10, <1>3, <1>4, RecordIsTyped DEF Waitlist, j, Stage
  <2>2. /\ path' \in [Jobs -> Place \cup {None}]
        /\ req' \in [Handlers -> Request] /\ ServesAJob'
    BY <1>10, <1>3, <1>4, <1>6, RelocateIsTyped DEF Waitlist, j
  <2> QED BY <2>1, <2>2, <1>10 DEF TypeInv, TypeOK, Waitlist
<1>11. CASE Reactivate(r)
  <2>1. (IF IsDir(j, path[j]) THEN "materials_drafted" ELSE "scored") \in Stage
    BY DEF Stage, PreApply
  <2>2. /\ stage' \in [Jobs -> Stage]
        /\ prior' \in [Jobs -> [LookedUp -> Stage \cup {None}]]
        /\ recent' \subseteq Jobs
    BY <1>11, <1>3, <2>1, RecordIsTyped DEF Reactivate, j, Stage
  <2>3. /\ path' \in [Jobs -> Place \cup {None}]
        /\ req' \in [Handlers -> Request] /\ ServesAJob'
    BY <1>11, <1>3, <1>4, <1>6, RelocateIsTyped DEF Reactivate, j
  <2> QED BY <2>2, <2>3, <1>11 DEF TypeInv, TypeOK, Reactivate
<1>12. CASE Reject(r)
  <2>1. /\ stage' \in [Jobs -> Stage]
        /\ prior' \in [Jobs -> [LookedUp -> Stage \cup {None}]]
        /\ recent' \subseteq Jobs
    BY <1>12, <1>3, <1>4, RecordIsTyped DEF Reject, j, Stage
  <2>2. (IF path[j] = None THEN Top ELSE Append(path[j], "_rejected")) \in Place
    BY <1>4, <1>6 DEF Place, Dirs
  <2>3. /\ path' \in [Jobs -> Place \cup {None}]
        /\ req' \in [Handlers -> Request] /\ ServesAJob'
    BY <1>12, <1>3, <1>4, <2>2, RelocateIsTyped DEF Reject, j
  <2>4. feedback' \in [Jobs -> 0..MaxFeedback]
    BY <1>12, <1>1, <1>3 DEF Reject, j
  <2> QED BY <2>1, <2>3, <2>4, <1>12 DEF TypeInv, TypeOK, Reject
<1>13. CASE UnReject(r)
  <2>1. /\ stage' \in [Jobs -> Stage]
        /\ prior' \in [Jobs -> [LookedUp -> Stage \cup {None}]]
        /\ recent' \subseteq Jobs
    BY <1>13, <1>3, RecordIsTyped DEF UnReject, j, Stage, PreApply
  <2>2. /\ path' \in [Jobs -> Place \cup {None}]
        /\ req' \in [Handlers -> Request] /\ ServesAJob'
    BY <1>13, <1>3, <1>4, <1>6, RelocateIsTyped DEF UnReject, j
  <2>3. feedback' \in [Jobs -> 0..MaxFeedback]
    BY <1>13, <1>1, <1>3 DEF UnReject, j
  <2> QED BY <2>1, <2>2, <2>3, <1>13 DEF TypeInv, TypeOK, UnReject
<1>14. CASE Undo(r)
  <2> DEFINE from == IF req[r].op = "un_withdraw" THEN "withdrawn" ELSE "interview"
  <2>1. from \in LookedUp /\ from \in Stage /\ "applied" \in Stage
    BY DEF LookedUp, Stage, Applications
  <2>2. Restored(j, from, "applied") \in Stage
    BY <1>3, <2>1, RestoredIsStage
  <2>3. Record(j, from, Restored(j, from, "applied")) /\ Continue(r, << >>)
    BY <1>14 DEF Undo, j
  <2> HIDE DEF from
  <2>4. /\ stage' \in [Jobs -> Stage]
        /\ prior' \in [Jobs -> [LookedUp -> Stage \cup {None}]]
        /\ recent' \subseteq Jobs
    BY <1>3, <2>1, <2>2, <2>3, RecordIsTyped
  <2>5. req' \in [Handlers -> Request] /\ ServesAJob'
    BY <2>3, <1>3, <1>5, ContinueIsTyped
  <2> QED BY <2>4, <2>5, <1>14 DEF TypeInv, TypeOK, Undo
<1>15. CASE PromoteFromFallback(r)
  <2>1. "applied" \in Stage /\ "withdrawn_fallback" \in Stage
        /\ "withdrawn_fallback" \in LookedUp /\ "withdrawn" \in LookedUp
    BY DEF LookedUp, Stage, Applications
  <2>2. PriorToFallback(j) \in Stage
    BY <1>3, <2>1, RestoredIsStage DEF PriorToFallback
  <2>3. /\ stage' \in [Jobs -> Stage]
        /\ prior' \in [Jobs -> [LookedUp -> Stage \cup {None}]]
        /\ recent' \subseteq Jobs
    BY <1>15, <1>3, <2>1, <2>2, RecordIsTyped DEF PromoteFromFallback, j
  <2>4. req' \in [Handlers -> Request] /\ ServesAJob'
    BY <1>15, <1>3, <1>5, ContinueIsTyped DEF PromoteFromFallback
  <2> QED BY <2>3, <2>4, <1>15 DEF TypeInv, TypeOK, PromoteFromFallback
<1>16. CASE NotSelected(r)
  <2>1. /\ stage' \in [Jobs -> Stage]
        /\ prior' \in [Jobs -> [LookedUp -> Stage \cup {None}]]
        /\ recent' \subseteq Jobs
    BY <1>16, <1>3, <1>4, RecordIsTyped DEF NotSelected, j, Stage
  <2>2. MarkerOps(j) \in Seq(FsOp)
    BY <1>3, MarkerOpsAreTyped
  <2>3. req' \in [Handlers -> Request] /\ ServesAJob'
    BY <1>16, <1>3, <2>2, ContinueIsTyped DEF NotSelected, j
  <2> QED BY <2>1, <2>3, <1>16 DEF TypeInv, TypeOK, NotSelected
<1>17. CASE UnNotSelected(r)
  <2>1. Restored(j, "not_selected", "applied") \in Stage
    BY <1>3, RestoredIsStage DEF LookedUp, Stage, Applications
  <2>2. /\ stage' \in [Jobs -> Stage]
        /\ prior' \in [Jobs -> [LookedUp -> Stage \cup {None}]]
        /\ recent' \subseteq Jobs
    BY <1>17, <1>3, <2>1, RecordIsTyped DEF UnNotSelected, j, Stage
  <2>3. UnmarkOps(j, req[r].folder) \in Seq(FsOp)
    BY <1>3, <1>4, MarkerOpsAreTyped
  <2>4. req' \in [Handlers -> Request] /\ ServesAJob'
    BY <1>17, <1>3, <2>3, ContinueIsTyped DEF UnNotSelected, j
  <2> QED BY <2>2, <2>4, <1>17 DEF TypeInv, TypeOK, UnNotSelected
<1>18. CASE Reattribute(r)
  <2> DEFINE k == req[r].target
             back == Restored(j, "not_selected", "applied")
  <2>1. back \in Stage /\ k \in Jobs /\ "not_selected" \in Stage /\ "not_selected" \in LookedUp
    BY <1>3, RestoredIsStage DEF LookedUp, Stage, Applications
  <2>2. /\ stage' = [stage EXCEPT ![j] = back, ![k] = "not_selected"]
        /\ prior' = [prior EXCEPT
                      ![j] = IF back \in LookedUp THEN [@ EXCEPT ![back] = "not_selected"] ELSE @,
                      ![k] = [@ EXCEPT !["not_selected"] = req[r].targetSeen]]
        /\ recent' = IF back = "applied" THEN recent \cup {j} ELSE recent
        /\ Continue(r, UnmarkOps(j, req[r].folder) \o MarkerOps(k))
    BY <1>18 DEF Reattribute, j
  <2> HIDE DEF back, k
  <2>3. stage' \in [Jobs -> Stage] /\ recent' \subseteq Jobs
    BY <1>3, <2>1, <2>2 DEF TypeInv, TypeOK
  <2>4. prior' \in [Jobs -> [LookedUp -> Stage \cup {None}]]
    BY <1>3, <1>4, <2>1, <2>2 DEF TypeInv, TypeOK
  <2>5. UnmarkOps(j, req[r].folder) \in Seq(FsOp) /\ MarkerOps(k) \in Seq(FsOp)
    BY <1>3, <1>4, <2>1, MarkerOpsAreTyped
  <2>6. UnmarkOps(j, req[r].folder) \o MarkerOps(k) \in Seq(FsOp)
    BY <2>5
  <2>7. req' \in [Handlers -> Request] /\ ServesAJob'
    BY <1>3, <2>2, <2>6, ContinueIsTyped
  <2> QED BY <2>3, <2>4, <2>7, <1>18 DEF TypeInv, TypeOK, Reattribute
<1> QED BY <1>7, <1>8, <1>9, <1>10, <1>11, <1>12, <1>13, <1>14, <1>15, <1>16, <1>17, <1>18
        DEF Commit

\* The folder lookup of apply leaves a typed request.
LEMMA LookIsTyped ==
  ASSUME TypeInv, NEW r \in Handlers, MoveFolderToApplied(r)
  PROVE  TypeInv'
<1> DEFINE j == req[r].job
           todo == IF IsDir(j, path[j])
                   THEN <<Fs("move", j, path[j], <<"_applied">>),
                          Fs("path", j, path[j], <<"_applied">>)>>
                   ELSE << >>
<1>1. req[r].pc # "idle" /\ Continue(r, todo)
  BY DEF MoveFolderToApplied
<1>2. j \in Jobs
  BY <1>1 DEF TypeInv, ServesAJob
<1>3. path[j] \in Place \cup {None} /\ <<"_applied">> \in Place
  BY <1>2 DEF TypeInv, TypeOK, Place, Dirs
<1> HIDE DEF j
<1>4. todo \in Seq(FsOp)
  <2>1. CASE IsDir(j, path[j])
    <3>1. path[j] \in Place
      BY <1>3, <2>1 DEF IsDir
    <3>2. /\ Fs("move", j, path[j], <<"_applied">>) \in FsOp
          /\ Fs("path", j, path[j], <<"_applied">>) \in FsOp
      BY <1>2, <1>3, <3>1, FsIsTyped
    <3> QED BY <2>1, <3>2
  <2>2. CASE ~IsDir(j, path[j])
    BY <2>2
  <2> QED BY <2>1, <2>2
<1> HIDE DEF todo
<1>5. req' \in [Handlers -> Request] /\ ServesAJob'
  BY <1>1, <1>4, ContinueIsTyped
<1> QED BY <1>5 DEF TypeInv, TypeOK, MoveFolderToApplied, rowVars

\* A folder operation moves a folder between two places and leaves a typed rest.
LEMMA FsStepIsTyped ==
  ASSUME TypeInv, NEW r \in Handlers, FsStep(r)
  PROVE  TypeInv'
<1> DEFINE o == Head(req[r].todo)
<1>1. req[r].pc = "fs" /\ Continue(r, Tail(req[r].todo))
  BY DEF FsStep
<1>2. req[r].todo \in Seq(FsOp) /\ req[r].todo # << >>
  BY <1>1 DEF TypeInv, TypeOK, ServesAJob, Request
<1>3. o \in FsOp /\ Tail(req[r].todo) \in Seq(FsOp)
  BY <1>2
<1>4. o.job \in Jobs /\ o.to \in Place
  BY <1>3 DEF FsOp
<1>5. req' \in [Handlers -> Request] /\ ServesAJob'
  BY <1>1, <1>3, ContinueIsTyped
<1>6. /\ place' \in [Jobs -> Place \cup {None}]
      /\ path' \in [Jobs -> Place \cup {None}]
      /\ marked' \subseteq Jobs
  BY <1>4 DEF FsStep, TypeInv, TypeOK
<1> QED BY <1>5, <1>6 DEF TypeInv, TypeOK, FsStep, rowVars

\* Every step keeps the types.
LEMMA NextIsTyped == TypeInv /\ [Next]_vars => TypeInv'
<1> SUFFICES ASSUME TypeInv, [Next]_vars PROVE TypeInv'
  OBVIOUS
<1>1. ASSUME NEW r \in Handlers, FsFails(r) \/ Abort(r) PROVE TypeInv'
  <2>1. Idle \in Request
    BY DEF Idle, Request, Stage, PreApply, AllOps
  <2>2. req' = [req EXCEPT ![r] = Idle]
    BY <1>1 DEF FsFails, Abort
  <2>3. req' \in [Handlers -> Request]
    BY <2>1, <2>2 DEF TypeInv, TypeOK
  <2>4. ServesAJob'
    BY <2>2 DEF TypeInv, TypeOK, ServesAJob, Idle
  <2> QED BY <1>1, <2>3, <2>4 DEF TypeInv, TypeOK, FsFails, Abort, rowVars
<1>2. ASSUME NEW j \in Jobs, WindowCloses(j) PROVE TypeInv'
  BY <1>2 DEF TypeInv, TypeOK, ServesAJob, WindowCloses
<1>3. CASE UNCHANGED vars
  BY <1>3 DEF TypeInv, TypeOK, ServesAJob, vars
<1> QED BY <1>1, <1>2, <1>3, ReadIsTyped, CommitIsTyped, LookIsTyped, FsStepIsTyped DEF Next

\* Every reachable state is typed: no move writes a stage the schema refuses, and
\* no folder operation is left without its job.
THEOREM HistoryTypeCorrect == Spec => []TypeOK
<1>1. TypeInv => TypeOK
  BY DEF TypeInv
<1> QED BY <1>1, InitIsTyped, NextIsTyped, PTL DEF Spec

-----------------------------------------------------------------------------
(* How requests advance. *)

\* The jobs a request is about.
Own(r) == {req[r].job, req[r].target}

\* Requests in progress are about different jobs: the operator does not press two
\* buttons of one row at once.
Apart ==
  \A q, r \in Handlers :
    q # r /\ req[q].pc # "idle" /\ req[r].pc # "idle" => Own(q) \cap Own(r) = {}

\* Requests that come one at a time are.
LEMMA AloneIsApart == (\A q, r \in Handlers : q = r) => Apart
BY DEF Apart

\* The steps of a request after its guard.
Serves(r) == Commit(r) \/ MoveFolderToApplied(r) \/ FsStep(r) \/ FsFails(r) \/ Abort(r)

\* A request continues alone, and past its commit.
LEMMA ContinuesAlone ==
  ASSUME TypeInv, NEW r \in Handlers, NEW todo, Continue(r, todo)
  PROVE  req'[r].pc # "commit" /\ \A q \in Handlers \ {r} : req'[q] = req[q]
<1>1. req \in [Handlers -> Request]
  BY DEF TypeInv, TypeOK
<1>2. CASE todo = << >>
  BY <1>1, <1>2 DEF Continue, Idle
<1>3. CASE todo # << >>
  <2>1. req' = [req EXCEPT ![r] = [@ EXCEPT !.pc = "fs", !.todo = todo]]
    BY <1>3 DEF Continue
  <2>2. req'[r].pc = "fs"
    BY <1>1, <2>1 DEF Request
  <2> QED BY <1>1, <2>1, <2>2
<1> QED BY <1>2, <1>3

\* A request commits once: whatever it does next leaves the other requests alone.
LEMMA ServesAlone ==
  ASSUME TypeInv, NEW r \in Handlers, Serves(r)
  PROVE  req'[r].pc # "commit" /\ \A q \in Handlers \ {r} : req'[q] = req[q]
<1>1. req \in [Handlers -> Request]
  BY DEF TypeInv, TypeOK
<1>2. ASSUME NEW j, NEW from, NEW to, Relocate(r, j, from, to)
      PROVE  \E todo : Continue(r, todo)
  BY <1>2 DEF Relocate
<1>3. CASE Apply(r)
  BY <1>1, <1>3 DEF Apply, Request
<1>4. CASE Commit(r) /\ ~Apply(r)
  <2>1. \E todo : Continue(r, todo)
    BY <1>2, <1>4 DEF Commit, Move, UnApply, Waitlist, Reactivate, Reject, UnReject, Undo,
                      PromoteFromFallback, NotSelected, UnNotSelected, Reattribute
  <2> QED BY <2>1, ContinuesAlone
<1>5. CASE MoveFolderToApplied(r) \/ FsStep(r)
  <2>1. \E todo : Continue(r, todo)
    BY <1>5 DEF MoveFolderToApplied, FsStep
  <2> QED BY <2>1, ContinuesAlone
<1>6. CASE FsFails(r) \/ Abort(r)
  BY <1>1, <1>6 DEF FsFails, Abort, Idle
<1> QED BY <1>3, <1>4, <1>5, <1>6 DEF Serves

\* A request that takes a step is in progress.
LEMMA ServesBusy ==
  ASSUME NEW r \in Handlers, Serves(r)
  PROVE  req[r].pc # "idle"
BY DEF Serves, Commit, Committing, Move, Apply, UnApply, Waitlist, Reactivate, Reject, UnReject,
       Undo, PromoteFromFallback, NotSelected, UnNotSelected, Reattribute,
       MoveFolderToApplied, FsStep, FsFails, Abort

\* Only a commit writes the rows, but for the apply window.
LEMMA CommitsWriteRows ==
  ASSUME NEW r \in Handlers, Serves(r), ~Commit(r)
  PROVE  UNCHANGED rowVars
BY DEF Serves, MoveFolderToApplied, FsStep, FsFails, Abort

\* A step of the system is the start of a request, a step of one, or neither.
LEMMA StepsOfNext ==
  ASSUME [Next]_vars
  PROVE  \/ \E r \in Handlers, op \in Ops, j, k \in Jobs : Read(r, op, j, k)
         \/ \E r \in Handlers : Serves(r)
         \/ UNCHANGED <<stage, prior, req>>
BY DEF Next, Serves, WindowCloses, vars

-----------------------------------------------------------------------------
(* What an undo restores.  The row a withdrawal, a company rejection or a   *)
(* fallback left behind names an application, or for a fallback 'withdrawn', *)
(* one hop from an application: for as long as every request saw a stage its *)
(* tab offers the move for.                                                 *)
SeesOffered(r) ==
  req[r].pc = "commit" =>
    /\ req[r].seen \in Offered(req[r].op)
    /\ req[r].op = "reattribute" =>
         req[r].job # req[r].target /\ req[r].targetSeen \in Applications

RowsLeadBack(j) ==
  /\ prior[j]["withdrawn"] \in Applications \cup {None}
  /\ prior[j]["not_selected"] \in Applications \cup {None}
  /\ prior[j]["withdrawn_fallback"] \in Applications \cup {"withdrawn", None}

UndoInv == (\A r \in Handlers : SeesOffered(r)) /\ (\A j \in Jobs : RowsLeadBack(j))

\* An audit row that leads back, if it is one of those that must, keeps them so.
LEMMA RecordLeadsBack ==
  ASSUME TypeInv, UndoInv, NEW j \in Jobs, NEW old, NEW new \in Stage, Record(j, old, new),
         new \in {"withdrawn", "not_selected"} => old \in Applications,
         new = "withdrawn_fallback" => old \in Applications \cup {"withdrawn"}
  PROVE  \A i \in Jobs : RowsLeadBack(i)'
<1> SUFFICES ASSUME NEW i \in Jobs PROVE RowsLeadBack(i)'
  OBVIOUS
<1>1. RowsLeadBack(i) /\ prior \in [Jobs -> [LookedUp -> Stage \cup {None}]]
  BY DEF UndoInv, TypeInv, TypeOK
<1>2. CASE new \notin LookedUp \/ i # j
  BY <1>1, <1>2 DEF Record, RowsLeadBack
<1>3. CASE new \in LookedUp /\ i = j
  <2>1. prior'[i] = [prior[i] EXCEPT ![new] = old]
    BY <1>1, <1>3 DEF Record
  <2>2. {"withdrawn", "not_selected", "withdrawn_fallback"} \subseteq LookedUp
        /\ prior[i] \in [LookedUp -> Stage \cup {None}]
    BY <1>1 DEF LookedUp
  <2> QED BY <1>1, <2>1, <2>2 DEF RowsLeadBack
<1> QED BY <1>2, <1>3

\* Each undo of a withdrawal or a company rejection restores an application.
LEMMA RestoredIsApplication ==
  ASSUME UndoInv, NEW j \in Jobs
  PROVE  /\ Restored(j, "withdrawn", "applied") \in Applications
         /\ Restored(j, "not_selected", "applied") \in Applications
         /\ PriorToFallback(j) \in Applications
BY DEF UndoInv, RowsLeadBack, Restored, PriorToFallback, Applications

\* A commit keeps the rows leading back, and its undos return to an application.
LEMMA CommitLeadsBack ==
  ASSUME TypeInv, UndoInv, NEW r \in Handlers, Commit(r)
  PROVE  /\ \A i \in Jobs : RowsLeadBack(i)'
         /\ req[r].op \in {"un_withdraw", "promote_from_fallback", "un_not_selected", "reattribute"}
            => stage'[req[r].job] \in Applications
<1> DEFINE j == req[r].job
<1>1. req[r].pc = "commit"
  BY DEF Commit, Committing, Move, Apply, UnApply, Waitlist, Reactivate, Reject, UnReject,
         Undo, PromoteFromFallback, NotSelected, UnNotSelected, Reattribute
<1>2. /\ j \in Jobs /\ req[r].target \in Jobs
      /\ SeesOffered(r)
      /\ stage \in [Jobs -> Stage] /\ prior \in [Jobs -> [LookedUp -> Stage \cup {None}]]
  BY <1>1 DEF TypeInv, TypeOK, ServesAJob, UndoInv
<1>3. req[r].seen \in Offered(req[r].op)
  BY <1>1, <1>2 DEF SeesOffered
<1> DEFINE Wanted == {"un_withdraw", "promote_from_fallback", "un_not_selected", "reattribute"}
<1>4. ASSUME NEW old, NEW new \in Applications, Record(j, old, new)
      PROVE  stage'[j] \in Applications /\ \A i \in Jobs : RowsLeadBack(i)'
  <2>1. new \in Stage /\ new \notin {"withdrawn", "not_selected", "withdrawn_fallback"}
    BY DEF Applications, Stage
  <2> QED BY <1>2, <1>4, <2>1, RecordLeadsBack DEF Record
<1> HIDE DEF j
<1>5. CASE Move(r)
  <2>1. PICK op \in Moves : op = req[r].op
    BY <1>5 DEF Move, Committing
  <2>2. req[r].op \notin Wanted
    BY <2>1 DEF Moves
  <2> DEFINE old == IF req[r].op = "mark_as_fallback" THEN "withdrawn" ELSE req[r].seen
             new == Target(req[r].op)
  <2>3. new \in Stage
    BY <2>1 DEF Moves, Target, Stage, PreApply, Applications
  <2>4. new \in {"withdrawn", "not_selected"} => old \in Applications
    BY <1>3, <2>1 DEF Moves, Target, Offered
  <2>5. new = "withdrawn_fallback" => old \in Applications \cup {"withdrawn"}
    BY <1>3, <2>1 DEF Moves, Target, Offered
  <2>6. Record(j, old, new)
    BY <1>5 DEF Move, j
  <2> HIDE DEF old, new
  <2>7. \A i \in Jobs : RowsLeadBack(i)'
    BY <1>2, <2>3, <2>4, <2>5, <2>6, RecordLeadsBack
  <2> QED BY <2>2, <2>7
<1>6. CASE Apply(r)
  BY <1>4, <1>6 DEF Apply, Committing, Applications, j
<1>7. CASE UnApply(r)
  <2>1. Restored(j, "applied", "materials_drafted") \in Stage
    BY <1>2, RestoredIsStage DEF LookedUp, Stage, PreApply
  <2>2. Record(j, "applied", Restored(j, "applied", "materials_drafted"))
    BY <1>7 DEF UnApply, j
  <2>3. "applied" \in Applications
    BY DEF Applications
  <2>4. \A i \in Jobs : RowsLeadBack(i)'
    BY <1>2, <2>1, <2>2, <2>3, RecordLeadsBack
  <2> QED BY <1>7, <2>4 DEF UnApply, Committing
<1>8. CASE Waitlist(r) \/ Reactivate(r) \/ Reject(r) \/ UnReject(r)
  <2>1. PICK old, new : new \in PreApply \cup {"waitlisted", "rejected"} /\ Record(j, old, new)
    <3>1. CASE Waitlist(r)
      BY <3>1 DEF Waitlist, j
    <3>2. CASE Reactivate(r)
      BY <3>2 DEF Reactivate, PreApply, j
    <3>3. CASE Reject(r)
      BY <3>3 DEF Reject, j
    <3>4. CASE UnReject(r)
      BY <3>4 DEF UnReject, PreApply, j
    <3> QED BY <1>8, <3>1, <3>2, <3>3, <3>4
  <2>2. new \in Stage /\ new \notin {"withdrawn", "not_selected", "withdrawn_fallback"}
    BY <2>1 DEF PreApply, Stage
  <2>3. \A i \in Jobs : RowsLeadBack(i)'
    BY <1>2, <2>1, <2>2, RecordLeadsBack
  <2> QED BY <1>8, <2>3 DEF Waitlist, Reactivate, Reject, UnReject, Committing
<1>9. CASE Undo(r)
  <2>1. CASE req[r].op = "un_withdraw"
    BY <1>2, <1>4, <1>9, <2>1, RestoredIsApplication DEF Undo, j
  <2>2. CASE req[r].op # "un_withdraw"
    <3>1. req[r].op = "un_interview"
      BY <1>9, <2>2 DEF Undo, Committing
    <3>2. Record(j, "interview", Restored(j, "interview", "applied"))
      BY <1>9, <2>2 DEF Undo, j
    <3>3. Restored(j, "interview", "applied") \in Stage /\ "interview" \in Applications
      BY <1>2, RestoredIsStage DEF LookedUp, Stage, Applications
    <3>4. \A i \in Jobs : RowsLeadBack(i)'
      BY <1>2, <3>2, <3>3, RecordLeadsBack
    <3> QED BY <3>1, <3>4
  <2> QED BY <2>1, <2>2 DEF j
<1>10. CASE PromoteFromFallback(r)
  BY <1>2, <1>4, <1>10, RestoredIsApplication DEF PromoteFromFallback, j
<1>11. CASE NotSelected(r)
  <2>1. req[r].seen \in Applications /\ req[r].op \notin Wanted
    BY <1>3, <1>11 DEF NotSelected, Committing, Offered
  <2>2. "not_selected" \in Stage
    BY DEF Stage
  <2>3. \A i \in Jobs : RowsLeadBack(i)'
    BY <1>2, <1>11, <2>1, <2>2, RecordLeadsBack DEF NotSelected, j
  <2> QED BY <2>1, <2>3
<1>12. CASE UnNotSelected(r)
  BY <1>2, <1>4, <1>12, RestoredIsApplication DEF UnNotSelected, j
<1>13. CASE Reattribute(r)
  <2> DEFINE k == req[r].target
             back == Restored(j, "not_selected", "applied")
  <2>1. back \in Applications /\ k \in Jobs
    BY <1>2, RestoredIsApplication
  <2>2. j # k /\ req[r].targetSeen \in Applications
    BY <1>1, <1>2, <1>13 DEF SeesOffered, Reattribute, Committing, j
  <2>3. /\ stage' = [stage EXCEPT ![j] = back, ![k] = "not_selected"]
        /\ prior' = [prior EXCEPT
                      ![j] = IF back \in LookedUp THEN [@ EXCEPT ![back] = "not_selected"] ELSE @,
                      ![k] = [@ EXCEPT !["not_selected"] = req[r].targetSeen]]
    BY <1>13 DEF Reattribute, j
  <2> HIDE DEF k, back
  <2>4. stage'[j] \in Applications
    BY <1>2, <2>1, <2>2, <2>3
  <2>5. ASSUME NEW i \in Jobs PROVE RowsLeadBack(i)'
    <3>1. {"withdrawn", "not_selected", "withdrawn_fallback"} \subseteq LookedUp
          /\ back \notin {"withdrawn", "not_selected", "withdrawn_fallback"}
          /\ RowsLeadBack(i) /\ prior[i] \in [LookedUp -> Stage \cup {None}]
      BY <1>2, <2>1 DEF LookedUp, Applications, UndoInv
    <3>2. CASE i = j
      <4>1. prior'[i] = IF back \in LookedUp THEN [prior[i] EXCEPT ![back] = "not_selected"]
                        ELSE prior[i]
        BY <1>2, <2>1, <2>2, <2>3, <3>2
      <4> QED BY <3>1, <4>1 DEF RowsLeadBack
    <3>3. CASE i = k
      <4>1. prior'[i] = [prior[i] EXCEPT !["not_selected"] = req[r].targetSeen]
        BY <1>2, <2>1, <2>2, <2>3, <3>3
      <4> QED BY <2>2, <3>1, <4>1 DEF RowsLeadBack
    <3>4. CASE i # j /\ i # k
      <4>1. prior'[i] = prior[i]
        BY <1>2, <2>1, <2>3, <3>4
      <4> QED BY <3>1, <4>1 DEF RowsLeadBack
    <3> QED BY <3>2, <3>3, <3>4
  <2> QED BY <2>4, <2>5 DEF j
<1> QED BY <1>5, <1>6, <1>7, <1>8, <1>9, <1>10, <1>11, <1>12, <1>13 DEF Commit

\* A route that no stale page reaches saw what its tab offers.
LEMMA ReadSeesOffered ==
  ASSUME ~StaleTabs, ReattributeTo \subseteq Applications, TypeInv, UndoInv,
         NEW r \in Handlers, NEW op \in Ops, NEW j \in Jobs, NEW k \in Jobs, Read(r, op, j, k)
  PROVE  UndoInv'
<1>1. \A q \in Handlers : SeesOffered(q)'
  BY DEF UndoInv, TypeInv, TypeOK, Read, SeesOffered
<1>2. \A i \in Jobs : RowsLeadBack(i)'
  BY DEF UndoInv, Read, rowVars, RowsLeadBack
<1> QED BY <1>1, <1>2 DEF UndoInv

\* Every step keeps the rows leading back.
LEMMA NextLeadsBack ==
  ASSUME ~StaleTabs, ReattributeTo \subseteq Applications, TypeInv, UndoInv, [Next]_vars
  PROVE  UndoInv'
<1>1. ASSUME NEW r \in Handlers, Serves(r) PROVE UndoInv'
  <2>1. \A q \in Handlers : SeesOffered(q)'
    BY <1>1, ServesAlone DEF UndoInv, SeesOffered
  <2>2. \A i \in Jobs : RowsLeadBack(i)'
    <3>1. CASE Commit(r)
      BY <3>1, CommitLeadsBack
    <3>2. CASE ~Commit(r)
      <4>1. UNCHANGED rowVars
        BY <1>1, <3>2, CommitsWriteRows
      <4> QED BY <4>1 DEF UndoInv, rowVars, RowsLeadBack
    <3> QED BY <3>1, <3>2
  <2> QED BY <2>1, <2>2 DEF UndoInv
<1>2. CASE UNCHANGED <<stage, prior, req>>
  BY <1>2 DEF UndoInv, SeesOffered, RowsLeadBack
<1> QED BY <1>1, <1>2, ReadSeesOffered, StepsOfNext

\* Undoing a withdrawal, a fallback or a company rejection returns the job to an
\* application, for any number of jobs and of concurrent requests, cut off or not,
\* when pages are fresh and a rejection is reattributed to an application.
THEOREM UndoIsSafe ==
  ASSUME ~StaleTabs, ReattributeTo \subseteq Applications
  PROVE  Spec => UndoReturnsToApplications
<1>1. Init => UndoInv
  <2> SUFFICES ASSUME Init PROVE UndoInv
    OBVIOUS
  <2>1. \A j \in Jobs : RowsLeadBack(j)
    BY DEF Init, RowsLeadBack, LookedUp
  <2> QED BY <2>1 DEF Init, UndoInv, SeesOffered, Idle
<1>2. TypeInv /\ UndoInv /\ [Next]_vars => UndoInv'
  BY NextLeadsBack
<1> DEFINE ReturnsStep ==
      \A r \in Handlers, j \in Jobs :
        /\ req[r].pc = "commit" /\ req'[r].pc # "commit" /\ req[r].job = j
        /\ req[r].op \in {"un_withdraw", "promote_from_fallback", "un_not_selected", "reattribute"}
        /\ stage' # stage
        => stage'[j] \in Applications
<1>3. ASSUME TypeInv, UndoInv, [Next]_vars PROVE ReturnsStep
  <2> SUFFICES ASSUME NEW r \in Handlers, NEW j \in Jobs,
                      req[r].pc = "commit", req'[r].pc # "commit", req[r].job = j,
                      req[r].op \in {"un_withdraw", "promote_from_fallback",
                                     "un_not_selected", "reattribute"},
                      stage' # stage
               PROVE  stage'[j] \in Applications
    OBVIOUS
  <2>1. PICK q \in Handlers : Serves(q)
    BY <1>3, StepsOfNext DEF Read, rowVars
  <2>2. q = r
    BY <1>3, <2>1, ServesAlone
  <2>3. Commit(r)
    BY <2>1, <2>2, CommitsWriteRows DEF rowVars
  <2> QED BY <1>3, <2>3, CommitLeadsBack
<1>4. TypeInv /\ UndoInv /\ [Next]_vars => [ReturnsStep]_vars
  BY <1>3
<1> QED BY <1>1, <1>2, <1>4, InitIsTyped, NextIsTyped, PTL DEF Spec, UndoReturnsToApplications

-----------------------------------------------------------------------------
(* The exactness of the audit rows.  Many actions write the stage they leave *)
(* as a literal: it is right for as long as the stage the route saw is still *)
(* the job's when the action commits.                                       *)
SawTheRow(r) ==
  req[r].pc = "commit" =>
    /\ stage[req[r].job] = req[r].seen /\ stage[req[r].target] = req[r].targetSeen
    /\ req[r].seen \in Accepted(req[r].op)
    /\ req[r].op = "reattribute" => req[r].job # req[r].target

ExactInv == \A r \in Handlers : SawTheRow(r)

\* The audit rows tell every job's last stage.
RowsTellStages ==
  \A j \in Jobs : stage'[j] \in LookedUp \ {stage[j]} => prior'[j][stage'[j]] = stage[j]

\* A stage write whose audit row names the job's stage tells it.
LEMMA RecordTells ==
  ASSUME TypeInv, NEW j \in Jobs, NEW new, Record(j, stage[j], new)
  PROVE  RowsTellStages
BY DEF TypeInv, TypeOK, Record, RowsTellStages

\* A commit that saw the row names the stage the job leaves.
LEMMA CommitTells ==
  ASSUME TypeInv, NEW r \in Handlers, SawTheRow(r), Commit(r)
  PROVE  RowsTellStages
<1> DEFINE j == req[r].job
<1>1. req[r].pc = "commit"
  BY DEF Commit, Committing, Move, Apply, UnApply, Waitlist, Reactivate, Reject, UnReject,
         Undo, PromoteFromFallback, NotSelected, UnNotSelected, Reattribute
<1>2. /\ j \in Jobs /\ req[r].target \in Jobs
      /\ stage[j] = req[r].seen /\ stage[req[r].target] = req[r].targetSeen
      /\ stage[j] \in Accepted(req[r].op)
      /\ req[r].op = "reattribute" => j # req[r].target
      /\ stage \in [Jobs -> Stage] /\ prior \in [Jobs -> [LookedUp -> Stage \cup {None}]]
  BY <1>1 DEF TypeInv, TypeOK, ServesAJob, SawTheRow
<1> HIDE DEF j
<1>3. ASSUME NEW op \in {"un_apply", "reactivate", "un_reject", "un_withdraw", "un_interview",
                         "mark_as_fallback", "promote_from_fallback", "un_not_selected"},
             req[r].op = op
      PROVE  stage[j] \in Offered(op)
  BY <1>2, <1>3 DEF Accepted, Unguarded
<1>4. CASE Move(r)
  <2>1. PICK op \in Moves : op = req[r].op
    BY <1>4 DEF Move, Committing
  <2>2. (IF req[r].op = "mark_as_fallback" THEN "withdrawn" ELSE req[r].seen) = stage[j]
    BY <1>2, <1>3, <2>1 DEF Offered
  <2> QED BY <1>2, <1>4, <2>2, RecordTells DEF Move, j
<1>5. CASE Apply(r) \/ Waitlist(r) \/ Reject(r) \/ NotSelected(r)
  BY <1>2, <1>5, RecordTells DEF Apply, Waitlist, Reject, NotSelected, j
<1>6. CASE UnApply(r)
  <2>1. stage[j] = "applied"
    BY <1>3, <1>6 DEF UnApply, Committing, Offered
  <2> QED BY <1>2, <1>6, <2>1, RecordTells DEF UnApply, j
<1>7. CASE Reactivate(r)
  <2>1. stage[j] = "waitlisted"
    BY <1>3, <1>7 DEF Reactivate, Committing, Offered
  <2> QED BY <1>2, <1>7, <2>1, RecordTells DEF Reactivate, j
<1>8. CASE UnReject(r)
  <2>1. stage[j] = "rejected"
    BY <1>3, <1>8 DEF UnReject, Committing, Offered
  <2> QED BY <1>2, <1>8, <2>1, RecordTells DEF UnReject, j
<1>9. CASE Undo(r)
  <2>1. stage[j] = IF req[r].op = "un_withdraw" THEN "withdrawn" ELSE "interview"
    BY <1>3, <1>9 DEF Undo, Committing, Offered
  <2> QED BY <1>2, <1>9, <2>1, RecordTells DEF Undo, j
<1>10. CASE PromoteFromFallback(r)
  <2>1. stage[j] = "withdrawn_fallback"
    BY <1>3, <1>10 DEF PromoteFromFallback, Committing, Offered
  <2> QED BY <1>2, <1>10, <2>1, RecordTells DEF PromoteFromFallback, j
<1>11. CASE UnNotSelected(r)
  <2>1. stage[j] = "not_selected"
    BY <1>3, <1>11 DEF UnNotSelected, Committing, Offered
  <2> QED BY <1>2, <1>11, <2>1, RecordTells DEF UnNotSelected, j
<1>12. CASE Reattribute(r)
  <2> DEFINE k == req[r].target
             back == Restored(j, "not_selected", "applied")
  <2>1. j # k /\ stage[j] = "not_selected" /\ stage[k] = req[r].targetSeen
    BY <1>2, <1>12 DEF Reattribute, Committing, Accepted, Unguarded, Offered
  <2>2. /\ stage' = [stage EXCEPT ![j] = back, ![k] = "not_selected"]
        /\ prior' = [prior EXCEPT
                      ![j] = IF back \in LookedUp THEN [@ EXCEPT ![back] = "not_selected"] ELSE @,
                      ![k] = [@ EXCEPT !["not_selected"] = req[r].targetSeen]]
    BY <1>12 DEF Reattribute, j
  <2> HIDE DEF k, back
  <2>3. ASSUME NEW i \in Jobs, stage'[i] \in LookedUp \ {stage[i]}
        PROVE  prior'[i][stage'[i]] = stage[i]
    <3>1. CASE i = j
      BY <1>2, <2>1, <2>2, <2>3, <3>1
    <3>2. CASE i = k
      BY <1>2, <2>1, <2>2, <2>3, <3>2
    <3>3. CASE i # j /\ i # k
      BY <1>2, <2>2, <2>3, <3>3
    <3> QED BY <3>1, <3>2, <3>3
  <2> QED BY <2>3 DEF RowsTellStages
<1> QED BY <1>4, <1>5, <1>6, <1>7, <1>8, <1>9, <1>10, <1>11, <1>12 DEF Commit

\* A commit writes the stages of the jobs it is about.
LEMMA CommitsWriteTheirOwn ==
  ASSUME TypeInv, NEW r \in Handlers, Commit(r)
  PROVE  \A i \in Jobs \ Own(r) : stage'[i] = stage[i]
<1>1. req[r].pc = "commit"
  BY DEF Commit, Committing, Move, Apply, UnApply, Waitlist, Reactivate, Reject, UnReject,
         Undo, PromoteFromFallback, NotSelected, UnNotSelected, Reattribute
<1>2. stage \in [Jobs -> Stage] /\ req[r].job \in Jobs /\ req[r].target \in Jobs
  BY <1>1 DEF TypeInv, TypeOK, ServesAJob
<1>3. ASSUME NEW old, NEW new, Record(req[r].job, old, new)
      PROVE  \A i \in Jobs \ Own(r) : stage'[i] = stage[i]
  BY <1>2, <1>3 DEF Record, Own
<1>4. CASE Reattribute(r)
  BY <1>2, <1>4 DEF Reattribute, Own
<1>5. CASE ~Reattribute(r)
  BY <1>3, <1>5 DEF Commit, Move, Apply, UnApply, Waitlist, Reactivate, Reject, UnReject,
                    Undo, PromoteFromFallback, NotSelected, UnNotSelected
<1> QED BY <1>4, <1>5

\* While requests are about different jobs nothing changes a row between its read
\* and its commit.
LEMMA NextSawTheRow ==
  ASSUME Apart, TypeInv, ExactInv, [Next]_vars
  PROVE  ExactInv'
<1>1. ASSUME NEW r \in Handlers, NEW op \in Ops, NEW j \in Jobs, NEW k \in Jobs, Read(r, op, j, k)
      PROVE  ExactInv'
  BY <1>1 DEF TypeInv, TypeOK, ExactInv, SawTheRow, Read, rowVars
<1>2. ASSUME NEW r \in Handlers, Serves(r) PROVE ExactInv'
  <2>1. req'[r].pc # "commit" /\ \A q \in Handlers \ {r} : req'[q] = req[q]
    BY <1>2, ServesAlone
  <2>2. req[r].pc # "idle"
    BY <1>2, ServesBusy
  <2>3. \A i \in Jobs \ Own(r) : stage'[i] = stage[i]
    BY <1>2, CommitsWriteTheirOwn, CommitsWriteRows DEF rowVars
  <2>4. ASSUME NEW q \in Handlers, req'[q].pc = "commit" PROVE SawTheRow(q)'
    <3>1. q # r /\ req'[q] = req[q] /\ req[q].pc = "commit"
      BY <2>1, <2>4
    <3>2. req[q].job \in Jobs \ Own(r) /\ req[q].target \in Jobs \ Own(r)
      BY <2>2, <3>1 DEF Apart, Own, TypeInv, ServesAJob
    <3> QED BY <2>3, <3>1, <3>2 DEF ExactInv, SawTheRow
  <2> QED BY <2>4 DEF ExactInv, SawTheRow
<1>3. CASE UNCHANGED <<stage, prior, req>>
  BY <1>3 DEF ExactInv, SawTheRow
<1> QED BY <1>1, <1>2, <1>3, StepsOfNext

\* While requests in progress are about different jobs nothing changes a row between
\* its read and its commit, and every audit row names the stage the job really left:
\* also when the request comes from a stale page, is cut off, or is a move its tab
\* never offers.
THEOREM HistoryExact == Spec /\ []Apart => HistoryIsExact
<1>1. Init => ExactInv
  BY DEF Init, ExactInv, SawTheRow, Idle
<1>2. Apart /\ TypeInv /\ ExactInv /\ [Next]_vars => ExactInv'
  BY NextSawTheRow
<1>3. ASSUME TypeInv, ExactInv, [Next]_vars PROVE RowsTellStages
  <2>1. ASSUME NEW r \in Handlers, Serves(r) PROVE RowsTellStages
    <3>1. CASE Commit(r)
      BY <1>3, <3>1, CommitTells DEF ExactInv
    <3>2. CASE ~Commit(r)
      BY <2>1, <3>2, CommitsWriteRows DEF rowVars, RowsTellStages
    <3> QED BY <3>1, <3>2
  <2>2. CASE UNCHANGED <<stage, prior>>
    BY <2>2 DEF RowsTellStages
  <2> QED BY <1>3, <2>1, <2>2, StepsOfNext DEF Read, rowVars
<1>4. TypeInv /\ ExactInv /\ [Next]_vars => [RowsTellStages]_vars
  BY <1>3
<1> QED BY <1>1, <1>2, <1>4, InitIsTyped, NextIsTyped, PTL DEF Spec, HistoryIsExact, RowsTellStages

-----------------------------------------------------------------------------
(* Where the moves lead, for as long as every request saw a stage its tab   *)
(* offers the move for: the remaining undos look up rows of moves out of    *)
(* the stages an operator can be at, which never include a rejection.       *)
Post == Applications \cup {"not_selected", "withdrawn", "withdrawn_fallback"}

RowsKnown(j) ==
  /\ prior[j]["applied"] \in PreApply \cup Post \cup {None}
  /\ prior[j]["interview"] \in Post \cup {None}

\* where a route takes its job
Landing(op) ==
  CASE op \in {"promote", "un_reject"} -> {"scored"}
    [] op = "reactivate" -> {"scored", "materials_drafted"}
    [] op = "waitlist" -> {"waitlisted"}
    [] op = "reject" -> {"rejected"}
    [] op = "un_apply" -> PreApply \cup Post
    [] OTHER -> Post

\* A commit of one job writes a row and lands where its route leads.
LEMMA CommitRecords ==
  ASSUME TypeInv, UndoInv, \A i \in Jobs : RowsKnown(i),
         NEW r \in Handlers, Commit(r), ~Reattribute(r)
  PROVE  \E old \in Stage, new \in Landing(req[r].op) :
           /\ Record(req[r].job, old, new)
           /\ new = "applied" => old \in PreApply \cup Post
           /\ new = "interview" => old \in Post
<1> DEFINE j == req[r].job
           Fine(old, new) == /\ new \in Landing(req[r].op)
                             /\ Record(j, old, new)
                             /\ new = "applied" => old \in PreApply \cup Post
                             /\ new = "interview" => old \in Post
<1> SUFFICES \E old \in Stage : \E new : Fine(old, new)
  OBVIOUS
<1>1. req[r].pc = "commit"
  BY DEF Commit, Committing, Move, Apply, UnApply, Waitlist, Reactivate, Reject, UnReject,
         Undo, PromoteFromFallback, NotSelected, UnNotSelected, Reattribute
<1>2. /\ j \in Jobs /\ RowsKnown(j) /\ req[r].seen \in Stage
      /\ req[r].seen \in Offered(req[r].op)
  BY <1>1 DEF TypeInv, TypeOK, ServesAJob, UndoInv, SeesOffered, Request
<1>3. /\ Restored(j, "withdrawn", "applied") \in Applications
      /\ Restored(j, "not_selected", "applied") \in Applications
      /\ PriorToFallback(j) \in Applications
  BY <1>2, RestoredIsApplication
<1>4. /\ Restored(j, "applied", "materials_drafted") \in PreApply \cup Post
      /\ Restored(j, "interview", "applied") \in Post
  BY <1>2 DEF RowsKnown, Restored, PreApply, Post, Applications
<1> HIDE DEF j
<1>5. CASE Move(r)
  <2>1. PICK op \in Moves : op = req[r].op
    BY <1>5 DEF Move, Committing
  <2> DEFINE old == IF req[r].op = "mark_as_fallback" THEN "withdrawn" ELSE req[r].seen
             new == Target(req[r].op)
  <2>2. new \in Landing(req[r].op)
    BY <2>1 DEF Moves, Target, Landing, Post, Applications
  <2>3. new # "applied" /\ (new = "interview" => old \in Post)
    BY <1>2, <2>1 DEF Moves, Target, Offered, Post, Applications
  <2>4. Record(j, old, new) /\ old \in Stage
    BY <1>2, <1>5 DEF Move, Stage, j
  <2> HIDE DEF old, new
  <2> QED BY <2>2, <2>3, <2>4
<1>6. CASE Apply(r)
  <2>1. req[r].op = "apply" /\ Record(j, req[r].seen, "applied")
    BY <1>6 DEF Apply, Committing, j
  <2>2. Fine(req[r].seen, "applied")
    BY <1>2, <2>1 DEF Offered, Landing, Post, PreApply, Applications
  <2> QED BY <1>2, <2>2
<1>7. CASE UnApply(r)
  <2> DEFINE new == Restored(j, "applied", "materials_drafted")
  <2>1. req[r].op = "un_apply" /\ Record(j, "applied", new)
    BY <1>7 DEF UnApply, Committing, j
  <2>2. new \in PreApply \cup Post
    BY <1>4
  <2> HIDE DEF new
  <2>3. Fine("applied", new) /\ "applied" \in Stage
    BY <2>1, <2>2 DEF Landing, Post, Applications, Stage
  <2> QED BY <2>3
<1>8. CASE Waitlist(r)
  <2>1. Fine(req[r].seen, "waitlisted")
    BY <1>8 DEF Waitlist, Committing, Landing, j
  <2> QED BY <1>2, <2>1
<1>9. CASE Reactivate(r)
  <2>1. PICK new \in {"materials_drafted", "scored"} : Record(j, "waitlisted", new)
    BY <1>9 DEF Reactivate, j
  <2>2. Fine("waitlisted", new) /\ "waitlisted" \in Stage
    BY <1>9, <2>1 DEF Reactivate, Committing, Landing, Stage
  <2> QED BY <2>2
<1>10. CASE Reject(r)
  <2>1. Fine(req[r].seen, "rejected")
    BY <1>10 DEF Reject, Committing, Landing, j
  <2> QED BY <1>2, <2>1
<1>11. CASE UnReject(r)
  <2>1. Fine("rejected", "scored") /\ "rejected" \in Stage
    BY <1>11 DEF UnReject, Committing, Landing, Stage, j
  <2> QED BY <2>1
<1>12. CASE Undo(r)
  <2> DEFINE from == IF req[r].op = "un_withdraw" THEN "withdrawn" ELSE "interview"
             new == Restored(j, from, "applied")
  <2>1. req[r].op \in {"un_withdraw", "un_interview"} /\ Record(j, from, new)
    BY <1>12 DEF Undo, Committing, j
  <2>2. new \in Post
    BY <1>3, <1>4 DEF Post
  <2>3. from \in Post /\ from \in Stage
    BY DEF Post, Applications, Stage
  <2> HIDE DEF from, new
  <2>4. Fine(from, new)
    BY <2>1, <2>2, <2>3 DEF Landing
  <2> QED BY <2>3, <2>4
<1>13. CASE PromoteFromFallback(r)
  <2> DEFINE new == PriorToFallback(j)
  <2>1. req[r].op = "promote_from_fallback" /\ Record(j, "withdrawn_fallback", new)
    BY <1>13 DEF PromoteFromFallback, Committing, j
  <2>2. new \in Post
    BY <1>3 DEF Post
  <2> HIDE DEF new
  <2>3. Fine("withdrawn_fallback", new) /\ "withdrawn_fallback" \in Stage
    BY <2>1, <2>2 DEF Landing, Post, Stage
  <2> QED BY <2>3
<1>14. CASE NotSelected(r)
  <2>1. Fine(req[r].seen, "not_selected")
    BY <1>14 DEF NotSelected, Committing, Landing, Post, j
  <2> QED BY <1>2, <2>1
<1>15. CASE UnNotSelected(r)
  <2> DEFINE new == Restored(j, "not_selected", "applied")
  <2>1. req[r].op = "un_not_selected" /\ Record(j, "not_selected", new)
    BY <1>15 DEF UnNotSelected, Committing, j
  <2>2. new \in Post
    BY <1>3 DEF Post
  <2> HIDE DEF new
  <2>3. Fine("not_selected", new) /\ "not_selected" \in Stage
    BY <2>1, <2>2 DEF Landing, Post, Stage
  <2> QED BY <2>3
<1> QED BY <1>5, <1>6, <1>7, <1>8, <1>9, <1>10, <1>11, <1>12, <1>13, <1>14, <1>15 DEF Commit

\* A landing is a stage, never one the other rows must not name.
LEMMA LandingsAreStages ==
  ASSUME NEW op \in AllOps
  PROVE  Landing(op) \subseteq Stage
BY DEF Landing, Stage, PreApply, Post, Applications

\* A commit lands where its route leads, and touches the stage of another job
\* only to reattribute a rejection to it.
LEMMA CommitLands ==
  ASSUME TypeInv, UndoInv, \A i \in Jobs : RowsKnown(i), NEW r \in Handlers, Commit(r)
  PROVE  /\ \A i \in Jobs : RowsKnown(i)'
         /\ stage'[req[r].job] \in Landing(req[r].op)
         /\ \A i \in Jobs : i # req[r].job =>
              \/ stage'[i] = stage[i]
              \/ /\ req[r].op = "reattribute" /\ i = req[r].target
                 /\ stage'[i] = "not_selected"
<1> DEFINE j == req[r].job
<1>1. req[r].pc = "commit"
  BY DEF Commit, Committing, Move, Apply, UnApply, Waitlist, Reactivate, Reject, UnReject,
         Undo, PromoteFromFallback, NotSelected, UnNotSelected, Reattribute
<1>2. /\ j \in Jobs /\ req[r].target \in Jobs /\ req[r].op \in AllOps
      /\ SeesOffered(r)
      /\ stage \in [Jobs -> Stage] /\ prior \in [Jobs -> [LookedUp -> Stage \cup {None}]]
  BY <1>1 DEF TypeInv, TypeOK, ServesAJob, UndoInv, Request
<1>3. {"applied", "interview", "not_selected"} \subseteq LookedUp
  BY DEF LookedUp
<1> HIDE DEF j
<1>4. CASE ~Reattribute(r)
  <2>1. PICK old \in Stage, new \in Landing(req[r].op) :
           /\ Record(j, old, new)
           /\ new = "applied" => old \in PreApply \cup Post
           /\ new = "interview" => old \in Post
    BY <1>4, CommitRecords DEF j
  <2>2. new \in Stage
    BY <1>2, LandingsAreStages
  <2>3. stage'[j] = new /\ \A i \in Jobs : i # j => stage'[i] = stage[i]
    BY <1>2, <2>1 DEF Record
  <2>4. ASSUME NEW i \in Jobs PROVE RowsKnown(i)'
    <3>1. CASE new \notin LookedUp \/ i # j
      BY <1>2, <2>1, <3>1 DEF Record, RowsKnown
    <3>2. CASE new \in LookedUp /\ i = j
      <4>1. prior'[i] = [prior[i] EXCEPT ![new] = old]
        BY <1>2, <2>1, <3>2 DEF Record
      <4> QED BY <1>2, <1>3, <2>1, <4>1 DEF RowsKnown
    <3> QED BY <3>1, <3>2
  <2> QED BY <2>1, <2>3, <2>4 DEF j
<1>5. CASE Reattribute(r)
  <2> DEFINE k == req[r].target
             back == Restored(j, "not_selected", "applied")
  <2>1. back \in Applications /\ k \in Jobs /\ req[r].op = "reattribute" /\ j # k
    BY <1>1, <1>2, <1>5, RestoredIsApplication
       DEF Reattribute, Committing, SeesOffered, j
  <2>2. /\ stage' = [stage EXCEPT ![j] = back, ![k] = "not_selected"]
        /\ prior' = [prior EXCEPT
                      ![j] = IF back \in LookedUp THEN [@ EXCEPT ![back] = "not_selected"] ELSE @,
                      ![k] = [@ EXCEPT !["not_selected"] = req[r].targetSeen]]
    BY <1>5 DEF Reattribute, j
  <2> HIDE DEF back
  <2>3. /\ stage'[j] = back /\ stage'[k] = "not_selected"
        /\ \A i \in Jobs : i # j /\ i # k => stage'[i] = stage[i]
    BY <1>2, <2>1, <2>2
  <2>4. back \in Landing(req[r].op)
    BY <2>1 DEF Landing, Post
  <2>5. ASSUME NEW i \in Jobs PROVE RowsKnown(i)'
    <3>1. RowsKnown(i) /\ prior[i] \in [LookedUp -> Stage \cup {None}] /\ "not_selected" \in Post
      BY <1>2 DEF Post
    <3>2. CASE i = j
      <4>1. prior'[i] = IF back \in LookedUp THEN [prior[i] EXCEPT ![back] = "not_selected"]
                        ELSE prior[i]
        BY <1>2, <2>1, <2>2, <3>2
      <4> QED BY <1>3, <3>1, <4>1 DEF RowsKnown
    <3>3. CASE i = k
      <4>1. prior'[i] = [prior[i] EXCEPT !["not_selected"] = req[r].targetSeen]
        BY <1>2, <2>1, <2>2, <3>3
      <4> QED BY <1>3, <3>1, <4>1 DEF RowsKnown
    <3>4. CASE i # j /\ i # k
      BY <1>2, <2>1, <2>2, <3>1, <3>4 DEF RowsKnown
    <3> QED BY <3>2, <3>3, <3>4
  <2> QED BY <2>1, <2>3, <2>4, <2>5 DEF j
<1> QED BY <1>4, <1>5

-----------------------------------------------------------------------------
(* What follows holds of requests about different jobs, from fresh pages,    *)
(* with rejections reattributed to applications.                            *)
HistInv ==
  /\ TypeInv /\ UndoInv /\ ExactInv
  /\ \A j \in Jobs : RowsKnown(j)

\* Jobs as triage and prep leave them have no history.
LEMMA HistInit == Init => HistInv
<1> SUFFICES ASSUME Init PROVE HistInv
  OBVIOUS
<1>1. \A j \in Jobs : RowsLeadBack(j) /\ RowsKnown(j)
  BY DEF Init, RowsLeadBack, RowsKnown, LookedUp
<1>2. UndoInv /\ ExactInv
  BY <1>1 DEF Init, UndoInv, SeesOffered, ExactInv, SawTheRow, Idle
<1> QED BY <1>1, <1>2, InitIsTyped DEF HistInv

\* Every step keeps the history known.
LEMMA HistNext ==
  ASSUME Apart, ~StaleTabs, ReattributeTo \subseteq Applications, HistInv, [Next]_vars
  PROVE  HistInv'
<1> TypeInv /\ UndoInv /\ ExactInv /\ \A j \in Jobs : RowsKnown(j)
  BY DEF HistInv
<1>1. TypeInv' /\ UndoInv' /\ ExactInv'
  BY NextIsTyped, NextLeadsBack, NextSawTheRow
<1>2. \A j \in Jobs : RowsKnown(j)'
  <2>1. ASSUME NEW r \in Handlers, Serves(r) PROVE \A j \in Jobs : RowsKnown(j)'
    <3>1. CASE Commit(r)
      BY <3>1, CommitLands
    <3>2. CASE ~Commit(r)
      BY <2>1, <3>2, CommitsWriteRows DEF rowVars, RowsKnown
    <3> QED BY <3>1, <3>2
  <2>2. CASE UNCHANGED prior
    BY <2>2 DEF RowsKnown
  <2> QED BY <2>1, <2>2, StepsOfNext DEF Read, rowVars
<1> QED BY <1>1, <1>2 DEF HistInv

-----------------------------------------------------------------------------
(* The feedback rows.                                                       *)
FeedbackInv ==
  /\ FeedbackMatchesStage
  /\ \A r \in Handlers :
       req[r].pc = "commit" /\ req[r].op = "reject" => feedback[req[r].job] < MaxFeedback

\* Only the two routes that reject and take it back write feedback.
LEMMA CommitFeedback ==
  ASSUME NEW r \in Handlers, Commit(r), ~Reject(r), ~UnReject(r)
  PROVE  UNCHANGED feedback
BY DEF Commit, Move, Apply, UnApply, Waitlist, Reactivate, Undo, PromoteFromFallback,
       NotSelected, UnNotSelected, Reattribute

\* They write that of the job they are about.
LEMMA CommitsFeedTheirOwn ==
  ASSUME TypeInv, NEW r \in Handlers, Commit(r)
  PROVE  \A i \in Jobs \ Own(r) : feedback'[i] = feedback[i]
BY CommitFeedback DEF TypeInv, TypeOK, Reject, UnReject, Own

\* A commit of a request that saw its row keeps feedback and stage together.
LEMMA CommitKeepsFeedback ==
  ASSUME HistInv, FeedbackInv, NEW r \in Handlers, Commit(r)
  PROVE  FeedbackMatchesStage'
<1> DEFINE j == req[r].job
<1>1. req[r].pc = "commit"
  BY DEF Commit, Committing, Move, Apply, UnApply, Waitlist, Reactivate, Reject, UnReject,
         Undo, PromoteFromFallback, NotSelected, UnNotSelected, Reattribute
<1>2. /\ TypeInv /\ UndoInv /\ \A i \in Jobs : RowsKnown(i)
      /\ SeesOffered(r) /\ SawTheRow(r)
  BY DEF HistInv, UndoInv, ExactInv
<1>3. /\ j \in Jobs /\ req[r].target \in Jobs /\ req[r].op \in AllOps
      /\ stage[j] \in Offered(req[r].op)
      /\ req[r].op = "reattribute" => stage[req[r].target] \in Applications
  BY <1>1, <1>2 DEF TypeInv, TypeOK, ServesAJob, Request, SeesOffered, SawTheRow
<1>4. /\ feedback \in [Jobs -> 0..MaxFeedback] /\ MaxFeedback \in Nat
      /\ \A i \in Jobs : feedback[i] = IF stage[i] = "rejected" THEN 1 ELSE 0
  BY <1>2, HistoryAssumption DEF TypeInv, TypeOK, FeedbackInv, FeedbackMatchesStage
<1>5. /\ stage'[j] \in Landing(req[r].op)
      /\ \A i \in Jobs : i # j => \/ stage'[i] = stage[i]
                               \/ /\ req[r].op = "reattribute" /\ i = req[r].target
                                  /\ stage'[i] = "not_selected"
  BY <1>2, CommitLands
<1>6. \A i \in Jobs : i # j => (stage'[i] = "rejected" <=> stage[i] = "rejected")
  BY <1>3, <1>5 DEF Applications
<1>7. CASE Reject(r)
  <2>1. /\ req[r].op = "reject" /\ feedback[j] < MaxFeedback
        /\ feedback' = [feedback EXCEPT ![j] = IF @ < MaxFeedback THEN @ + 1 ELSE @]
    BY <1>1, <1>7 DEF Reject, Committing, FeedbackInv
  <2>2. stage[j] # "rejected" /\ stage'[j] = "rejected"
    BY <1>3, <1>5, <2>1 DEF Offered, PreApply, Landing
  <2>3. feedback'[j] = 1 /\ \A i \in Jobs : i # j => feedback'[i] = feedback[i]
    BY <1>3, <1>4, <2>1, <2>2
  <2> HIDE DEF j
  <2> QED BY <1>4, <1>6, <2>2, <2>3 DEF FeedbackMatchesStage
<1>8. CASE UnReject(r)
  <2>1. req[r].op = "un_reject" /\ feedback' = [feedback EXCEPT ![j] = 0]
    BY <1>8 DEF UnReject, Committing
  <2>2. stage'[j] # "rejected"
    BY <1>5, <2>1 DEF Landing
  <2> HIDE DEF j
  <2> QED BY <1>3, <1>4, <1>6, <2>1, <2>2 DEF FeedbackMatchesStage
<1>9. CASE ~Reject(r) /\ ~UnReject(r)
  <2>1. feedback' = feedback
    BY <1>9, CommitFeedback
  <2>2. req[r].op \notin {"reject", "un_reject"}
    BY <1>9 DEF Commit, Committing, Move, Moves, Apply, UnApply, Waitlist, Reactivate, Undo,
                PromoteFromFallback, NotSelected, UnNotSelected, Reattribute
  <2>3. stage'[j] # "rejected" /\ stage[j] # "rejected"
    BY <1>3, <1>5, <2>2
       DEF Landing, Offered, PreApply, Post, Applications, AllOps, Moves, Undos
  <2> HIDE DEF j
  <2> QED BY <1>4, <1>6, <2>1, <2>3 DEF FeedbackMatchesStage
<1> QED BY <1>7, <1>8, <1>9

\* Every step keeps feedback and stage together.
LEMMA NextKeepsFeedback ==
  ASSUME Apart, HistInv, FeedbackInv, [Next]_vars
  PROVE  FeedbackInv'
<1> TypeInv /\ FeedbackMatchesStage
  BY DEF HistInv, FeedbackInv
<1>1. ASSUME NEW r \in Handlers, NEW op \in Ops, NEW j \in Jobs, NEW k \in Jobs, Read(r, op, j, k)
      PROVE  FeedbackInv'
  <2>1. FeedbackMatchesStage'
    BY <1>1 DEF Read, rowVars, FeedbackMatchesStage
  <2>2. /\ req'[r].job = j /\ req'[r].op = op
        /\ op = "reject" => feedback'[j] < MaxFeedback
    BY <1>1 DEF Read, TypeInv, TypeOK
  <2>3. ASSUME NEW q \in Handlers, req'[q].pc = "commit", req'[q].op = "reject"
        PROVE  feedback'[req'[q].job] < MaxFeedback
    <3>1. q # r => req'[q] = req[q] /\ feedback' = feedback
      BY <1>1 DEF Read, TypeInv, TypeOK
    <3> QED BY <2>2, <2>3, <3>1 DEF FeedbackInv
  <2> QED BY <2>1, <2>3 DEF FeedbackInv
<1>2. ASSUME NEW r \in Handlers, Serves(r) PROVE FeedbackInv'
  <2>1. /\ req[r].pc # "idle"
        /\ req'[r].pc # "commit" /\ \A q \in Handlers \ {r} : req'[q] = req[q]
    BY <1>2, ServesAlone, ServesBusy
  <2>2. FeedbackMatchesStage' /\ \A i \in Jobs \ Own(r) : feedback'[i] = feedback[i]
    <3>1. CASE Commit(r)
      BY <3>1, CommitKeepsFeedback, CommitsFeedTheirOwn
    <3>2. CASE ~Commit(r)
      <4>1. UNCHANGED <<stage, feedback>>
        BY <1>2, <3>2 DEF Serves, MoveFolderToApplied, FsStep, FsFails, Abort, rowVars
      <4> QED BY <4>1 DEF FeedbackMatchesStage
    <3> QED BY <3>1, <3>2
  <2>3. ASSUME NEW q \in Handlers, req'[q].pc = "commit", req'[q].op = "reject"
        PROVE  feedback'[req'[q].job] < MaxFeedback
    <3>1. q # r /\ req'[q] = req[q]
      BY <2>1, <2>3
    <3>2. req[q].job \in Jobs \ Own(r)
      BY <2>1, <2>3, <3>1 DEF Apart, Own, TypeInv, ServesAJob
    <3> QED BY <2>2, <2>3, <3>1, <3>2 DEF FeedbackInv
  <2> QED BY <2>2, <2>3 DEF FeedbackInv
<1>3. CASE UNCHANGED <<stage, feedback, req>>
  BY <1>3 DEF FeedbackInv, FeedbackMatchesStage
<1> QED BY <1>1, <1>2, <1>3 DEF Next, Serves, WindowCloses, vars

\* A job has feedback exactly when it is rejected, for any number of jobs, while
\* requests in progress are about different jobs and come from fresh pages; a request
\* that is cut off, and a folder operation that fails, change nothing of it
\* (web/routes/board_actions.py).
THEOREM FeedbackIsExact ==
  ASSUME ~StaleTabs, ReattributeTo \subseteq Applications
  PROVE  Spec /\ []Apart => []FeedbackMatchesStage
<1>1. Init => HistInv /\ FeedbackInv
  <2> SUFFICES ASSUME Init PROVE FeedbackInv
    BY HistInit
  <2>1. \A j \in Jobs : stage[j] \in PreApply /\ feedback[j] = 0
    BY DEF Init
  <2>2. FeedbackMatchesStage
    BY <2>1 DEF FeedbackMatchesStage, PreApply
  <2> QED BY <2>2 DEF Init, FeedbackInv, Idle
<1>2. Apart /\ HistInv /\ FeedbackInv /\ [Next]_vars => HistInv' /\ FeedbackInv'
  BY HistNext, NextKeepsFeedback
<1>3. FeedbackInv => FeedbackMatchesStage
  BY DEF FeedbackInv
<1> QED BY <1>1, <1>2, <1>3, PTL DEF Spec

-----------------------------------------------------------------------------
(* The folders and the markers.  Where the folder of a job at a stage may be, *)
(* and what a request that is not cut off has left to do about it: between    *)
(* commit and folder operation the database is ahead of the disk, or for an   *)
(* application behind it.                                                     *)
Fits(s, p) ==
  \/ p = None
  \/ s \in PreApply /\ p = Top
  \/ s = "waitlisted" /\ p = <<"_waitlisted">>
  \/ s = "rejected" /\ p # Top /\ p[Len(p)] = "_rejected"
  \/ s \in Post /\ p \in {Top, <<"_applied">>}

Settled(i) == path[i] = place[i] /\ Fits(stage[i], place[i])

\* a relocation: the path is updated, the folder is to follow
MoveLeft(r) ==
  LET j == req[r].job IN
  /\ req[r].pc = "fs" /\ req[r].todo = <<Fs("move", j, place[j], path[j])>>
  /\ Fits(stage[j], path[j])

\* an application: the folder and then the path are to be moved
ApplyLeft(r) ==
  LET j == req[r].job IN
  /\ req[r].todo = <<Fs("move", j, path[j], <<"_applied">>),
                     Fs("path", j, path[j], <<"_applied">>)>>
  /\ path[j] = place[j] /\ stage[j] \in Post

\* an application: the folder is moved, the path is to follow
PathLeft(r) ==
  LET j == req[r].job IN
  /\ req[r].pc = "fs" /\ req[r].todo = <<Fs("path", j, path[j], <<"_applied">>)>>
  /\ place[j] = <<"_applied">> /\ stage[j] \in Post

\* markers: one to remove, then one to put, either of them or both
MarksLeft(r) ==
  \A n \in 1..Len(req[r].todo) :
    LET o == req[r].todo[n] IN
    /\ o.job \in Own(r) /\ place[o.job] = o.at
    /\ \/ o.do = "mark" /\ stage[o.job] = "not_selected"
       \/ o.do = "unmark" /\ n = 1 /\ o.job \in marked

\* what request r has left to do about the place of job i, and about its marker
Relocates(r, i) == req[r].job = i /\ (MoveLeft(r) \/ PathLeft(r))
Unmarks(r, i) ==
  /\ req[r].pc = "fs"
  /\ Head(req[r].todo).do = "unmark" /\ Head(req[r].todo).job = i

\* a marker is where it belongs
WellMarked(i) == i \in marked => place[i] # None /\ stage[i] = "not_selected"

Chore(r) ==
  /\ req[r].pc = "commit" => req[r].folder = path[req[r].job]
  /\ req[r].pc = "look" => stage[req[r].job] \in Post
  /\ req[r].pc = "fs" => MoveLeft(r) \/ ApplyLeft(r) \/ PathLeft(r) \/ MarksLeft(r)

\* All jobs are in order, but for what some request has left to do.
TidyInv ==
  /\ \A i \in Jobs : Settled(i) \/ \E r \in Handlers : Relocates(r, i)
  /\ \A i \in marked :
       /\ place[i] # None
       /\ stage[i] = "not_selected" \/ \E r \in Handlers : Unmarks(r, i)
  /\ \A r \in Handlers : Chore(r)

\* The jobs of one request are, but for what it has left to do itself.
Placed(r, i) == Settled(i) \/ Relocates(r, i)
Marked(r, i) == i \in marked => place[i] # None /\ (stage[i] = "not_selected" \/ Unmarks(r, i))
Orderly(r, S) == (\A i \in S : Placed(r, i) /\ Marked(r, i)) /\ Chore(r)

\* A place that fits a stage is where FolderFollowsStage wants it.
LEMMA FitsIsWanted ==
  ASSUME NEW s \in Stage, NEW p \in Place, Fits(s, p)
  PROVE  /\ s \in PreApply => p = Top
         /\ s = "waitlisted" => p = <<"_waitlisted">>
         /\ s = "rejected" <=> p # Top /\ p[Len(p)] = "_rejected"
<1>1. p # None
  BY HistoryAssumption
<1>2. <<"_applied">>[Len(<<"_applied">>)] = "_applied"
  OBVIOUS
<1>3. <<"_waitlisted">>[Len(<<"_waitlisted">>)] = "_waitlisted"
  OBVIOUS
<1>4. s \in PreApply => s \notin Post \cup {"waitlisted", "rejected"}
  BY DEF PreApply, Post, Applications
<1>5. Post \cap {"waitlisted", "rejected"} = {}
  BY DEF Post, Applications
<1> QED BY <1>1, <1>2, <1>3, <1>4, <1>5 DEF Fits

\* Between requests every job is settled and the markers are those of jobs that
\* were not selected.
LEMMA SettledWhenQuiet ==
  ASSUME TidyInv, Quiet
  PROVE  \A i \in Jobs : Settled(i) /\ WellMarked(i)
BY DEF TidyInv, Quiet, Relocates, Unmarks, MoveLeft, PathLeft, WellMarked

\* A request at its folder operations has some left, of its own jobs.
LEMMA ChoresAreOwn ==
  ASSUME TypeInv, NEW r \in Handlers, Chore(r), req[r].pc = "fs"
  PROVE  /\ req[r].todo \in Seq(FsOp) /\ req[r].todo # << >>
         /\ Head(req[r].todo).job \in Own(r)
<1> DEFINE t == req[r].todo
<1>1. t \in Seq(FsOp) /\ t # << >>
  BY DEF TypeInv, TypeOK, ServesAJob, Request
<1>2. Head(t) = t[1] /\ 1 \in 1..Len(t)
  BY <1>1
<1>3. MoveLeft(r) \/ ApplyLeft(r) \/ PathLeft(r) => Head(t).job \in Own(r)
  BY DEF MoveLeft, ApplyLeft, PathLeft, Fs, Own
<1>4. MarksLeft(r) => Head(t).job \in Own(r)
  BY <1>2 DEF MarksLeft
<1> QED BY <1>1, <1>3, <1>4 DEF Chore

\* Requests about different jobs: what is out of order of the jobs of a request is
\* its own to put in order.
LEMMA TidyIsOrderly ==
  ASSUME TypeInv, TidyInv, Apart, NEW r \in Handlers, req[r].pc # "idle"
  PROVE  Orderly(r, Own(r))
<1>1. Own(r) \subseteq Jobs
  BY DEF Own, TypeInv, ServesAJob
<1>2. ASSUME NEW q \in Handlers, NEW i \in Own(r), req[q].pc # "idle", i \in Own(q)
      PROVE  q = r
  BY <1>2 DEF Apart
<1>3. ASSUME NEW i \in Own(r), NEW q \in Handlers, Relocates(q, i) PROVE Relocates(r, i)
  <2>1. req[q].pc # "idle" /\ i \in Own(q)
    BY <1>3 DEF Relocates, MoveLeft, PathLeft, Own
  <2> QED BY <1>2, <1>3, <2>1
<1>4. ASSUME NEW i \in Own(r), NEW q \in Handlers, Unmarks(q, i) PROVE Unmarks(r, i)
  <2>1. Chore(q) /\ req[q].pc = "fs"
    BY <1>4 DEF TidyInv, Unmarks
  <2>2. i \in Own(q)
    BY <1>4, <2>1, ChoresAreOwn DEF Unmarks
  <2> QED BY <1>2, <1>4, <2>1, <2>2
<1> QED BY <1>1, <1>3, <1>4 DEF TidyInv, Orderly, Placed, Marked

\* A request that leaves the other jobs alone and its own in order keeps all of them.
LEMMA OrderlyIsTidy ==
  ASSUME TypeInv, TidyInv, Apart, NEW r \in Handlers, req[r].pc # "idle",
         \A q \in Handlers \ {r} : req'[q] = req[q],
         NEW S, S = Own(r), Orderly(r, S)',
         \A i \in Jobs \ S :
           /\ stage'[i] = stage[i] /\ path'[i] = path[i] /\ place'[i] = place[i]
           /\ i \in marked' <=> i \in marked,
         marked' \subseteq Jobs
  PROVE  TidyInv'
<1>1. ASSUME NEW q \in Handlers, q # r, req[q].pc # "idle"
      PROVE  /\ Own(q) \subseteq Jobs \ S /\ req[q].job \in Own(q) /\ Own(q)' = Own(q)
             /\ req'[q] = req[q]
  BY <1>1 DEF Own, Apart, TypeInv, ServesAJob
<1>2. ASSUME NEW q \in Handlers, q # r, req[q].pc # "idle"
      PROVE  /\ MoveLeft(q) => MoveLeft(q)'
             /\ ApplyLeft(q) => ApplyLeft(q)'
             /\ PathLeft(q) => PathLeft(q)'
             /\ MarksLeft(q) => MarksLeft(q)'
  <2>1. /\ req'[q] = req[q] /\ Own(q)' = Own(q)
        /\ \A i \in Own(q) : /\ stage'[i] = stage[i] /\ path'[i] = path[i] /\ place'[i] = place[i]
                             /\ i \in marked => i \in marked'
        /\ req[q].job \in Own(q)
    BY <1>1, <1>2
  <2>2. MarksLeft(q) => MarksLeft(q)'
    BY <2>1 DEF MarksLeft
  <2> QED BY <2>1, <2>2 DEF MoveLeft, ApplyLeft, PathLeft
<1>3. ASSUME NEW q \in Handlers PROVE Chore(q)'
  <2>1. CASE q = r
    BY <2>1 DEF Orderly
  <2>2. CASE q # r /\ req[q].pc = "idle"
    BY <2>2 DEF Chore
  <2>3. CASE q # r /\ req[q].pc # "idle"
    <3>1. /\ req'[q] = req[q] /\ Chore(q)
          /\ stage'[req[q].job] = stage[req[q].job] /\ path'[req[q].job] = path[req[q].job]
      BY <1>1, <2>3 DEF TidyInv
    <3> QED BY <1>2, <2>3, <3>1 DEF Chore
  <2> QED BY <2>1, <2>2, <2>3
<1>4. ASSUME NEW i \in Jobs PROVE Settled(i)' \/ \E q \in Handlers : Relocates(q, i)'
  <2>1. CASE i \in S
    BY <2>1 DEF Orderly, Placed
  <2>2. CASE i \notin S /\ Settled(i)
    BY <2>2 DEF Settled
  <2>3. CASE i \notin S /\ \E q \in Handlers : Relocates(q, i)
    <3>1. PICK q \in Handlers : Relocates(q, i)
      BY <2>3
    <3>2. q # r /\ req[q].pc # "idle"
      BY <2>3, <3>1 DEF Relocates, MoveLeft, PathLeft, Own
    <3>3. Relocates(q, i)'
      BY <1>1, <1>2, <3>1, <3>2 DEF Relocates
    <3> QED BY <3>3
  <2> QED BY <2>1, <2>2, <2>3 DEF TidyInv
<1>5. ASSUME NEW i \in marked'
      PROVE  place'[i] # None /\ (stage'[i] = "not_selected" \/ \E q \in Handlers : Unmarks(q, i)')
  <2>1. CASE i \in S
    BY <1>5, <2>1 DEF Orderly, Marked
  <2>2. CASE i \notin S
    <3>1. i \in marked /\ stage'[i] = stage[i] /\ place'[i] = place[i]
      BY <1>5, <2>2
    <3>2. ASSUME NEW q \in Handlers, Unmarks(q, i) PROVE Unmarks(q, i)'
      <4>1. req[q].pc = "fs" /\ Chore(q)
        BY <3>2 DEF Unmarks, TidyInv
      <4>2. q # r
        BY <2>2, <3>2, <4>1, ChoresAreOwn DEF Unmarks
      <4> QED BY <1>1, <3>2, <4>1, <4>2 DEF Unmarks
    <3> QED BY <3>1, <3>2 DEF TidyInv
  <2> QED BY <2>1, <2>2
<1> QED BY <1>3, <1>4, <1>5 DEF TidyInv

\* What a request that continues has left.
LEMMA ContinueLeaves ==
  ASSUME TypeInv, NEW r \in Handlers, NEW todo, Continue(r, todo)
  PROVE  /\ todo = << >> => req'[r].pc = "idle"
         /\ todo # << >> => /\ req'[r].pc = "fs" /\ req'[r].todo = todo
                           /\ req'[r].job = req[r].job /\ req'[r].target = req[r].target
<1>1. req \in [Handlers -> Request]
  BY DEF TypeInv, TypeOK
<1>2. CASE todo = << >>
  BY <1>1, <1>2 DEF Continue, Idle
<1>3. CASE todo # << >>
  <2>1. req' = [req EXCEPT ![r] = [@ EXCEPT !.pc = "fs", !.todo = todo]]
    BY <1>3 DEF Continue
  <2> QED BY <1>1, <1>3, <2>1 DEF Request
<1> QED BY <1>2, <1>3

\* A relocation leaves the folder to follow the path, or has nothing to move.
LEMMA RelocateLeaves ==
  ASSUME TypeInv, NEW r \in Handlers, NEW j \in Jobs, j = req[r].job, Settled(j),
         NEW to \in Place, Relocate(r, j, path[j], to), UNCHANGED place, Fits(stage'[j], to)
  PROVE  /\ Placed(r, j)' /\ Chore(r)'
         /\ \A i \in Jobs : i # j => path'[i] = path[i]
<1>1. CASE IsDir(j, path[j])
  <2> DEFINE todo == <<Fs("move", j, path[j], to)>>
  <2>1. path' = [path EXCEPT ![j] = to] /\ Continue(r, todo) /\ todo # << >>
    BY <1>1 DEF Relocate
  <2>2. req'[r].pc = "fs" /\ req'[r].todo = todo /\ req'[r].job = j
    BY <2>1, ContinueLeaves
  <2>3. place[j] = path[j] /\ path'[j] = to /\ \A i \in Jobs : i # j => path'[i] = path[i]
    BY <2>1 DEF Settled, TypeInv, TypeOK
  <2> HIDE DEF todo
  <2>4. req'[r].todo = <<Fs("move", j, place'[j], path'[j])>>
    BY <2>2, <2>3 DEF todo
  <2>5. MoveLeft(r)'
    BY <2>2, <2>3, <2>4 DEF MoveLeft
  <2> QED BY <2>2, <2>3, <2>5 DEF Chore, Placed, Relocates
<1>2. CASE ~IsDir(j, path[j])
  <2>1. path' = path /\ Continue(r, << >>)
    BY <1>2 DEF Relocate
  <2>2. req'[r].pc = "idle"
    BY <2>1, ContinueLeaves
  <2>3. place[j] = None
    BY <1>2 DEF IsDir, Settled
  <2> QED BY <2>1, <2>2, <2>3 DEF Settled, Fits, Placed, Chore
<1> QED BY <1>1, <1>2

\* What a commit knows of its job, and where it takes it.
LEMMA CommitKnows ==
  ASSUME HistInv, NEW r \in Handlers, Commit(r)
  PROVE  /\ req[r].pc = "commit" /\ req[r].job \in Jobs /\ req[r].target \in Jobs
         /\ req[r].op \in AllOps
         /\ stage[req[r].job] \in Offered(req[r].op)
         /\ stage'[req[r].job] \in Landing(req[r].op)
         /\ \A i \in Jobs : i # req[r].job =>
              \/ stage'[i] = stage[i]
              \/ /\ req[r].op = "reattribute" /\ i = req[r].target
                 /\ stage[i] \in Post /\ stage'[i] = "not_selected"
<1>1. req[r].pc = "commit"
  BY DEF Commit, Committing, Move, Apply, UnApply, Waitlist, Reactivate, Reject, UnReject,
         Undo, PromoteFromFallback, NotSelected, UnNotSelected, Reattribute
<1>2. /\ TypeInv /\ UndoInv /\ \A i \in Jobs : RowsKnown(i)
      /\ SeesOffered(r) /\ SawTheRow(r)
  BY DEF HistInv, UndoInv, ExactInv
<1>3. /\ req[r].job \in Jobs /\ req[r].target \in Jobs /\ req[r].op \in AllOps
      /\ stage[req[r].job] \in Offered(req[r].op)
      /\ req[r].op = "reattribute" => stage[req[r].target] \in Post
  BY <1>1, <1>2 DEF TypeInv, TypeOK, ServesAJob, Request, SeesOffered, SawTheRow, Post
<1> QED BY <1>1, <1>2, <1>3, CommitLands

\* The commits that leave the folder where it is lead to stages it fits.
LEMMA StaysPut ==
  ASSUME HistInv, NEW r \in Handlers, \A i \in Own(r) : Settled(i), Commit(r),
         req[r].op \notin {"un_apply", "waitlist", "reactivate", "reject", "un_reject"},
         UNCHANGED <<path, place>>
  PROVE  \A i \in Own(r) : Settled(i)'
<1> DEFINE j == req[r].job
           op == req[r].op
<1>1. /\ op \in AllOps /\ j \in Jobs
      /\ stage[j] \in Offered(op) /\ stage'[j] \in Landing(op)
      /\ \A i \in Jobs : i # j =>
           stage'[i] = stage[i] \/ (stage[i] \in Post /\ stage'[i] = "not_selected")
      /\ Own(r) \subseteq Jobs
  BY CommitKnows DEF Own
<1> HIDE DEF j, op
<1>2. \/ stage[j] \in PreApply /\ stage'[j] \in PreApply \cup Post
      \/ stage[j] \in Post /\ stage'[j] \in Post
  BY <1>1 DEF op, AllOps, Moves, Undos, Offered, Landing, PreApply, Post, Applications
<1>3. ASSUME NEW p, NEW s, NEW t, Fits(s, p),
             (s \in PreApply /\ t \in PreApply \cup Post) \/ (s \in Post /\ t \in Post)
      PROVE  Fits(t, p)
  BY <1>3 DEF Fits, PreApply, Post, Applications
<1>4. "not_selected" \in Post
  BY DEF Post
<1>5. ASSUME NEW i \in Own(r) PROVE Fits(stage'[i], place[i])
  <2>1. Fits(stage[i], place[i])
    BY DEF Settled
  <2>2. CASE i = j
    BY <1>2, <1>3, <2>1, <2>2
  <2>3. CASE i # j
    BY <1>1, <1>3, <1>4, <2>1, <2>3
  <2> QED BY <2>2, <2>3
<1> QED BY <1>5 DEF Settled

\* The commits that relocate the folder aim at a place that fits.
LEMMA CommitRelocates ==
  ASSUME HistInv, NEW r \in Handlers, Chore(r), \A i \in Own(r) : Settled(i), Commit(r),
         req[r].op \in {"un_apply", "waitlist", "reactivate", "reject", "un_reject"}
  PROVE  /\ \A i \in Own(r) : Placed(r, i)'
         /\ Chore(r)' /\ UNCHANGED <<place, marked>>
         /\ \A i \in Jobs \ Own(r) : path'[i] = path[i]
<1> DEFINE j == req[r].job
           op == req[r].op
           Goal == /\ \A i \in Own(r) : Placed(r, i)'
                   /\ Chore(r)' /\ UNCHANGED <<place, marked>>
                   /\ \A i \in Jobs \ Own(r) : path'[i] = path[i]
<1>1. /\ j \in Jobs /\ req[r].pc = "commit" /\ Own(r) \subseteq Jobs /\ j \in Own(r)
      /\ stage[j] \in Offered(op) /\ stage'[j] \in Landing(op)
      /\ \A i \in Jobs : i # j => stage'[i] = stage[i]
  BY CommitKnows DEF Own
<1>2. TypeInv /\ req[r].folder = path[j] /\ path[j] \in Place \cup {None}
  BY <1>1 DEF HistInv, Chore, TypeInv, TypeOK
<1>3. Top \in Place /\ <<"_waitlisted">> \in Place
  BY DEF Top, Place, Dirs
<1>4. ASSUME NEW to \in Place, Relocate(r, j, path[j], to), Fits(stage'[j], to),
             UNCHANGED <<place, marked>>
      PROVE  Goal
  <2>1. /\ \A i \in Own(r) : i = j => Placed(r, i)'
        /\ Chore(r)' /\ \A i \in Jobs : i # j => path'[i] = path[i]
    BY <1>1, <1>2, <1>4, RelocateLeaves
  <2>2. \A i \in Own(r) : i # j => Placed(r, i)'
    BY <1>1, <1>4, <2>1 DEF Settled, Placed
  <2> QED BY <1>1, <1>4, <2>1, <2>2
<1> HIDE DEF j
<1>5. CASE op \in {"un_apply", "reactivate", "un_reject"}
  <2>1. UnApply(r) \/ Reactivate(r) \/ UnReject(r)
    BY <1>5 DEF Commit, Committing, Move, Moves, Apply, UnApply, Waitlist, Reactivate, Reject,
                UnReject, Undo, PromoteFromFallback, NotSelected, UnNotSelected, Reattribute
  <2>2. Relocate(r, j, path[j], Top) /\ UNCHANGED <<place, marked>>
    BY <1>2, <2>1 DEF UnApply, Reactivate, UnReject, j
  <2>3. Fits(stage'[j], Top)
    BY <1>1, <1>5 DEF Landing, Fits, PreApply
  <2> QED BY <1>3, <1>4, <2>2, <2>3
<1>6. CASE op = "waitlist"
  <2>1. Waitlist(r)
    BY <1>6 DEF Commit, Committing, Move, Moves, Apply, UnApply, Waitlist, Reactivate, Reject,
                UnReject, Undo, PromoteFromFallback, NotSelected, UnNotSelected, Reattribute
  <2>2. Relocate(r, j, path[j], <<"_waitlisted">>) /\ UNCHANGED <<place, marked>>
    BY <2>1 DEF Waitlist, j
  <2>3. Fits(stage'[j], <<"_waitlisted">>)
    BY <1>1, <1>6 DEF Landing, Fits
  <2> QED BY <1>3, <1>4, <2>2, <2>3
<1>7. CASE op = "reject"
  <2> DEFINE to == IF path[j] = None THEN Top ELSE Append(path[j], "_rejected")
  <2>1. Reject(r)
    BY <1>7 DEF Commit, Committing, Move, Moves, Apply, UnApply, Waitlist, Reactivate, Reject,
                UnReject, Undo, PromoteFromFallback, NotSelected, UnNotSelected, Reattribute
  <2>2. Relocate(r, j, path[j], to) /\ UNCHANGED <<place, marked>>
    BY <2>1 DEF Reject, j
  <2>3. stage'[j] = "rejected"
    BY <1>1, <1>7 DEF Landing
  <2>4. CASE path[j] = None
    <3>1. place[j] = None /\ ~IsDir(j, path[j])
      BY <1>1, <2>4 DEF IsDir, Settled
    <3>2. path' = path /\ Continue(r, << >>)
      BY <2>2, <3>1 DEF Relocate
    <3>3. req'[r].pc = "idle"
      BY <1>2, <3>2, ContinueLeaves
    <3>4. \A i \in Own(r) : Placed(r, i)'
      BY <1>1, <2>2, <3>1, <3>2 DEF Settled, Placed, Fits
    <3>5. Chore(r)'
      BY <3>3 DEF Chore
    <3> QED BY <2>2, <3>2, <3>4, <3>5
  <2>5. CASE path[j] # None
    <3>1. path[j] \in Seq(Dirs) /\ "_rejected" \in Dirs
      BY <1>2, <2>5 DEF Place, Dirs
    <3>2. /\ Append(path[j], "_rejected") \in Place
          /\ Append(path[j], "_rejected") # Top
          /\ Append(path[j], "_rejected")[Len(Append(path[j], "_rejected"))] = "_rejected"
      BY <3>1 DEF Place, Top
    <3>3. Fits(stage'[j], to)
      BY <2>3, <2>5, <3>2 DEF Fits
    <3> QED BY <1>4, <2>2, <2>5, <3>2, <3>3
  <2> QED BY <2>4, <2>5
<1> QED BY <1>5, <1>6, <1>7

\* A commit with markers to remove and to put leaves that to do, and no other
\* marker is where it does not belong.
LEMMA MarkersLeft ==
  ASSUME HistInv, NEW r \in Handlers, Own(r) \subseteq Jobs,
         NEW j \in Own(r), NEW k \in Own(r), Settled(j), Settled(k),
         NEW U \in {<< >>, UnmarkOps(j, path[j])}, NEW M \in {<< >>, MarkerOps(k)},
         Continue(r, U \o M), UNCHANGED <<path, place, marked>>,
         M # << >> => stage'[k] = "not_selected"
  PROVE  /\ Chore(r)'
         /\ U = UnmarkOps(j, path[j]) /\ j \in marked /\ place[j] # None =>
              /\ req'[r].pc = "fs"
              /\ Head(req'[r].todo).do = "unmark" /\ Head(req'[r].todo).job = j
<1> DEFINE u == Fs("unmark", j, path[j], path[j])
           m == Fs("mark", k, path[k], path[k])
<1>1. TypeInv /\ path[j] = place[j] /\ path[k] = place[k]
  BY DEF HistInv, Settled
<1>2. /\ u.do = "unmark" /\ u.job = j /\ u.at = path[j]
      /\ m.do = "mark" /\ m.job = k /\ m.at = path[k]
  BY DEF Fs
<1>3. U = << >> \/ (U = <<u>> /\ j \in marked)
  BY DEF UnmarkOps
<1>4. M = << >> \/ (M = <<m>> /\ stage'[k] = "not_selected")
  BY DEF MarkerOps
<1>5. U = UnmarkOps(j, path[j]) /\ j \in marked /\ place[j] # None => U = <<u>>
  BY <1>1 DEF UnmarkOps, IsDir
<1> HIDE DEF u, m
<1>6. CASE U \o M = << >>
  <2>1. req'[r].pc = "idle"
    BY <1>1, <1>6, ContinueLeaves
  <2>2. U # <<u>>
    BY <1>3, <1>4, <1>6
  <2> QED BY <1>5, <2>1, <2>2 DEF Chore
<1>7. CASE U \o M # << >>
  <2>1. /\ req'[r].pc = "fs" /\ req'[r].todo = U \o M
        /\ j \in Own(r)' /\ k \in Own(r)'
    <3>1. PICK todo : todo = U \o M
      OBVIOUS
    <3>2. Continue(r, todo) /\ todo # << >>
      BY <1>7, <3>1
    <3>3. /\ req'[r].pc = "fs" /\ req'[r].todo = todo
          /\ req'[r].job = req[r].job /\ req'[r].target = req[r].target
      BY <1>1, <3>2, ContinueLeaves
    <3>4. Own(r)' = Own(r)
      BY <3>3 DEF Own
    <3> QED BY <3>1, <3>3, <3>4
  <2>2. U = <<u>> => Head(U \o M) = u
    <3>1. CASE U = <<u>> /\ M = << >>
      BY <3>1
    <3>2. CASE U = <<u>> /\ M = <<m>>
      BY <3>2
    <3> QED BY <1>4, <3>1, <3>2
  <2>3. ASSUME NEW n \in 1..Len(U \o M)
        PROVE  ((U \o M)[n] = m /\ M = <<m>>) \/ (n = 1 /\ (U \o M)[n] = u /\ U = <<u>>)
    <3>1. CASE U = << >>
      BY <1>3, <1>4, <1>7, <3>1
    <3>2. CASE U = <<u>> /\ M = << >>
      BY <3>2
    <3>3. CASE U = <<u>> /\ M = <<m>>
      BY <3>3
    <3> QED BY <1>3, <1>4, <3>1, <3>2, <3>3
  <2>4. MarksLeft(r)'
    <3> SUFFICES ASSUME NEW n \in 1..Len(req'[r].todo)
                 PROVE  LET o == req'[r].todo[n] IN
                        /\ o.job \in Own(r)' /\ place'[o.job] = o.at
                        /\ \/ o.do = "mark" /\ stage'[o.job] = "not_selected"
                           \/ o.do = "unmark" /\ n = 1 /\ o.job \in marked'
      BY DEF MarksLeft
    <3>1. CASE req'[r].todo[n] = m /\ M = <<m>>
      BY <1>1, <1>2, <1>4, <2>1, <3>1
    <3>2. CASE n = 1 /\ req'[r].todo[n] = u /\ U = <<u>>
      BY <1>1, <1>2, <1>3, <2>1, <3>2
    <3> QED BY <2>1, <2>3, <3>1, <3>2
  <2>5. Chore(r)'
    BY <2>1, <2>4 DEF Chore
  <2> QED BY <1>2, <1>5, <2>1, <2>2, <2>5
<1> QED BY <1>6, <1>7

\* A commit whose job keeps its markers keeps them where they belong.
LEMMA MarksStay ==
  ASSUME HistInv, NEW r \in Handlers, \A i \in Own(r) : WellMarked(i),
         Commit(r), UNCHANGED <<place, marked>>,
         \/ req[r].op \notin {"un_not_selected", "reattribute"}
         \/ req[r].job \in marked /\ place[req[r].job] # None =>
              /\ req'[r].pc = "fs"
              /\ Head(req'[r].todo).do = "unmark" /\ Head(req'[r].todo).job = req[r].job
  PROVE  \A i \in Own(r) : Marked(r, i)'
<1> DEFINE j == req[r].job
           op == req[r].op
<1>1. /\ op \in AllOps /\ stage[j] \in Offered(op) /\ Own(r) \subseteq Jobs
      /\ \A i \in Jobs : i # j => stage'[i] = stage[i] \/ stage'[i] = "not_selected"
  BY CommitKnows DEF Own
<1>2. stage[j] = "not_selected" => op \in {"un_not_selected", "reattribute"}
  BY <1>1 DEF op, AllOps, Moves, Undos, Offered, PreApply, Applications
<1>3. ASSUME NEW i \in Own(r), i \in marked
      PROVE  place[i] # None /\ (stage'[i] = "not_selected" \/ Unmarks(r, i)')
  <2>1. place[i] # None /\ stage[i] = "not_selected"
    BY <1>3 DEF WellMarked
  <2>2. CASE i = j
    BY <1>2, <1>3, <2>1, <2>2 DEF Unmarks
  <2>3. CASE i # j
    BY <1>1, <2>1, <2>3
  <2> QED BY <2>1, <2>2, <2>3
<1> QED BY <1>3 DEF Marked

\* A request that is not cut off leaves its folder and its markers in order when it
\* commits.
LEMMA CommitIsOrderly ==
  ASSUME HistInv, NEW r \in Handlers, Chore(r), Commit(r),
         \A i \in Own(r) : Settled(i) /\ WellMarked(i)
  PROVE  /\ \A i \in Own(r) : Placed(r, i)' /\ Marked(r, i)'
         /\ Chore(r)' /\ UNCHANGED <<place, marked>>
         /\ \A i \in Jobs \ Own(r) : path'[i] = path[i]
<1> DEFINE j == req[r].job
           op == req[r].op
<1>1. /\ req[r].pc = "commit" /\ j \in Jobs /\ req[r].target \in Jobs /\ op \in AllOps
      /\ stage'[j] \in Landing(op)
      /\ Own(r) \subseteq Jobs /\ j \in Own(r) /\ req[r].target \in Own(r)
  BY CommitKnows DEF Own
<1>2. /\ TypeInv /\ req[r].folder = path[j] /\ stage \in [Jobs -> Stage]
  BY <1>1 DEF HistInv, Chore, TypeInv, TypeOK
<1> HIDE DEF j
<1>3. CASE op \in {"un_apply", "waitlist", "reactivate", "reject", "un_reject"}
  BY <1>3, CommitRelocates, MarksStay
<1>4. CASE op \notin {"un_apply", "waitlist", "reactivate", "reject", "un_reject"}
  <2>1. Move(r) \/ Apply(r) \/ Undo(r) \/ PromoteFromFallback(r) \/ NotSelected(r)
        \/ UnNotSelected(r) \/ Reattribute(r)
    BY <1>4 DEF Commit, Committing, UnApply, Waitlist, Reactivate, Reject, UnReject
  <2>2. UNCHANGED <<path, place, marked>>
    BY <2>1 DEF Move, Apply, Undo, PromoteFromFallback, NotSelected, UnNotSelected, Reattribute
  <2>3. \A i \in Own(r) : Placed(r, i)'
    BY <1>4, <2>2, StaysPut DEF Placed
  <2>4. CASE Move(r) \/ Undo(r) \/ PromoteFromFallback(r)
    <3>1. req'[r].pc = "idle"
      BY <1>2, <2>4, ContinueLeaves DEF Move, Undo, PromoteFromFallback
    <3>2. op \notin {"un_not_selected", "reattribute"}
      BY <2>4 DEF Move, Moves, Undo, PromoteFromFallback, Committing
    <3>3. Chore(r)'
      BY <3>1 DEF Chore
    <3> QED BY <2>2, <2>3, <3>2, <3>3, MarksStay
  <2>5. CASE Apply(r)
    <3>1. op = "apply" /\ req' = [req EXCEPT ![r].pc = "look"]
      BY <2>5 DEF Apply, Committing
    <3>2. req'[r].pc = "look" /\ req'[r].job = j
      BY <1>2, <3>1 DEF TypeInv, TypeOK, j
    <3>3. stage'[j] \in Post
      BY <1>1, <3>1 DEF Landing
    <3>4. Chore(r)'
      BY <3>2, <3>3 DEF Chore
    <3> QED BY <2>2, <2>3, <3>1, <3>4, MarksStay
  <2>6. CASE NotSelected(r)
    <3>1. /\ op = "not_selected" /\ Continue(r, MarkerOps(j))
          /\ Record(j, req[r].seen, "not_selected")
      BY <2>6 DEF NotSelected, Committing, j
    <3>2. stage'[j] = "not_selected"
      BY <1>1, <1>2, <3>1 DEF Record
    <3>3. << >> \o MarkerOps(j) = MarkerOps(j)
      BY DEF MarkerOps
    <3>4. Chore(r)'
      BY <1>1, <2>2, <3>1, <3>2, <3>3, MarkersLeft
    <3> QED BY <2>2, <2>3, <3>1, <3>4, MarksStay
  <2>7. CASE UnNotSelected(r)
    <3>1. Continue(r, UnmarkOps(j, path[j]))
      BY <1>2, <2>7 DEF UnNotSelected, j
    <3>2. UnmarkOps(j, path[j]) \o << >> = UnmarkOps(j, path[j])
      BY DEF UnmarkOps
    <3>3. /\ Chore(r)'
          /\ j \in marked /\ place[j] # None =>
               /\ req'[r].pc = "fs"
               /\ Head(req'[r].todo).do = "unmark" /\ Head(req'[r].todo).job = j
      BY <1>1, <2>2, <3>1, <3>2, MarkersLeft
    <3>4. \A i \in Own(r) : Marked(r, i)'
      BY <2>2, <3>3, MarksStay DEF j
    <3> QED BY <2>2, <2>3, <3>3, <3>4
  <2>8. CASE Reattribute(r)
    <3> DEFINE k == req[r].target
               back == Restored(j, "not_selected", "applied")
    <3>1. /\ Continue(r, UnmarkOps(j, path[j]) \o MarkerOps(k))
          /\ stage' = [stage EXCEPT ![j] = back, ![k] = "not_selected"]
      BY <1>2, <2>8 DEF Reattribute, j
    <3>2. stage'[k] = "not_selected"
      <4> HIDE DEF back
      <4> QED BY <1>1, <1>2, <3>1
    <3> HIDE DEF k, back
    <3>3. k \in Own(r)
      BY <1>1 DEF k
    <3>4. /\ Chore(r)'
          /\ j \in marked /\ place[j] # None =>
               /\ req'[r].pc = "fs"
               /\ Head(req'[r].todo).do = "unmark" /\ Head(req'[r].todo).job = j
      BY <1>1, <2>2, <3>1, <3>2, <3>3, MarkersLeft
    <3>5. \A i \in Own(r) : Marked(r, i)'
      BY <2>2, <3>4, MarksStay DEF j
    <3> QED BY <2>2, <2>3, <3>4, <3>5
  <2> QED BY <2>1, <2>4, <2>5, <2>6, <2>7, <2>8
<1> QED BY <1>3, <1>4

\* And so keeps all in order.
LEMMA CommitIsTidy ==
  ASSUME HistInv, TidyInv, Apart, NEW r \in Handlers, Commit(r)
  PROVE  TidyInv'
<1>1. TypeInv /\ req[r].pc = "commit" /\ marked \subseteq Jobs
  BY CommitKnows DEF HistInv, TypeInv, TypeOK
<1>2. Chore(r) /\ \A i \in Own(r) : Settled(i) /\ WellMarked(i)
  BY <1>1, TidyIsOrderly
     DEF Orderly, Placed, Marked, Relocates, MoveLeft, PathLeft, Unmarks, WellMarked
<1>3. PICK S : S = Own(r)
  OBVIOUS
<1>4. /\ Orderly(r, S)' /\ UNCHANGED <<place, marked>>
      /\ \A i \in Jobs \ S : path'[i] = path[i]
  BY <1>2, <1>3, CommitIsOrderly DEF Orderly
<1>5. \A i \in Jobs \ S : stage'[i] = stage[i]
  BY <1>1, <1>3, CommitsWriteTheirOwn
<1>6. \A q \in Handlers \ {r} : req'[q] = req[q]
  BY <1>1, ServesAlone DEF Serves
<1> QED BY <1>1, <1>3, <1>4, <1>5, <1>6, OrderlyIsTidy

\* The folder lookup of an application leaves the folder and the path to move.
LEMMA LookIsTidy ==
  ASSUME HistInv, TidyInv, Apart, NEW r \in Handlers, MoveFolderToApplied(r)
  PROVE  TidyInv'
<1> DEFINE j == req[r].job
           todo == <<Fs("move", j, path[j], <<"_applied">>), Fs("path", j, path[j], <<"_applied">>)>>
<1>1. /\ req[r].pc = "look" /\ UNCHANGED <<stage, path, place, marked>>
      /\ Continue(r, IF IsDir(j, path[j]) THEN todo ELSE << >>)
  BY DEF MoveFolderToApplied, rowVars
<1>2. PICK S : S = Own(r)
  OBVIOUS
<1>3. /\ TypeInv /\ j \in S /\ marked \subseteq Jobs
      /\ Chore(r) /\ \A i \in S : Settled(i) /\ WellMarked(i)
  BY <1>1, <1>2, TidyIsOrderly
     DEF HistInv, TypeInv, TypeOK, Own, Orderly, Placed, Marked, Relocates, MoveLeft, PathLeft,
         Unmarks, WellMarked
<1>4. stage[j] \in Post
  BY <1>1, <1>3 DEF Chore
<1>5. \A q \in Handlers \ {r} : req'[q] = req[q]
  BY <1>3, ServesAlone DEF Serves
<1> HIDE DEF j
<1>6. \A i \in S : Placed(r, i)' /\ Marked(r, i)'
  BY <1>1, <1>3 DEF Placed, Settled, Marked, WellMarked
<1>7. Chore(r)'
  <2>1. CASE IsDir(j, path[j])
    <3>1. todo # << >> /\ Continue(r, todo)
      BY <1>1, <2>1
    <3>2. req'[r].pc = "fs" /\ req'[r].todo = todo /\ req'[r].job = j
      <4>1. PICK t : t = todo
        OBVIOUS
      <4>2. Continue(r, t) /\ t # << >>
        BY <3>1, <4>1
      <4>3. req'[r].pc = "fs" /\ req'[r].todo = t /\ req'[r].job = req[r].job
        BY <1>3, <4>2, ContinueLeaves
      <4> QED BY <4>1, <4>3 DEF j
    <3>3. ApplyLeft(r)'
      BY <1>1, <1>3, <1>4, <3>2 DEF ApplyLeft, Settled
    <3> QED BY <3>2, <3>3 DEF Chore
  <2>2. CASE ~IsDir(j, path[j])
    <3>1. req'[r].pc = "idle"
      BY <1>1, <1>3, <2>2, ContinueLeaves
    <3> QED BY <3>1 DEF Chore
  <2> QED BY <2>1, <2>2
<1>8. Orderly(r, S)'
  BY <1>6, <1>7 DEF Orderly
<1> QED BY <1>1, <1>2, <1>3, <1>5, <1>8, OrderlyIsTidy

\* A folder operation does its part of what is left.
LEMMA FsStepIsOrderly ==
  ASSUME TypeInv, NEW r \in Handlers, FsStep(r), NEW S, S = Own(r), Orderly(r, S)
  PROVE  Orderly(r, S)'
<1> DEFINE j == req[r].job
           t == req[r].todo
           o == Head(t)
<1>1. req[r].pc = "fs" /\ UNCHANGED stage /\ Continue(r, Tail(t))
  BY DEF FsStep, rowVars
<1>2. /\ j \in Jobs /\ j \in S /\ S \subseteq Jobs /\ t \in Seq(FsOp) /\ t # << >>
      /\ path \in [Jobs -> Place \cup {None}] /\ place \in [Jobs -> Place \cup {None}]
      /\ marked \subseteq Jobs
  BY <1>1 DEF TypeInv, TypeOK, ServesAJob, Request, Own
<1>3. /\ place' = IF o.do = "move" THEN [place EXCEPT ![o.job] = o.to] ELSE place
      /\ path' = IF o.do = "path" THEN [path EXCEPT ![o.job] = o.to] ELSE path
      /\ marked' = CASE o.do = "mark" -> marked \cup {o.job}
                     [] o.do = "unmark" -> marked \ {o.job}
                     [] OTHER -> marked
  BY DEF FsStep
<1>4. o \in FsOp
  BY <1>2
<1>5. /\ \A i \in S : Settled(i) \/ (i = j /\ (MoveLeft(r) \/ PathLeft(r)))
      /\ \A i \in S : i \in marked =>
           /\ place[i] # None
           /\ stage[i] = "not_selected" \/ (o.do = "unmark" /\ o.job = i)
  BY DEF Orderly, Placed, Relocates, Marked, Unmarks
<1>6. Tail(t) = << >> => req'[r].pc = "idle" /\ Chore(r)'
  BY <1>1, <1>2, ContinueLeaves DEF Chore
<1> HIDE DEF j, t
<1>7. ASSUME o.do \in {"move", "path"} PROVE \A i \in S : Marked(r, i)'
  <2>1. marked' = marked /\ \A i \in Jobs : place[i] # None => place'[i] # None
    BY <1>2, <1>3, <1>4, <1>7, HistoryAssumption DEF FsOp
  <2> QED BY <1>1, <1>2, <1>5, <1>7, <2>1 DEF Marked
<1>8. CASE MoveLeft(r)
  <2>1. t = <<Fs("move", j, place[j], path[j])>> /\ Fits(stage[j], path[j])
    BY <1>8 DEF MoveLeft, j, t
  <2>2. o.do = "move" /\ o.job = j /\ o.to = path[j] /\ Tail(t) = << >>
    BY <2>1 DEF Fs
  <2>3. /\ path' = path /\ place'[j] = path[j]
        /\ \A i \in Jobs : i # j => place'[i] = place[i]
    BY <1>2, <1>3, <2>2
  <2>4. \A i \in S : Placed(r, i)'
    BY <1>1, <1>2, <1>5, <2>1, <2>3 DEF Settled, Placed
  <2> QED BY <1>6, <1>7, <2>2, <2>4 DEF Orderly
<1>9. CASE ApplyLeft(r)
  <2> DEFINE rest == Fs("path", j, path[j], <<"_applied">>)
  <2>1. /\ t = <<Fs("move", j, path[j], <<"_applied">>), rest>>
        /\ path[j] = place[j] /\ stage[j] \in Post
    BY <1>9 DEF ApplyLeft, j, t
  <2>2. o.do = "move" /\ o.job = j /\ o.to = <<"_applied">> /\ Tail(t) = <<rest>>
    BY <2>1 DEF Fs
  <2>3. ~MoveLeft(r) /\ ~PathLeft(r)
    <3>1. Len(t) = 2
      BY <2>1
    <3> QED BY <3>1 DEF MoveLeft, PathLeft, t
  <2>4. /\ path' = path /\ place'[j] = <<"_applied">>
        /\ \A i \in Jobs : i # j => place'[i] = place[i]
    BY <1>2, <1>3, <2>2
  <2>5. Continue(r, <<rest>>) /\ <<rest>> # << >>
    BY <1>1, <2>2
  <2>6. req'[r].pc = "fs" /\ req'[r].todo = <<rest>> /\ req'[r].job = j
    BY <1>2, <2>5, ContinueLeaves DEF j
  <2>7. PathLeft(r)'
    BY <1>1, <2>1, <2>4, <2>6 DEF PathLeft
  <2>8. \A i \in S : i # j => Placed(r, i)'
    BY <1>1, <1>2, <1>5, <2>4 DEF Settled, Placed
  <2>9. (\A i \in S : Placed(r, i)') /\ Chore(r)'
    BY <2>6, <2>7, <2>8 DEF Placed, Relocates, Chore
  <2> QED BY <1>7, <2>2, <2>9 DEF Orderly
<1>10. CASE PathLeft(r)
  <2>1. /\ t = <<Fs("path", j, path[j], <<"_applied">>)>>
        /\ place[j] = <<"_applied">> /\ stage[j] \in Post
    BY <1>10 DEF PathLeft, j, t
  <2>2. o.do = "path" /\ o.job = j /\ o.to = <<"_applied">> /\ Tail(t) = << >>
    BY <2>1 DEF Fs
  <2>3. /\ place' = place /\ path'[j] = <<"_applied">>
        /\ \A i \in Jobs : i # j => path'[i] = path[i]
    BY <1>2, <1>3, <2>2
  <2>4. \A i \in S : Placed(r, i)'
    BY <1>1, <1>2, <1>5, <2>1, <2>3 DEF Settled, Placed, Fits
  <2> QED BY <1>6, <1>7, <2>2, <2>4 DEF Orderly
<1>11. CASE MarksLeft(r)
  <2>1. ASSUME NEW n \in 1..Len(t)
        PROVE  /\ t[n].job \in S /\ place[t[n].job] = t[n].at
               /\ \/ t[n].do = "mark" /\ stage[t[n].job] = "not_selected"
                  \/ t[n].do = "unmark" /\ n = 1 /\ t[n].job \in marked
    BY <1>11 DEF MarksLeft, t
  <2>2. o = t[1] /\ 1 \in 1..Len(t)
    BY <1>2
  <2>3. o.do \in {"mark", "unmark"} /\ place[o.job] = o.at /\ o.job \in Jobs /\ o.at \in Place
    BY <1>4, <2>1, <2>2 DEF FsOp
  <2>4. ~MoveLeft(r) /\ ~PathLeft(r)
    <3>1. MoveLeft(r) \/ PathLeft(r) => o.do \in {"move", "path"}
      BY DEF MoveLeft, PathLeft, Fs, t
    <3> QED BY <2>3, <3>1
  <2>5. UNCHANGED <<path, place>> /\ \A i \in S : Placed(r, i)'
    BY <1>1, <1>3, <1>5, <2>3, <2>4 DEF Settled, Placed
  <2>6. \A i \in S : i \in marked' => place'[i] # None /\ stage'[i] = "not_selected"
    BY <1>1, <1>3, <1>5, <2>1, <2>2, <2>3, <2>5, HistoryAssumption
  <2>7. CASE Tail(t) # << >>
    <3>1. req'[r].pc = "fs" /\ req'[r].todo = Tail(t) /\ Own(r)' = S
      BY <1>1, <1>2, <2>7, ContinueLeaves DEF Own
    <3>2. ASSUME NEW n \in 1..Len(Tail(t))
          PROVE  LET x == Tail(t)[n] IN
                 x.job \in S /\ place'[x.job] = x.at /\ x.do = "mark" /\ stage'[x.job] = "not_selected"
      <4>1. Tail(t)[n] = t[n + 1] /\ n + 1 \in 1..Len(t) /\ n + 1 # 1
        BY <1>2, <3>2
      <4> QED BY <1>1, <2>1, <2>5, <4>1
    <3>3. MarksLeft(r)'
      BY <3>1, <3>2 DEF MarksLeft
    <3>4. Chore(r)'
      BY <3>1, <3>3 DEF Chore
    <3> QED BY <2>5, <2>6, <3>4 DEF Orderly, Marked
  <2> QED BY <1>6, <2>5, <2>6, <2>7 DEF Orderly, Marked
<1> QED BY <1>1, <1>8, <1>9, <1>10, <1>11 DEF Orderly, Chore

\* And so keeps all in order.
LEMMA FsStepIsTidy ==
  ASSUME HistInv, TidyInv, Apart, NEW r \in Handlers, FsStep(r)
  PROVE  TidyInv'
<1> DEFINE o == Head(req[r].todo)
<1>1. TypeInv /\ TypeInv' /\ req[r].pc = "fs" /\ UNCHANGED stage
  BY FsStepIsTyped DEF HistInv, FsStep, rowVars
<1>2. PICK S : S = Own(r)
  OBVIOUS
<1>3. Orderly(r, S) /\ Orderly(r, S)'
  BY <1>1, <1>2, TidyIsOrderly, FsStepIsOrderly
<1>4. o.job \in S
  BY <1>1, <1>2, <1>3, ChoresAreOwn DEF Orderly
<1>5. \A i \in Jobs \ S : path'[i] = path[i] /\ place'[i] = place[i] /\ (i \in marked' <=> i \in marked)
  BY <1>1, <1>4 DEF FsStep, TypeInv, TypeOK
<1>6. \A q \in Handlers \ {r} : req'[q] = req[q]
  BY <1>1, ServesAlone DEF Serves
<1>7. marked' \subseteq Jobs
  BY <1>1 DEF TypeInv, TypeOK
<1> QED BY <1>1, <1>2, <1>3, <1>5, <1>6, <1>7, OrderlyIsTidy

\* While requests are about different jobs no folder operation fails: its folder and
\* its marker are where the request left them.
LEMMA FsNeverFails ==
  ASSUME HistInv, TidyInv, NEW r \in Handlers
  PROVE  ~FsFails(r)
<1> SUFFICES ASSUME FsFails(r) PROVE FALSE
  OBVIOUS
<1> DEFINE t == req[r].todo
           o == Head(t)
<1>1. /\ req[r].pc = "fs" /\ o.do # "path"
      /\ place[o.job] # o.at \/ (o.do = "unmark" /\ o.job \notin marked)
  BY DEF FsFails
<1>2. MoveLeft(r) \/ ApplyLeft(r) \/ PathLeft(r) \/ MarksLeft(r)
  BY <1>1 DEF TidyInv, Chore
<1>3. CASE MoveLeft(r) \/ ApplyLeft(r) \/ PathLeft(r)
  BY <1>1, <1>3 DEF MoveLeft, ApplyLeft, PathLeft, Fs
<1>4. CASE MarksLeft(r)
  <2>1. t \in Seq(FsOp) /\ t # << >>
    BY <1>1 DEF HistInv, TypeInv, TypeOK, ServesAJob, Request
  <2>2. o = t[1] /\ 1 \in 1..Len(t)
    BY <2>1
  <2>3. /\ place[o.job] = o.at
        /\ o.do = "mark" \/ (o.do = "unmark" /\ o.job \in marked)
    BY <1>4, <2>2 DEF MarksLeft
  <2> QED BY <1>1, <2>3
<1> QED BY <1>2, <1>3, <1>4

\* A request that reads a row has nothing to put in order yet.
LEMMA ReadIsTidy ==
  ASSUME TypeInv, TidyInv, NEW r \in Handlers, NEW op \in Ops, NEW j \in Jobs, NEW k \in Jobs,
         Read(r, op, j, k)
  PROVE  TidyInv'
<1>1. /\ req[r].pc = "idle" /\ UNCHANGED <<stage, path, place, marked>>
      /\ req'[r].pc = "commit" /\ req'[r].job = j /\ req'[r].folder = path[j]
      /\ \A q \in Handlers : q # r => req'[q] = req[q]
  BY DEF Read, rowVars, TypeInv, TypeOK
<1>2. ASSUME NEW q \in Handlers, q # r
      PROVE  /\ MoveLeft(q)' = MoveLeft(q) /\ ApplyLeft(q)' = ApplyLeft(q)
             /\ PathLeft(q)' = PathLeft(q) /\ MarksLeft(q)' = MarksLeft(q)
  BY <1>1, <1>2 DEF MoveLeft, ApplyLeft, PathLeft, MarksLeft, Own
<1>3. \A i \in Jobs : Settled(i) => Settled(i)'
  BY <1>1 DEF Settled
<1>4. \A i \in Jobs, q \in Handlers : Relocates(q, i) => Relocates(q, i)'
  BY <1>1, <1>2 DEF Relocates, MoveLeft, PathLeft
<1>5. \A i \in Jobs, q \in Handlers : Unmarks(q, i) => Unmarks(q, i)'
  BY <1>1 DEF Unmarks
<1>6. ASSUME NEW q \in Handlers PROVE Chore(q)'
  <2>1. CASE q = r
    BY <1>1, <2>1 DEF Chore
  <2>2. CASE q # r
    BY <1>1, <1>2, <2>2 DEF TidyInv, Chore
  <2> QED BY <2>1, <2>2
<1>7. marked \subseteq Jobs
  BY DEF TypeInv, TypeOK
<1> QED BY <1>1, <1>3, <1>4, <1>5, <1>6, <1>7 DEF TidyInv

\* Every step of undisturbed requests keeps folders and markers in order.
LEMMA NextIsTidy ==
  ASSUME Apart, ~Aborts, HistInv, TidyInv, [Next]_vars
  PROVE  TidyInv'
<1>1. ASSUME NEW r \in Handlers, NEW op \in Ops, NEW j \in Jobs, NEW k \in Jobs, Read(r, op, j, k)
      PROVE  TidyInv'
  BY <1>1, ReadIsTidy DEF HistInv
<1>2. CASE UNCHANGED <<stage, path, place, marked, req>>
  <2>1. \A r \in Handlers : /\ MoveLeft(r)' = MoveLeft(r) /\ ApplyLeft(r)' = ApplyLeft(r)
                           /\ PathLeft(r)' = PathLeft(r) /\ MarksLeft(r)' = MarksLeft(r)
    BY <1>2 DEF MoveLeft, ApplyLeft, PathLeft, MarksLeft, Own
  <2>2. \A i \in Jobs : Settled(i)' = Settled(i)
    BY <1>2 DEF Settled
  <2>3. \A r \in Handlers : Chore(r) => Chore(r)'
    BY <1>2, <2>1 DEF Chore
  <2>4. \A i \in Jobs, r \in Handlers : Relocates(r, i) => Relocates(r, i)'
    BY <1>2, <2>1 DEF Relocates
  <2>5. \A i \in marked, r \in Handlers : Unmarks(r, i) => Unmarks(r, i)'
    BY <1>2 DEF Unmarks
  <2> QED BY <1>2, <2>2, <2>3, <2>4, <2>5 DEF TidyInv
<1>3. ASSUME NEW j \in Jobs, WindowCloses(j)
      PROVE  UNCHANGED <<stage, path, place, marked, req>>
  BY <1>3 DEF WindowCloses
<1> QED BY <1>1, <1>2, <1>3, CommitIsTidy, LookIsTidy, FsStepIsTidy, FsNeverFails
        DEF Next, Abort, vars

\* Folders and markers are in order, for any number of jobs.
LEMMA TidyIsInvariant ==
  ASSUME ~StaleTabs, ~Aborts, ReattributeTo \subseteq Applications
  PROVE  Spec /\ []Apart => [](HistInv /\ TidyInv)
<1>1. Init => HistInv /\ TidyInv
  <2> SUFFICES ASSUME Init PROVE TidyInv
    BY HistInit
  <2>1. \A i \in Jobs : Settled(i)
    BY DEF Init, Settled, Fits
  <2> QED BY <2>1 DEF Init, TidyInv, Chore, Idle
<1>2. Apart /\ HistInv /\ TidyInv /\ [Next]_vars => HistInv' /\ TidyInv'
  BY HistNext, NextIsTidy
<1> QED BY <1>1, <1>2, PTL DEF Spec

\* Between requests the database names the place every folder is at, and that is
\* where the stage wants it: for any number of jobs, whatever chain of moves and
\* undos led there, while requests in progress are about different jobs and are not cut
\* off (actions.py).
THEOREM FoldersFollowStages ==
  ASSUME ~StaleTabs, ~Aborts, ReattributeTo \subseteq Applications
  PROVE  Spec /\ []Apart => []FolderFollowsStage
<1>1. ASSUME HistInv, TidyInv PROVE FolderFollowsStage
  <2> SUFFICES ASSUME Quiet, NEW j \in Jobs
               PROVE  /\ path[j] = place[j]
                      /\ place[j] # None =>
                           /\ stage[j] \in PreApply => place[j] = Top
                           /\ stage[j] = "waitlisted" => place[j] = <<"_waitlisted">>
                           /\ stage[j] = "rejected" <=>
                                place[j] # Top /\ place[j][Len(place[j])] = "_rejected"
    BY DEF FolderFollowsStage
  <2>1. Settled(j)
    BY <1>1, SettledWhenQuiet
  <2>2. stage[j] \in Stage /\ place[j] \in Place \cup {None}
    BY <1>1 DEF HistInv, TypeInv, TypeOK
  <2> QED BY <2>1, <2>2, FitsIsWanted DEF Settled
<1> QED BY <1>1, TidyIsInvariant, PTL

\* Between requests a NOT_SELECTED marker lies only in the folder of a job that
\* was not selected, under the same conditions.
THEOREM MarkersMeanNotSelected ==
  ASSUME ~StaleTabs, ~Aborts, ReattributeTo \subseteq Applications
  PROVE  Spec /\ []Apart => []MarkerMeansNotSelected
<1>1. ASSUME HistInv, TidyInv PROVE MarkerMeansNotSelected
  <2> SUFFICES ASSUME Quiet PROVE \A j \in marked : stage[j] = "not_selected"
    BY DEF MarkerMeansNotSelected
  <2>1. marked \subseteq Jobs
    BY <1>1 DEF HistInv, TypeInv, TypeOK
  <2> QED BY <1>1, <2>1, SettledWhenQuiet DEF WellMarked
<1> QED BY <1>1, TidyIsInvariant, PTL
=============================================================================
