--------------------------- MODULE PrepRunsProofs ---------------------------
(* Theorems about PrepRuns: type correctness and, when the operator never  *)
(* undoes an apply, the prep cap as an implementation of a slot pool.      *)
EXTENDS PrepRuns, FiniteSetTheorems, TLAPS

-----------------------------------------------------------------------------
(* Type correctness.  A Phase B process reads the path of its own job, so  *)
(* the type of out rests on every request and process naming a real job.   *)

Named(r) ==
  /\ req[r].pc # "idle" => req[r].job \in Jobs
  /\ req[r].pc = "spawn" => req[r].run \in Runs /\ task[req[r].run].job \in Jobs

JobsAreNamed ==
  /\ \A r \in Handlers : Named(r)
  /\ \A n \in Runs : proc[n] \in Live => task[n].job \in Jobs

TypeInv == TypeOK /\ JobsAreNamed

\* A fresh installation has no request, row or process.
LEMMA TypeInit == Init => TypeInv
  BY DEF Init, TypeInv, TypeOK, JobTypes, Request, Task, JobsAreNamed, Named, Stage,
         Idle, NoTask, Mode, Live, InPhaseA, InPhaseB, InExit, AllRoutes

(* Writing a stage, an audit row or a path keeps a job's row well typed. *)
LEMMA RowTypes ==
  ASSUME JobTypes, NEW j
  PROVE  /\ UNCHANGED jobVars => JobTypes'
         /\ ResetPrepToScored(j) => JobTypes'
         /\ ResetPrepToBriefingReady(j) => JobTypes'
         /\ \A s \in Stage : AuditOnly(j, s) => JobTypes'
         /\ \A s \in Stage : Transition(j, s) /\ UNCHANGED <<path, undo>> => JobTypes'
  BY DEF JobTypes, Stage, jobVars, ResetPrepToScored, ResetPrepToBriefingReady,
         AuditOnly, Transition

(* A step that leaves requests and task rows alone and moves one process    *)
(* from a live place keeps every job named.                                *)
LEMMA NamedAfterGo ==
  ASSUME TypeInv, NEW n \in Runs, NEW to, proc[n] \in Live,
         proc' = [proc EXCEPT ![n] = to], UNCHANGED <<req, task>>
  PROVE  JobsAreNamed'
  BY DEF TypeInv, TypeOK, JobsAreNamed, Named

\* Nothing changes who works for whom while requests, rows and processes stand still.
LEMMA NamedAfterIdle ==
  ASSUME TypeInv, UNCHANGED <<req, task, proc>>
  PROVE  JobsAreNamed'
  BY DEF TypeInv, TypeOK, JobsAreNamed, Named

(* A handler that goes idle, or moves on with the same job, keeps jobs named. *)
LEMMA NamedAfterRequest ==
  ASSUME TypeInv, NEW r \in Handlers, NEW q, req' = [req EXCEPT ![r] = q],
         q.pc # "idle" => q.job \in Jobs, q.pc # "spawn",
         UNCHANGED <<task, proc>>
  PROVE  JobsAreNamed'
  BY DEF TypeInv, TypeOK, JobsAreNamed, Named

\* The launching routes keep the types, also when they fail half way.
LEMMA TypeHandlers ==
  ASSUME TypeInv, NEW r \in Handlers,
         (\E route \in Routes, j \in Jobs : ReadJob(r, route, j))
           \/ HandlerStep(r) \/ SpawnFails(r) \/ HandlerError(r)
  PROVE  TypeInv'
<1> USE DEF TypeInv
<1>0. Idle \in Request /\ Idle.pc = "idle" /\ req[r] \in Request
  BY DEF TypeOK, Idle, Request, AllRoutes
<1>1. ASSUME NEW route \in Routes, NEW j \in Jobs, ReadJob(r, route, j) PROVE TypeInv'
  <2> DEFINE q == [pc |-> "claim", route |-> route, job |-> j, folder |-> path[j], run |-> None]
  <2>1. q \in Request
    BY PrepAssumption DEF Request, TypeOK, JobTypes
  <2>2. TypeOK'
    BY <1>1, <2>1, RowTypes DEF ReadJob, TypeOK, procVars
  <2>3. q.pc = "claim" /\ q.job = j /\ req' = [req EXCEPT ![r] = q]
    BY <1>1 DEF ReadJob
  <2>4. UNCHANGED <<task, proc>>
    BY <1>1 DEF ReadJob, procVars
  <2>5. JobsAreNamed'
    BY <2>3, <2>4, NamedAfterRequest
  <2> QED BY <2>2, <2>5
<1>2. CASE ClaimPrepSlot(r)
  <2> DEFINE q == [req[r] EXCEPT !.pc = IF req[r].route = "regenerate" THEN "clear" ELSE "record"]
  <2>1. req' = [req EXCEPT ![r] = q] /\ q \in Request /\ q.job = req[r].job
        /\ q.pc \in {"clear", "record"}
    BY <1>0, <1>2 DEF ClaimPrepSlot, Request, TypeOK
  <2>2. JobTypes'
    BY <1>2, RowTypes DEF ClaimPrepSlot, TypeOK, Stage
  <2>3. TypeOK'
    BY <1>2, <2>1, <2>2 DEF ClaimPrepSlot, TypeOK, procVars
  <2>4. req[r].job \in Jobs
    BY <1>2 DEF ClaimPrepSlot, JobsAreNamed, Named
  <2>5. JobsAreNamed'
    BY <1>2, <2>1, <2>4, NamedAfterRequest DEF ClaimPrepSlot, procVars
  <2> QED BY <2>3, <2>5
<1>3. CASE ClaimMissed(r) \/ HandlerError(r)
  <2>1. req' = [req EXCEPT ![r] = Idle] /\ UNCHANGED <<jobVars, task, procVars, disk, wd>>
    BY <1>3 DEF ClaimMissed, HandlerError
  <2>2. TypeOK'
    BY <1>0, <2>1, RowTypes DEF TypeOK, procVars
  <2>3. JobsAreNamed'
    BY <1>0, <2>1, NamedAfterRequest DEF procVars
  <2> QED BY <2>2, <2>3
<1>4. CASE ClearFolder(r)
  <2> DEFINE q == [req[r] EXCEPT !.pc = "record"]
  <2>1. req' = [req EXCEPT ![r] = q] /\ q \in Request /\ q.job = req[r].job /\ q.pc = "record"
    BY <1>0, <1>4 DEF ClearFolder, Request, TypeOK
  <2>2. JobTypes' /\ disk' \in [Runs -> {"absent", "present", "stale"}]
    BY <1>4 DEF ClearFolder, TypeOK, JobTypes
  <2>3. TypeOK'
    BY <1>4, <2>1, <2>2 DEF ClearFolder, TypeOK, procVars
  <2>4. req[r].job \in Jobs
    BY <1>4 DEF ClearFolder, JobsAreNamed, Named
  <2>5. JobsAreNamed'
    BY <1>4, <2>1, <2>4, NamedAfterRequest DEF ClearFolder, procVars
  <2> QED BY <2>3, <2>5
<1>5. CASE RecordStart(r)
  <2>1. PICK n \in Runs :
          /\ task' = [task EXCEPT ![n] = [status |-> "running", job |-> req[r].job,
                                          mode |-> LaunchMode(req[r].route), aged |-> FALSE]]
          /\ req' = [req EXCEPT ![r].pc = "spawn", ![r].run = n]
    BY <1>5 DEF RecordStart
  <2>2. req[r].job \in Jobs
    BY <1>5 DEF RecordStart, JobsAreNamed, Named
  <2>3. task' \in [Runs -> Task] /\ \A m \in Runs : task[m].job \in Jobs => task'[m].job \in Jobs
    BY <2>1, <2>2 DEF TypeOK, Task, LaunchMode, Mode
  <2> DEFINE q == [req[r] EXCEPT !.pc = "spawn", !.run = n]
  <2>a. q \in Request
    BY <1>0 DEF Request
  <2>b. req' = [req EXCEPT ![r] = q]
    BY <1>0, <2>1 DEF Request
  <2>4. req' \in [Handlers -> Request]
    BY <2>a, <2>b DEF TypeOK
  <2>5. TypeOK'
    BY <1>5, <2>3, <2>4, RowTypes DEF RecordStart, TypeOK, procVars
  <2>6. JobsAreNamed'
    BY <1>5, <2>1, <2>2, <2>3 DEF RecordStart, TypeOK, JobsAreNamed, Named, procVars
  <2> QED BY <2>5, <2>6
<1>6. CASE Spawn(r)
  <2>1. req[r].run \in Runs /\ task[req[r].run].job \in Jobs
    BY <1>6 DEF Spawn, JobsAreNamed, Named
  <2>2. TypeOK'
    BY <1>0, <1>6, RowTypes DEF Spawn, TypeOK, Live, InPhaseA, InPhaseB
  <2>3. JobsAreNamed'
    BY <1>0, <1>6, <2>1 DEF Spawn, TypeOK, JobsAreNamed, Named
  <2> QED BY <2>2, <2>3
<1>7. CASE SpawnFails(r)
  <2>1. TypeOK'
    BY <1>0, <1>7, RowTypes DEF SpawnFails, TypeOK, Task, procVars
  <2>2. JobsAreNamed'
    BY <1>0, <1>7 DEF SpawnFails, TypeOK, JobsAreNamed, Named, procVars
  <2> QED BY <2>1, <2>2
<1> QED BY <1>1, <1>2, <1>3, <1>4, <1>5, <1>6, <1>7 DEF HandlerStep

\* The operator's other routes and the 48-hour reset keep the types.
LEMMA TypeOperator ==
  ASSUME TypeInv, NEW j \in Jobs, OperatorStep(j) \/ ReapBriefingReadyStale(j)
  PROVE  TypeInv'
<1> USE DEF TypeInv
<1>1. CASE ReapBriefingReadyStale(j)
  <2>1. TypeOK'
    BY <1>1, RowTypes DEF ReapBriefingReadyStale, TypeOK, Stage, procVars
  <2>2. JobsAreNamed'
    BY <1>1, NamedAfterIdle DEF ReapBriefingReadyStale, procVars
  <2> QED BY <2>1, <2>2
<1>2. ASSUME NEW op, NEW from, NEW to \in Stage, OperatorMoves(op, j, from, to)
      PROVE  TypeInv'
  <2>1. JobTypes'
    BY <1>2 DEF OperatorMoves, Transition, TypeOK, JobTypes
  <2>2. TypeOK'
    BY <1>2, <2>1 DEF OperatorMoves, TypeOK, procVars
  <2>3. JobsAreNamed'
    BY <1>2, NamedAfterIdle DEF OperatorMoves, procVars
  <2> QED BY <2>2, <2>3
<1>3. undo[j] \in Stage /\ {"waitlisted", "materials_drafted", "scored", "rejected", "applied"} \subseteq Stage
  BY DEF TypeOK, JobTypes, Stage
<1> QED BY <1>1, <1>2, <1>3 DEF OperatorStep, Waitlist, Reactivate, Reject, UnReject, Apply, UnApply

(* The places a process moves between. *)
LEMMA PlaceOfStep ==
  ASSUME TypeInv, NEW n \in Runs, ProcStep(n)
  PROVE  \E to \in Live \cup {"done"} : proc[n] \in Live /\ proc' = [proc EXCEPT ![n] = to]
  BY DEF ProcStep, SkipA, StartA, FinishA, RejectA, FailA, CommitA, AuditA, AbortB, StartB,
         FinishB, CommitB, AuditB, FailB, InvalidB, UndoB, UndoBAudit, UndoBFails, Raise, RecordSucceeded,
         RecordFailed, Shim, Go, AfterA, Live, InPhaseA, InPhaseB, InExit

(* What a process writes to its job's row, its folder and its task row. *)
LEMMA RowOfStep ==
  ASSUME TypeInv, NEW n \in Runs, ProcStep(n)
  PROVE  JobTypes'
<1> USE DEF TypeInv, TypeOK
<1>1. {"briefing_ready", "materials_drafted"} \subseteq Stage
  BY DEF Stage
<1>2. CASE CommitA(n)
  BY <1>1, <1>2 DEF CommitA, JobTypes
<1>3. CASE CommitB(n) \/ UndoB(n)
  BY <1>1, <1>3 DEF CommitB, UndoB, JobTypes
<1>4. CASE AuditA(n) \/ AuditB(n) \/ UndoBAudit(n)
  BY <1>1, <1>4, RowTypes DEF AuditA, AuditB, UndoBAudit
<1>5. CASE UNCHANGED jobVars
  BY <1>5, RowTypes
<1>6. CASE RejectA(n) \/ FailA(n) \/ Shim(n)
  BY <1>5, <1>6, RowTypes DEF RejectA, FailA, Shim
<1> QED BY <1>2, <1>3, <1>4, <1>5, <1>6 DEF ProcStep, SkipA, StartA, FinishA, AbortB, StartB,
             FinishB, FailB, InvalidB, UndoBFails, Raise, RecordSucceeded,
             RecordFailed

\* A process step leaves folders in one of their three states and reads a folder of some run.
LEMMA FolderOfStep ==
  ASSUME TypeInv, NEW n \in Runs, ProcStep(n)
  PROVE  /\ disk' \in [Runs -> {"absent", "present", "stale"}]
         /\ out' \in [Runs -> Runs \cup {None}]
<1> USE DEF TypeInv, TypeOK
<1>1. CASE StartA(n)
  BY <1>1 DEF StartA
<1>2. CASE RejectA(n)
  BY <1>2 DEF RejectA
<1>3. CASE StartB(n)
  <2>1. task[n].job \in Jobs
    BY <1>3 DEF StartB, Go, JobsAreNamed, Live, InPhaseB
  <2> QED BY <1>3, <2>1 DEF StartB, JobOf, JobTypes
<1>4. CASE UNCHANGED <<out, disk>>
  BY <1>4
<1> QED BY <1>1, <1>2, <1>3, <1>4 DEF ProcStep, SkipA, FinishA, FailA, CommitA, AuditA, AbortB,
             FinishB, CommitB, AuditB, FailB, InvalidB, UndoB, UndoBAudit, UndoBFails, Raise, RecordSucceeded,
             RecordFailed, Shim

\* A row keeps whose run it is, of which kind and how old.
KeepsRow(m) ==
  /\ task'[m].job = task[m].job
  /\ task'[m].mode = task[m].mode
  /\ task'[m].aged = task[m].aged

\* A new status or age leaves a background_tasks row typed and the other rows alone.
LEMMA TaskUpdate ==
  ASSUME task \in [Runs -> Task], NEW n \in Runs,
         NEW status \in {"unused", "running", "succeeded", "failed"}, NEW aged \in BOOLEAN,
         task' = [task EXCEPT ![n] = [task[n] EXCEPT !.status = status, !.aged = aged]]
  PROVE  /\ task' \in [Runs -> Task]
         /\ \A m \in Runs : task'[m].job = task[m].job /\ task'[m].mode = task[m].mode
         /\ \A m \in Runs \ {n} : task'[m] = task[m]
         /\ task'[n].status = status /\ task'[n].aged = aged
<1> DEFINE row == [task[n] EXCEPT !.status = status, !.aged = aged]
<1>1. task[n] \in Task
  OBVIOUS
<1>2. row \in Task /\ row.job = task[n].job /\ row.mode = task[n].mode
      /\ row.status = status /\ row.aged = aged
  BY <1>1 DEF Task
<1>3. task' = [task EXCEPT ![n] = row]
  OBVIOUS
<1> HIDE DEF row
<1> QED BY <1>2, <1>3

\* Closing a row changes its status only, and only if it is running.
LEMMA TaskClosed ==
  ASSUME task \in [Runs -> Task], NEW n \in Runs, NEW status \in {"succeeded", "failed"},
         Close(n, status)
  PROVE  /\ task' \in [Runs -> Task]
         /\ \A m \in Runs : KeepsRow(m)
         /\ \A m \in Runs \ {n} : task'[m] = task[m]
         /\ task'[n].status = IF task[n].status = "running" THEN status ELSE task[n].status
<1> DEFINE s == IF task[n].status = "running" THEN status ELSE task[n].status
<1>1. task[n] \in Task
  OBVIOUS
<1>2. s \in {"unused", "running", "succeeded", "failed"} /\ task[n].aged \in BOOLEAN
  BY <1>1 DEF Task
<1>3. task' = [task EXCEPT ![n] = [task[n] EXCEPT !.status = s, !.aged = task[n].aged]]
  BY <1>1 DEF Close, Task
<1> HIDE DEF s
<1>4. /\ task' \in [Runs -> Task]
      /\ \A m \in Runs : task'[m].job = task[m].job /\ task'[m].mode = task[m].mode
      /\ \A m \in Runs \ {n} : task'[m] = task[m]
      /\ task'[n].status = s /\ task'[n].aged = task[n].aged
  BY <1>2, <1>3, TaskUpdate
<1> QED BY <1>4 DEF KeepsRow, s

\* A process step closes at most its own row, and only at its end: when it succeeds or
\* fails, or when the shim catches it.
LEMMA TaskOfStep ==
  ASSUME TypeInv, NEW n \in Runs, ProcStep(n)
  PROVE  /\ task' \in [Runs -> Task]
         /\ \A m \in Runs : KeepsRow(m)
         /\ \A m \in Runs \ {n} : task'[m] = task[m]
         /\ \/ task' = task
            \/ /\ task'[n].status = IF task[n].status = "running" THEN "succeeded" ELSE task[n].status
               /\ proc[n] = "ok" /\ proc'[n] = "done"
            \/ /\ task'[n].status = IF task[n].status = "running" THEN "failed" ELSE task[n].status
               /\ \/ proc[n] = "fail" /\ proc'[n] = "done"
                  \/ proc[n] = "crash" /\ proc'[n] = "shim"
<1> USE DEF TypeInv, TypeOK
<1>1. CASE UNCHANGED task
  BY <1>1 DEF KeepsRow
<1>2. CASE RecordSucceeded(n)
  BY <1>1, <1>2, TaskClosed DEF RecordSucceeded, Go
<1>3. CASE RecordFailed(n)
  BY <1>1, <1>3, TaskClosed DEF RecordFailed, Go
<1> QED BY <1>1, <1>2, <1>3 DEF ProcStep, SkipA, StartA, FinishA, RejectA, FailA, CommitA, AuditA,
             AbortB, StartB, FinishB, CommitB, AuditB, FailB, InvalidB, UndoB, UndoBAudit, UndoBFails, Raise, Shim

\* A process touches neither the requests nor the watchdog.
LEMMA OthersOfStep ==
  ASSUME NEW n \in Runs, ProcStep(n)
  PROVE  UNCHANGED <<req, wd>>
  BY DEF ProcStep, SkipA, StartA, FinishA, RejectA, FailA, CommitA, AuditA, AbortB, StartB,
         FinishB, CommitB, AuditB, FailB, InvalidB, UndoB, UndoBAudit, UndoBFails, Raise, RecordSucceeded,
         RecordFailed, Shim

\* A process, its death, its ageing and the orphan sweep keep the types.
LEMMA TypeProcess ==
  ASSUME TypeInv, NEW n \in Runs, ProcStep(n) \/ Kill(n) \/ Age(n) \/ SweepOrphan(n)
  PROVE  TypeInv'
<1> USE DEF TypeInv
<1>1. CASE ProcStep(n)
  <2>1. PICK to \in Live \cup {"done"} : proc[n] \in Live /\ proc' = [proc EXCEPT ![n] = to]
    BY <1>1, PlaceOfStep
  <2>2. TypeOK'
    BY <1>1, <2>1, RowOfStep, FolderOfStep, TaskOfStep, OthersOfStep DEF TypeOK
  <2>3. JobsAreNamed'
    BY <1>1, <2>1, TaskOfStep, OthersOfStep DEF TypeOK, JobsAreNamed, Named, KeepsRow
  <2> QED BY <2>2, <2>3
<1>2. CASE Kill(n)
  <2>1. proc[n] \in Live
    BY <1>2 DEF Kill, Working, Live, InPhaseA, InPhaseB, InExit
  <2>2. TypeOK'
    BY <1>2, RowTypes DEF Kill, TypeOK
  <2>3. JobsAreNamed'
    BY <1>2, <2>1, NamedAfterGo DEF Kill
  <2> QED BY <2>2, <2>3
<1>3. CASE Age(n)
  <2>a. task[n] \in Task /\ task' = [task EXCEPT ![n] = [task[n] EXCEPT !.aged = TRUE]]
    BY <1>3 DEF Age, TypeOK
  <2>b. [task[n] EXCEPT !.aged = TRUE] \in Task
    BY <2>a DEF Task
  <2>1. TypeOK'
    BY <1>3, <2>a, <2>b, RowTypes DEF Age, TypeOK, procVars
  <2>2. JobsAreNamed'
    BY <1>3 DEF Age, TypeOK, JobsAreNamed, Named, procVars
  <2> QED BY <2>1, <2>2
<1>4. CASE SweepOrphan(n)
  <2>1. TypeOK'
    BY <1>4, RowTypes DEF SweepOrphan, TypeOK, procVars
  <2>2. JobsAreNamed'
    BY <1>4, NamedAfterIdle DEF SweepOrphan, procVars
  <2> QED BY <2>1, <2>2
<1> QED BY <1>1, <1>2, <1>3, <1>4

\* The watchdog and a restart of the container keep the types.
LEMMA TypeWatchdog ==
  ASSUME TypeInv, WatchdogStep \/ Restart
  PROVE  TypeInv'
<1> USE DEF TypeInv
<1>1. CASE FindStuck
  <2>1. TypeOK'
    BY <1>1, RowTypes DEF FindStuck, Stuck, TypeOK, procVars
  <2>2. JobsAreNamed'
    BY <1>1, NamedAfterIdle DEF FindStuck, procVars
  <2> QED BY <2>1, <2>2
<1>2. ASSUME NEW n \in Runs, ReapFail(n) PROVE TypeInv'
  <2>1. TypeOK'
    BY <1>2, RowTypes, TaskClosed DEF ReapFail, TypeOK, procVars
  <2>2. JobsAreNamed'
    BY <1>2 DEF ReapFail, Close, TypeOK, JobsAreNamed, Named, procVars
  <2> QED BY <2>1, <2>2
<1>3. CASE ReapReset
  <2>1. JobTypes'
    BY <1>3, RowTypes DEF ReapReset, TypeOK
  <2>2. TypeOK'
    BY <1>3, <2>1 DEF ReapReset, TypeOK, procVars
  <2>3. JobsAreNamed'
    BY <1>3, NamedAfterIdle DEF ReapReset, procVars
  <2> QED BY <2>2, <2>3
<1>4. CASE Restart
  <2>1. TypeOK'
    BY <1>4, RowTypes DEF Restart, TypeOK, Idle, Request, AllRoutes
  <2>2. JobsAreNamed'
    BY <1>4 DEF Restart, TypeOK, JobsAreNamed, Named, Idle, Live, InPhaseA, InPhaseB, InExit
  <2> QED BY <2>1, <2>2
<1> QED BY <1>1, <1>2, <1>3, <1>4 DEF WatchdogStep

\* Every step keeps the types.
LEMMA TypeStep == TypeInv /\ [Next]_vars => TypeInv'
<1> SUFFICES ASSUME TypeInv, [Next]_vars PROVE TypeInv'
  OBVIOUS
<1>1. CASE UNCHANGED vars
  BY <1>1 DEF TypeInv, TypeOK, JobTypes, JobsAreNamed, Named, vars
<1>2. CASE Next
  BY <1>2, TypeHandlers, TypeOperator, TypeProcess, TypeWatchdog DEF Next
<1> QED BY <1>1, <1>2

(* Every variable keeps its type: in particular stages stay within the    *)
(* jobs.stage values this part of the system writes, for any number of     *)
(* jobs, runs and requests, any routes and any faults.                     *)
THEOREM TypeCorrect == Spec => []TypeOK
<1>1. Spec => []TypeInv
  BY TypeInit, TypeStep, PTL DEF Spec
<1> QED BY <1>1, PTL DEF TypeInv

-----------------------------------------------------------------------------
(* The cap.  Seen through Preparing, every step but a claim either leaves   *)
(* the set alone or takes one job out of it, unless an undone apply puts a  *)
(* job back at prep_in_progress without a claim.                           *)

Releases == \E j \in Jobs : Preparing' = Preparing \ {j}
Keeps == Preparing' = Preparing

\* A write of any other stage takes the job out of preparation, or leaves the set alone.
LEMMA LeavingPrep ==
  ASSUME JobTypes, NEW j, NEW s, s # "prep_in_progress", stage' = [stage EXCEPT ![j] = s]
  PROVE  Releases \/ Keeps
<1>1. CASE j \in Jobs
  <2>1. Preparing' = Preparing \ {j}
    BY <1>1 DEF Preparing, JobTypes
  <2> QED BY <1>1, <2>1 DEF Releases
<1>2. CASE j \notin Jobs
  BY <1>2 DEF Preparing, JobTypes, Keeps
<1> QED BY <1>1, <1>2

\* A step that writes no stage leaves the set alone.
LEMMA SameStage == UNCHANGED stage => Keeps
  BY DEF Keeps, Preparing

\* The guarded resets release at most one slot.
LEMMA ResetReleases ==
  ASSUME JobTypes, NEW j, ResetPrepToScored(j) \/ ResetPrepToBriefingReady(j)
  PROVE  Releases \/ Keeps
  BY LeavingPrep, SameStage DEF ResetPrepToScored, ResetPrepToBriefingReady, Transition, jobVars

\* No step of the subprocess puts a job into preparation.
LEMMA ProcessReleases ==
  ASSUME TypeInv, NEW n \in Runs, ProcStep(n)
  PROVE  Releases \/ Keeps
<1> JobTypes
  BY DEF TypeInv, TypeOK
<1>1. CASE CommitA(n) \/ CommitB(n) \/ UndoB(n)
  BY <1>1, LeavingPrep DEF CommitA, CommitB, UndoB
<1>2. CASE UNCHANGED stage
  BY <1>2, SameStage
<1>3. CASE RejectA(n) \/ FailA(n) \/ Shim(n)
  BY <1>2, <1>3, ResetReleases DEF RejectA, FailA, Shim, jobVars
<1> QED BY <1>1, <1>2, <1>3 DEF ProcStep, SkipA, StartA, FinishA, AuditA, AbortB, StartB, FinishB,
             AuditB, AuditOnly, FailB, InvalidB, UndoBAudit, UndoBFails, Raise, RecordSucceeded, RecordFailed, jobVars

\* No route but un-apply puts a job into preparation without a claim.
LEMMA OperatorReleases ==
  ASSUME TypeInv, "un_apply" \notin Ops, NEW j \in Jobs,
         OperatorStep(j) \/ ReapBriefingReadyStale(j)
  PROVE  Releases \/ Keeps
<1> JobTypes
  BY DEF TypeInv, TypeOK
<1>1. ASSUME NEW op, NEW from, NEW to, to # "prep_in_progress", OperatorMoves(op, j, from, to)
      PROVE  Releases \/ Keeps
  BY <1>1, LeavingPrep DEF OperatorMoves, Transition
<1>2. ~UnApply(j)
  BY DEF UnApply, OperatorMoves
<1>3. CASE ReapBriefingReadyStale(j)
  BY <1>3, LeavingPrep DEF ReapBriefingReadyStale, Transition
<1> QED BY <1>1, <1>2, <1>3 DEF OperatorStep, Waitlist, Reactivate, Reject, UnReject, Apply

(* The pool counts with the same Cardinality. *)
LEMMA SameCount == \A S : Slots!Cardinality(S) = Cardinality(S)
  BY DEF Slots!Cardinality, Cardinality, Slots!IsFiniteSet, IsFiniteSet

\* The claim's conditional UPDATE takes a free slot.
LEMMA ClaimAcquires ==
  ASSUME TypeInv, NEW r \in Handlers, ClaimPrepSlot(r)
  PROVE  \E j \in Jobs : Slots!Acquire(j)
<1>1. req[r].job \in Jobs /\ stage \in [Jobs -> Stage]
  BY DEF ClaimPrepSlot, TypeInv, TypeOK, JobTypes, JobsAreNamed, Named
<1>2. PICK job \in Jobs : job = req[r].job
  BY <1>1
<1>3. Preparing' = Preparing \cup {job} /\ Cardinality(Preparing) < MaxPreps
  BY <1>1, <1>2 DEF ClaimPrepSlot, CanClaim, Transition, Preparing
<1>4. job \notin Preparing
  BY <1>1, <1>2, PrepAssumption
     DEF ClaimPrepSlot, CanClaim, Claimable, Preparing, TypeInv, TypeOK, Request, AllRoutes
<1>5. Slots!Acquire(job)
  BY <1>3, <1>4, SameCount DEF Slots!Acquire
<1> WITNESS job \in Jobs
<1> QED BY <1>5

\* Every step is a step of the pool or leaves it alone.
LEMMA SlotStep ==
  ASSUME TypeInv, "un_apply" \notin Ops, [Next]_vars
  PROVE  [Slots!Next]_Preparing
<1>1. Releases \/ Keeps => [Slots!Next]_Preparing
  BY DEF Releases, Keeps, Slots!Next, Slots!Release
<1>2. ASSUME NEW r \in Handlers, ClaimPrepSlot(r) PROVE [Slots!Next]_Preparing
  BY <1>2, ClaimAcquires DEF Slots!Next
<1>3. CASE UNCHANGED vars
  BY <1>1, <1>3, SameStage DEF vars
<1>4. CASE \E n \in Runs : ProcStep(n)
  BY <1>1, <1>4, ProcessReleases
<1>5. CASE \E j \in Jobs : OperatorStep(j) \/ ReapBriefingReadyStale(j)
  BY <1>1, <1>5, OperatorReleases
<1>6. CASE ReapReset
  BY <1>1, <1>6, ResetReleases DEF ReapReset, TypeInv, TypeOK
<1>7. CASE UNCHANGED stage
  BY <1>1, <1>7, SameStage
<1> QED BY <1>2, <1>3, <1>4, <1>5, <1>6, <1>7
        DEF Next, HandlerStep, ReadJob, ClaimMissed, ClearFolder, RecordStart, Spawn, SpawnFails,
            HandlerError, Kill, Age, SweepOrphan, WatchdogStep, FindStuck, ReapFail, Restart, jobVars

(* _claim_prep_slot's promise (#957): without un-apply, the jobs in         *)
(* preparation are the holders of a pool of MaxPreps slots, for any number  *)
(* of jobs, concurrent requests, runs, crashes and late resets.            *)
THEOREM ClaimImplementsSlotPool ==
  ASSUME "un_apply" \notin Ops
  PROVE  Spec => ImplementsSlotPool
<1>1. Init => Slots!Init
  BY DEF Init, Slots!Init, Preparing
<1>2. Spec => []TypeInv
  BY TypeInit, TypeStep, PTL DEF Spec
<1>3. TypeInv /\ [Next]_vars => [Slots!Next]_Preparing
  BY SlotStep
<1> QED BY <1>1, <1>2, <1>3, PTL DEF Spec, ImplementsSlotPool, Slots!Spec

(* "The claim holds the cap": the number of jobs at prep_in_progress never  *)
(* exceeds MAX_CONCURRENT_PREPS unless an apply is undone.                 *)
THEOREM CapHolds ==
  ASSUME "un_apply" \notin Ops, IsFiniteSet(Jobs)
  PROVE  Spec => []InFlightCap
<1> DEFINE Bound == Preparing \subseteq Jobs /\ Cardinality(Preparing) <= MaxPreps
<1>1. Init => Bound
  <2>1. Init => Preparing = {}
    BY DEF Init, Preparing
  <2>2. MaxPreps \in Nat /\ 0 <= MaxPreps
    BY PrepAssumption
  <2> QED BY <2>1, <2>2, FS_EmptySet
<1>2. Bound /\ [Slots!Next]_Preparing => Bound'
  <2> SUFFICES ASSUME Bound, [Slots!Next]_Preparing PROVE Bound'
    OBVIOUS
  <2>1. CASE Preparing' = Preparing
    BY <2>1
  <2>2. IsFiniteSet(Preparing) /\ MaxPreps \in Nat /\ Cardinality(Preparing) \in Nat
    BY FS_Subset, FS_CardinalityType, PrepAssumption
  <2>3. ASSUME NEW j \in Jobs, Slots!Acquire(j) \/ Slots!Release(j) PROVE Bound'
    <3>1. \/ Preparing' = Preparing \ {j}
          \/ /\ j \notin Preparing /\ Cardinality(Preparing) < MaxPreps
             /\ Preparing' = Preparing \cup {j}
      BY <2>3, SameCount DEF Slots!Acquire, Slots!Release
    <3>2. CASE Preparing' = Preparing \ {j}
      <4>1. IsFiniteSet(Preparing \ {j}) /\ Cardinality(Preparing \ {j}) <= Cardinality(Preparing)
        BY <2>2, FS_Subset
      <4> QED BY <2>2, <3>2, <4>1, FS_CardinalityType
    <3>3. CASE j \notin Preparing /\ Cardinality(Preparing) < MaxPreps /\ Preparing' = Preparing \cup {j}
      <4>1. Cardinality(Preparing \cup {j}) = Cardinality(Preparing) + 1
        BY <2>2, <3>3, FS_AddElement
      <4> QED BY <2>2, <3>3, <4>1
    <3> QED BY <3>1, <3>2, <3>3
  <2> QED BY <2>1, <2>3 DEF Slots!Next
<1>3. Spec => [][Slots!Next]_Preparing
  BY ClaimImplementsSlotPool, PTL DEF ImplementsSlotPool, Slots!Spec
<1>4. Bound => InFlightCap
  BY DEF InFlightCap
<1>5. Spec => Init
  BY DEF Spec
<1> HIDE DEF Bound
<1> QED BY <1>1, <1>2, <1>3, <1>4, <1>5, PTL

-----------------------------------------------------------------------------
(* The ledger.  A row and its process are written by different actors: the  *)
(* handler inserts the row and spawns, the process closes it, the watchdog  *)
(* closes it in its stead.  What keeps them consistent, whatever faults and *)
(* slow runs occur, is that an unspawned launch belongs to one request and  *)
(* that whatever the watchdog has listed is past its timeout.              *)

RowMatches(n) ==
  /\ task[n].status = "unused" => proc[n] = "off" /\ ~task[n].aged
  /\ task[n].status = "succeeded" => proc[n] = "done"
  /\ proc[n] \in Live \ {"shim"} /\ ~task[n].aged => task[n].status = "running"

LaunchIsOwn(r) ==
  /\ req[r].pc # "spawn" => req[r].run = None
  /\ req[r].pc = "spawn" => /\ proc[req[r].run] = "off"
                            /\ task[req[r].run].status = "running" /\ ~task[req[r].run].aged
                            /\ \A s \in Handlers : req[s].run = req[r].run => s = r

LedgerInv ==
  /\ \A n \in Runs : RowMatches(n)
  /\ \A r \in Handlers : LaunchIsOwn(r)
  /\ \A n \in wd.todo : task[n].aged

RowsStayFinal ==
  \A n \in Runs : task[n].status \in {"succeeded", "failed"} => task'[n].status = task[n].status

\* A fresh installation has no rows and no requests.
LEMMA LedgerInit == Init => LedgerInv
  BY DEF Init, LedgerInv, RowMatches, LaunchIsOwn, Idle, NoTask, Live, InPhaseA, InPhaseB, InExit

\* Steps that touch neither rows nor processes, the launch of no request, and no list.
LEMMA LedgerIdle ==
  ASSUME TypeInv, LedgerInv, UNCHANGED <<req, task, proc, wd>>
  PROVE  LedgerInv' /\ RowsStayFinal
  BY DEF LedgerInv, RowMatches, LaunchIsOwn, RowsStayFinal, TypeInv, TypeOK

\* A request that is not about to spawn has nothing to do with the ledger.
LEMMA LedgerRequest ==
  ASSUME TypeInv, LedgerInv, NEW r \in Handlers, NEW q, req' = [req EXCEPT ![r] = q],
         q.pc # "spawn", q.run = None, UNCHANGED <<task, proc, wd>>
  PROVE  LedgerInv' /\ RowsStayFinal
<1>1. \A s \in Handlers \ {r} : req'[s] = req[s]
  BY DEF TypeInv, TypeOK
<1>2. req'[r] = q
  BY DEF TypeInv, TypeOK
<1>3. \A s \in Handlers : req[s].pc = "spawn" => req[s].run \in Runs
  BY DEF TypeInv, JobsAreNamed, Named
<1>4. None \notin Runs
  BY PrepAssumption
<1> QED BY <1>1, <1>2, <1>3, <1>4 DEF LedgerInv, RowMatches, LaunchIsOwn, RowsStayFinal

\* The launching routes: a launch takes an unused row and spawns its own.
LEMMA LedgerHandlers ==
  ASSUME TypeInv, LedgerInv, NEW r \in Handlers,
         (\E route \in Routes, j \in Jobs : ReadJob(r, route, j))
           \/ HandlerStep(r) \/ SpawnFails(r) \/ HandlerError(r)
  PROVE  LedgerInv' /\ RowsStayFinal
<1>a. req \in [Handlers -> Request] /\ task \in [Runs -> Task] /\ req[r] \in Request
  BY DEF TypeInv, TypeOK
<1>b. \A s \in Handlers : req[s].pc = "spawn" => req[s].run \in Runs
  BY DEF TypeInv, JobsAreNamed, Named
<1>c. None \notin Runs
  BY PrepAssumption
<1>1. ASSUME NEW route \in Routes, NEW j \in Jobs, ReadJob(r, route, j)
      PROVE  LedgerInv' /\ RowsStayFinal
  <2> DEFINE q == [pc |-> "claim", route |-> route, job |-> j, folder |-> path[j], run |-> None]
  <2>1. req' = [req EXCEPT ![r] = q] /\ q.pc # "spawn" /\ q.run = None
        /\ UNCHANGED <<task, proc, wd>>
    BY <1>1 DEF ReadJob, procVars
  <2> QED BY <2>1, LedgerRequest
<1>2. CASE ClaimPrepSlot(r)
  <2> DEFINE q == [req[r] EXCEPT !.pc = IF req[r].route = "regenerate" THEN "clear" ELSE "record"]
  <2>1. req' = [req EXCEPT ![r] = q] /\ q.pc # "spawn" /\ q.run = req[r].run
        /\ UNCHANGED <<task, proc, wd>> /\ req[r].pc = "claim"
    BY <1>a, <1>2 DEF ClaimPrepSlot, Request, procVars
  <2>2. q.run = None
    BY <2>1 DEF LedgerInv, LaunchIsOwn
  <2> HIDE DEF q
  <2> QED BY <2>1, <2>2, LedgerRequest
<1>3. CASE ClaimMissed(r) \/ HandlerError(r)
  <2>1. req' = [req EXCEPT ![r] = Idle] /\ UNCHANGED <<task, proc, wd>>
    BY <1>3 DEF ClaimMissed, HandlerError, procVars
  <2>2. Idle.pc # "spawn" /\ Idle.run = None
    BY DEF Idle
  <2> QED BY <2>1, <2>2, LedgerRequest
<1>4. CASE ClearFolder(r)
  <2> DEFINE q == [req[r] EXCEPT !.pc = "record"]
  <2>1. req' = [req EXCEPT ![r] = q] /\ q.pc # "spawn" /\ q.run = req[r].run
        /\ UNCHANGED <<task, proc, wd>> /\ req[r].pc = "clear"
    BY <1>a, <1>4 DEF ClearFolder, Request, procVars
  <2>2. q.run = None
    BY <2>1 DEF LedgerInv, LaunchIsOwn
  <2> HIDE DEF q
  <2> QED BY <2>1, <2>2, LedgerRequest
<1>5. CASE RecordStart(r)
  <2>1. PICK n \in Runs :
          /\ task[n].status = "unused"
          /\ task' = [task EXCEPT ![n] = [status |-> "running", job |-> req[r].job,
                                          mode |-> LaunchMode(req[r].route), aged |-> FALSE]]
          /\ req' = [req EXCEPT ![r].pc = "spawn", ![r].run = n]
    BY <1>5 DEF RecordStart
  <2>2. \A m \in Runs \ {n} : task'[m] = task[m]
    BY <1>a, <2>1
  <2>3. task'[n].status = "running" /\ ~task'[n].aged
    BY <1>a, <2>1
  <2>4. proc' = proc /\ wd' = wd /\ proc[n] = "off" /\ ~task[n].aged
    BY <1>5, <2>1 DEF RecordStart, procVars, LedgerInv, RowMatches
  <2>5. req'[r].pc = "spawn" /\ req'[r].run = n /\ \A s \in Handlers \ {r} : req'[s] = req[s]
    BY <1>a, <2>1 DEF Request
  <2>6. \A s \in Handlers : req[s].run # n
    BY <1>c, <2>1 DEF LedgerInv, LaunchIsOwn
  <2>7. "off" \notin Live /\ wd.todo \subseteq Runs
    BY DEF Live, InPhaseA, InPhaseB, InExit, TypeInv, TypeOK
  <2>8. \A m \in Runs : RowMatches(m)'
    BY <2>2, <2>3, <2>4, <2>7 DEF LedgerInv, RowMatches
  <2>9. \A s \in Handlers : LaunchIsOwn(s)'
    BY <1>b, <2>2, <2>3, <2>4, <2>5, <2>6 DEF LedgerInv, LaunchIsOwn
  <2>10. \A m \in wd'.todo : task'[m].aged
    BY <2>2, <2>4, <2>7 DEF LedgerInv
  <2>11. RowsStayFinal
    BY <2>1, <2>2 DEF RowsStayFinal
  <2> QED BY <2>8, <2>9, <2>10, <2>11 DEF LedgerInv
<1>6. ASSUME req[r].pc = "spawn", req' = [req EXCEPT ![r] = Idle]
      PROVE  /\ req[r].run \in Runs /\ task[req[r].run].status = "running"
             /\ \A s \in Handlers : req'[s].pc = "spawn" =>
                  req'[s] = req[s] /\ req[s].run \in Runs \ {req[r].run}
             /\ \A s \in Handlers : req'[s].run = req[s].run \/ req'[s].run = None
             /\ \A s \in Handlers : req'[s].pc # "spawn" => req'[s].run = None
  BY <1>a, <1>b, <1>6 DEF Idle, LedgerInv, LaunchIsOwn
<1>7. CASE Spawn(r)
  <2>1. /\ \A m \in Runs \ {req[r].run} : proc'[m] = proc[m]
        /\ task' = task /\ wd' = wd /\ req[r].pc = "spawn" /\ req' = [req EXCEPT ![r] = Idle]
    BY <1>7 DEF Spawn, TypeInv, TypeOK
  <2>2. \A n \in Runs : RowMatches(n)'
    BY <1>6, <2>1 DEF LedgerInv, RowMatches
  <2>3. \A s \in Handlers : LaunchIsOwn(s)'
    BY <1>c, <1>6, <2>1 DEF LedgerInv, LaunchIsOwn
  <2> QED BY <2>1, <2>2, <2>3 DEF LedgerInv, RowsStayFinal
<1>8. CASE SpawnFails(r)
  <2>1. /\ proc' = proc /\ wd' = wd /\ req[r].pc = "spawn" /\ req' = [req EXCEPT ![r] = Idle]
        /\ task' = [task EXCEPT ![req[r].run].status = "failed"]
    BY <1>8 DEF SpawnFails, procVars
  <2>2. proc[req[r].run] = "off" /\ "off" \notin Live
    BY <2>1 DEF LedgerInv, LaunchIsOwn, Live, InPhaseA, InPhaseB, InExit
  <2>3. /\ \A m \in Runs \ {req[r].run} : task'[m] = task[m]
        /\ task'[req[r].run].status = "failed" /\ \A m \in Runs : task'[m].aged = task[m].aged
    BY <1>a, <1>6, <2>1 DEF Task
  <2>4. \A n \in Runs : RowMatches(n)'
    BY <1>6, <2>1, <2>2, <2>3 DEF LedgerInv, RowMatches
  <2>5. \A s \in Handlers : LaunchIsOwn(s)'
    BY <1>c, <1>6, <2>1, <2>3 DEF LedgerInv, LaunchIsOwn
  <2>6. \A m \in wd'.todo : task'[m].aged
    BY <2>1, <2>3 DEF LedgerInv, TypeInv, TypeOK
  <2>7. RowsStayFinal
    BY <1>6, <2>1, <2>3 DEF RowsStayFinal
  <2> QED BY <2>4, <2>5, <2>6, <2>7 DEF LedgerInv
<1> QED BY <1>1, <1>2, <1>3, <1>4, <1>5, <1>7, <1>8 DEF HandlerStep

\* A process closes its own running row when it ends, and nothing else.
LEMMA LedgerProcess ==
  ASSUME TypeInv, LedgerInv, NEW n \in Runs, ProcStep(n)
  PROVE  LedgerInv' /\ RowsStayFinal
<1>1. PICK to \in Live \cup {"done"} : proc[n] \in Live /\ proc' = [proc EXCEPT ![n] = to]
  BY PlaceOfStep
<1>2. /\ \A m \in Runs \ {n} : proc'[m] = proc[m]
      /\ proc'[n] = to
  BY <1>1 DEF TypeInv, TypeOK
<1>3. req' = req /\ wd' = wd
  BY OthersOfStep
<1>4. proc[n] = "shim" => proc'[n] = "done"
  BY <1>1 DEF ProcStep, SkipA, StartA, FinishA, RejectA, FailA, CommitA, AuditA, AbortB, StartB,
         FinishB, CommitB, AuditB, FailB, InvalidB, UndoB, UndoBAudit, UndoBFails, Raise, RecordSucceeded,
         RecordFailed, Shim, Go, TypeInv, TypeOK
<1>5. "off" \notin Live /\ "done" \notin Live
  BY DEF Live, InPhaseA, InPhaseB, InExit
<1>6. /\ \A m \in Runs : task'[m].aged = task[m].aged
      /\ \A m \in Runs \ {n} : task'[m] = task[m]
  BY TaskOfStep DEF KeepsRow
<1>7. \/ task' = task
      \/ /\ task'[n].status = IF task[n].status = "running" THEN "succeeded" ELSE task[n].status
         /\ proc'[n] = "done"
      \/ /\ task'[n].status = IF task[n].status = "running" THEN "failed" ELSE task[n].status
         /\ proc'[n] \in {"done", "shim"}
  BY TaskOfStep
<1>8. \A m \in Runs : RowMatches(m)'
  BY <1>1, <1>2, <1>4, <1>5, <1>6, <1>7 DEF LedgerInv, RowMatches
<1>9. \A s \in Handlers : req[s].pc = "spawn" => req[s].run \in Runs \ {n}
  BY <1>1, <1>5 DEF TypeInv, JobsAreNamed, Named, LedgerInv, LaunchIsOwn
<1>10. \A s \in Handlers : LaunchIsOwn(s)'
  BY <1>2, <1>3, <1>6, <1>9 DEF LedgerInv, LaunchIsOwn
<1>11. \A m \in wd'.todo : task'[m].aged
  BY <1>3, <1>6 DEF LedgerInv, TypeInv, TypeOK
<1>12. RowsStayFinal
  BY <1>6, <1>7 DEF RowsStayFinal
<1> QED BY <1>8, <1>10, <1>11, <1>12 DEF LedgerInv

\* A kill leaves the row to the watchdog; an hour on the clock marks the row it concerns.
LEMMA LedgerClock ==
  ASSUME TypeInv, LedgerInv, NEW n \in Runs, Kill(n) \/ Age(n)
  PROVE  LedgerInv' /\ RowsStayFinal
<1>a. "off" \notin Live /\ "dead" \notin Live
  BY DEF Live, InPhaseA, InPhaseB, InExit
<1>b. \A s \in Handlers : req[s].pc = "spawn" => req[s].run \in Runs
  BY DEF TypeInv, JobsAreNamed, Named
<1>1. CASE Kill(n)
  <2>1. proc[n] \in Live /\ proc' = [proc EXCEPT ![n] = "dead"] /\ UNCHANGED <<req, task, wd>>
    BY <1>1 DEF Kill, Working, Live, InPhaseA, InPhaseB, InExit
  <2>2. \A m \in Runs \ {n} : proc'[m] = proc[m]
    BY <2>1 DEF TypeInv, TypeOK
  <2>3. proc'[n] = "dead"
    BY <2>1 DEF TypeInv, TypeOK
  <2>4. task[n].status \notin {"unused", "succeeded"}
    BY <1>a, <2>1 DEF LedgerInv, RowMatches, Live, InPhaseA, InPhaseB, InExit
  <2>5. \A m \in Runs : RowMatches(m)'
    BY <1>a, <2>1, <2>2, <2>3, <2>4 DEF LedgerInv, RowMatches
  <2>6. \A s \in Handlers : req[s].pc = "spawn" => req[s].run # n
    BY <1>a, <2>1 DEF LedgerInv, LaunchIsOwn
  <2>7. \A s \in Handlers : LaunchIsOwn(s)'
    BY <1>b, <2>1, <2>2, <2>6 DEF LedgerInv, LaunchIsOwn
  <2> QED BY <2>1, <2>5, <2>7 DEF LedgerInv, RowsStayFinal
<1>2. CASE Age(n)
  <2>1. /\ task[n].status = "running" /\ \A s \in Handlers : req[s].run # n
        /\ UNCHANGED <<req, proc, wd>>
        /\ task' = [task EXCEPT ![n] = [task[n] EXCEPT !.aged = TRUE]]
    BY <1>2 DEF Age, procVars, TypeInv, TypeOK
  <2>a. task \in [Runs -> Task] /\ task[n] \in Task
    BY DEF TypeInv, TypeOK
  <2>b. /\ [task[n] EXCEPT !.aged = TRUE].status = "running"
        /\ [task[n] EXCEPT !.aged = TRUE].aged = TRUE
    BY <2>1, <2>a DEF Task
  <2>2. /\ \A m \in Runs \ {n} : task'[m] = task[m]
        /\ task'[n].status = "running" /\ task'[n].aged = TRUE
    BY <2>1, <2>a, <2>b
  <2>3. \A m \in Runs : RowMatches(m)'
    BY <2>1, <2>2 DEF LedgerInv, RowMatches
  <2>4. \A s \in Handlers : LaunchIsOwn(s)'
    BY <1>b, <2>1, <2>2 DEF LedgerInv, LaunchIsOwn
  <2>5. \A m \in wd'.todo : task'[m].aged
    BY <2>1, <2>2 DEF LedgerInv, TypeInv, TypeOK
  <2> QED BY <2>1, <2>2, <2>3, <2>4, <2>5 DEF LedgerInv, RowsStayFinal
<1> QED BY <1>1, <1>2

\* The watchdog lists rows past their timeout and fails those that still run; a restart
\* leaves every row as it is.
LEMMA LedgerWatchdog ==
  ASSUME TypeInv, LedgerInv, WatchdogStep \/ Restart
  PROVE  LedgerInv' /\ RowsStayFinal
<1>a. \A s \in Handlers : req[s].pc = "spawn" => req[s].run \in Runs
  BY DEF TypeInv, JobsAreNamed, Named
<1>1. CASE FindStuck
  <2>1. UNCHANGED <<req, task, proc>> /\ \A m \in wd'.todo : m \in Runs /\ task[m].aged
    BY <1>1 DEF FindStuck, Stuck, procVars
  <2> QED BY <2>1 DEF LedgerInv, RowMatches, LaunchIsOwn, RowsStayFinal
<1>2. ASSUME NEW n \in Runs, ReapFail(n) PROVE LedgerInv' /\ RowsStayFinal
  <2>1. n \in wd.todo /\ Close(n, "failed") /\ wd'.todo \subseteq wd.todo /\ UNCHANGED <<req, proc>>
    BY <1>2 DEF ReapFail, procVars
  <2>2. /\ \A m \in Runs : task'[m].aged = task[m].aged
        /\ \A m \in Runs \ {n} : task'[m] = task[m]
        /\ task'[n].status = IF task[n].status = "running" THEN "failed" ELSE task[n].status
    BY <2>1, TaskClosed DEF KeepsRow, TypeInv, TypeOK
  <2>3. task[n].aged
    BY <2>1 DEF LedgerInv
  <2>4. \A m \in Runs : RowMatches(m)'
    BY <2>1, <2>2, <2>3 DEF LedgerInv, RowMatches
  <2>5. \A s \in Handlers : LaunchIsOwn(s)'
    BY <1>a, <2>1, <2>2, <2>3 DEF LedgerInv, LaunchIsOwn
  <2>6. \A m \in wd'.todo : task'[m].aged
    BY <2>1, <2>2 DEF LedgerInv, TypeInv, TypeOK
  <2>7. RowsStayFinal
    BY <2>2 DEF RowsStayFinal
  <2> QED BY <2>4, <2>5, <2>6, <2>7 DEF LedgerInv
<1>3. CASE ReapReset
  <2>1. wd'.todo = wd.todo /\ UNCHANGED <<req, task, proc>>
    BY <1>3 DEF ReapReset, procVars, TypeInv, TypeOK
  <2> QED BY <2>1 DEF LedgerInv, RowMatches, LaunchIsOwn, RowsStayFinal
<1>4. CASE Restart
  <2>1. /\ \A r \in Handlers : req'[r].pc = "idle" /\ req'[r].run = None
        /\ task' = task /\ wd'.todo = {}
        /\ \A n \in Runs : proc'[n] = IF proc[n] \in Live THEN "dead" ELSE proc[n]
    BY <1>4 DEF Restart, Idle
  <2>2. \A n \in Runs : RowMatches(n)'
    BY <2>1 DEF LedgerInv, RowMatches, Live, InPhaseA, InPhaseB, InExit
  <2> QED BY <2>1, <2>2 DEF LedgerInv, LaunchIsOwn, RowsStayFinal
<1> QED BY <1>1, <1>2, <1>3, <1>4 DEF WatchdogStep

\* Every step keeps rows, launches and lists consistent and no step rewrites a finished row.
LEMMA LedgerStep == TypeInv /\ LedgerInv /\ [Next]_vars => LedgerInv' /\ RowsStayFinal
<1> SUFFICES ASSUME TypeInv, LedgerInv, [Next]_vars PROVE LedgerInv' /\ RowsStayFinal
  OBVIOUS
<1>1. CASE UNCHANGED vars
  BY <1>1, LedgerIdle DEF vars
<1>2. ASSUME NEW j \in Jobs, OperatorStep(j) \/ ReapBriefingReadyStale(j)
      PROVE  LedgerInv' /\ RowsStayFinal
  <2>1. UNCHANGED <<req, task, proc, wd>>
    BY <1>2 DEF OperatorStep, Waitlist, Reactivate, Reject, UnReject, Apply, UnApply, OperatorMoves,
                ReapBriefingReadyStale, procVars
  <2> QED BY <2>1, LedgerIdle
<1>3. ASSUME NEW n \in Runs, SweepOrphan(n) PROVE LedgerInv' /\ RowsStayFinal
  BY <1>3, LedgerIdle DEF SweepOrphan, procVars
<1> QED BY <1>1, <1>2, <1>3, LedgerHandlers, LedgerProcess, LedgerClock, LedgerWatchdog DEF Next

\* Rows, launches and lists are consistent in every reachable state.
LEMMA LedgerIsInvariant == Spec => []LedgerInv
<1>1. Spec => []TypeInv
  BY TypeInit, TypeStep, PTL DEF Spec
<1> QED BY <1>1, LedgerInit, LedgerStep, PTL DEF Spec

(* background_tasks tells the truth: a row reads succeeded only of a       *)
(* process that ran to its end, and running while its process works within *)
(* its timeout, for any faults, slow runs, restarts and routes.            *)
THEOREM LedgerIsTrue == Spec => []LedgerMatchesProcess
<1>1. LedgerInv => LedgerMatchesProcess
  BY DEF LedgerInv, RowMatches, LedgerMatchesProcess
<1> QED BY <1>1, LedgerIsInvariant, PTL

(* A finished row is never rewritten: not by a process the watchdog gave up *)
(* on, not by a watchdog whose list is old, not by a launch that fails.     *)
THEOREM FinishedStaysFinished == Spec => FinishedRowsAreFinal
<1>1. Spec => []TypeInv
  BY TypeInit, TypeStep, PTL DEF Spec
<1>2. TypeInv /\ LedgerInv /\ [Next]_vars
        => [\A n \in Runs : task[n].status \in {"succeeded", "failed"}
                              => task'[n].status = task[n].status]_vars
  BY LedgerStep DEF RowsStayFinal
<1> QED BY <1>1, <1>2, LedgerIsInvariant, PTL DEF Spec, FinishedRowsAreFinal
=============================================================================
