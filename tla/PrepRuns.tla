------------------------------ MODULE PrepRuns ------------------------------
(***************************************************************************)
(* The life of a prep run in findajob: the web handlers that claim a prep  *)
(* slot and launch a detached subprocess, the subprocess itself (Phase A,  *)
(* Phase B, its writeback and the entry-point shim), the watchdog that     *)
(* reaps stuck background_tasks rows, and the operator's other routes,     *)
(* which move the same jobs row while a run is in flight.                  *)
(*                                                                         *)
(* One step is one committed transaction or one folder operation, which is *)
(* where SQLite and the operating system let the actors interleave.  Money,*)
(* file contents and the audit rows' old values are abstracted away.       *)
(***************************************************************************)
EXTENDS Naturals, FiniteSets

CONSTANTS
  Jobs,      \* rows of the jobs table
  PrefixOf,  \* for each job, those whose folder names begin with its prefix
  Runs,      \* launches: each is a background_tasks row, a process and the
             \* folder the process mints; their number bounds the launches
  Handlers,  \* concurrent requests (threads of the web worker)
  MaxPreps,  \* MAX_CONCURRENT_PREPS
  Routes,    \* the prep-launching routes the operator uses
  Ops,       \* the other routes the operator uses meanwhile
  Faults,    \* what may go wrong, see AllFaults
  SlowRuns,  \* may a live run outlive its kind's timeout?
  None       \* SQL NULL: no folder, no launch

AllRoutes == {"prep", "regenerate", "continue", "reactivate_and_prep"}
AllOps == {"waitlist", "reactivate", "reject", "un_reject", "apply", "un_apply"}
AllFaults == {"kill", "kill_late", "kill_in_shim", "popen", "handler_error",
              "restart", "db_error", "bug", "briefing_expires"}

ASSUME PrepAssumption ==
  /\ PrefixOf \in [Jobs -> SUBSET Jobs] /\ \A j \in Jobs : j \in PrefixOf[j]
  /\ MaxPreps \in Nat \ {0}
  /\ Routes \subseteq AllRoutes
  /\ Ops \subseteq AllOps
  /\ Faults \subseteq AllFaults
  /\ SlowRuns \in BOOLEAN
  /\ None \notin Jobs \cup Runs

Stage == {"scored", "prep_in_progress", "briefing_ready", "materials_drafted",
          "waitlisted", "rejected", "applied"}

VARIABLES
  stage,    \* jobs.stage
  path,     \* jobs.prep_folder_path: the run whose folder it names, or None
  audited,  \* new_value of the job's latest stage row in audit_log
  undo,     \* old_value of the job's latest '-> applied' row in audit_log
  req,      \* the request each handler thread is serving
  task,     \* background_tasks rows
  proc,     \* where each process is
  out,      \* the folder a Phase B process read on entry
  disk,     \* the folder each run minted: absent, present or in .stale/
  wd        \* the watchdog: rows found stuck, and the one being reaped

jobVars == <<stage, path, audited, undo>>
procVars == <<proc, out>>
vars == <<stage, path, audited, undo, req, task, proc, out, disk, wd>>

Mode == {"a", "b", "all"}
Kind(mode) == IF mode = "b" THEN "prep_phase_b" ELSE "prep"

InPhaseA == {"a_start", "a_work", "a_commit", "a_audit"}
InPhaseB == {"b_start", "b_work", "b_commit", "b_audit", "b_undo", "b_undo_audit",
             "b_invalid", "b_invalid_audit"}
InExit == {"ok", "fail", "crash", "shim"}
Live == InPhaseA \cup InPhaseB \cup InExit
\* the steps before the run's last stage write
Working == {"a_start", "a_work", "a_commit", "b_start", "b_work", "b_commit",
            "b_undo", "b_invalid"}

Idle == [pc |-> "idle", route |-> "prep", job |-> None, folder |-> None, run |-> None]
NoTask == [status |-> "unused", job |-> None, mode |-> "a", aged |-> FALSE]

JobTypes ==
  /\ stage \in [Jobs -> Stage]
  /\ path \in [Jobs -> Runs \cup {None}]
  /\ audited \in [Jobs -> Stage]
  /\ undo \in [Jobs -> Stage]

Request == [pc : {"idle", "claim", "clear", "record", "spawn"}, route : AllRoutes,
            job : Jobs \cup {None}, folder : Runs \cup {None}, run : Runs \cup {None}]

Task == [status : {"unused", "running", "succeeded", "failed"},
         job : Jobs \cup {None}, mode : Mode, aged : BOOLEAN]

TypeOK ==
  /\ JobTypes
  /\ req \in [Handlers -> Request]
  /\ task \in [Runs -> Task]
  /\ proc \in [Runs -> Live \cup {"off", "done", "dead"}]
  /\ out \in [Runs -> Runs \cup {None}]
  /\ disk \in [Runs -> {"absent", "present", "stale"}]
  /\ wd \in [todo : SUBSET Runs, cur : Runs \cup {None}]

Init ==
  /\ stage = [j \in Jobs |-> "scored"]
  /\ path = [j \in Jobs |-> None]
  /\ audited = stage
  /\ undo = stage
  /\ req = [r \in Handlers |-> Idle]
  /\ task = [n \in Runs |-> NoTask]
  /\ proc = [n \in Runs |-> "off"]
  /\ out = [n \in Runs |-> None]
  /\ disk = [n \in Runs |-> "absent"]
  /\ wd = [todo |-> {}, cur |-> None]

-----------------------------------------------------------------------------
(* Stage writes. *)

Preparing == {j \in Jobs : stage[j] = "prep_in_progress"}

\* stage UPDATE and its audit row in one transaction
Transition(j, s) ==
  /\ stage' = [stage EXCEPT ![j] = s]
  /\ audited' = [audited EXCEPT ![j] = s]

\* the audit row on its own, after the stage was committed
AuditOnly(j, s) ==
  /\ audited' = [audited EXCEPT ![j] = s]
  /\ UNCHANGED <<stage, path, undo>>

\* the action layer's guarded resets: no-ops when the job has moved on
ResetPrepToScored(j) ==
  \/ /\ stage[j] = "prep_in_progress"
     /\ Transition(j, "scored")
     /\ path' = [path EXCEPT ![j] = None]
     /\ undo' = undo
  \/ stage[j] # "prep_in_progress" /\ UNCHANGED jobVars

ResetPrepToBriefingReady(j) ==
  \/ /\ stage[j] = "prep_in_progress"
     /\ Transition(j, "briefing_ready")
     /\ UNCHANGED <<path, undo>>
  \/ stage[j] # "prep_in_progress" /\ UNCHANGED jobVars

-----------------------------------------------------------------------------
(* The prep-launching handlers.  Read, claim, clear, record and spawn are  *)
(* separate steps: other requests, processes and crashes fall in between.  *)

Claimable(route) ==
  CASE route = "prep" -> Stage \ {"prep_in_progress", "materials_drafted"}
    [] route = "regenerate" -> Stage \ {"prep_in_progress"}
    [] route = "continue" -> {"briefing_ready"}
    [] route = "reactivate_and_prep" -> {"waitlisted"}

\* mutant: the launch passes the task kind where the phase is expected
KindAsMode(route) == IF route = "prep" THEN "a" ELSE "prep_phase_b"

LaunchMode(route) ==
  CASE route = "prep" -> "a"
    [] route = "continue" -> "b"
    [] OTHER -> "all"

\* the bound on launches: every request in flight still finds an unused run
LaunchesLeft ==
  Cardinality({n \in Runs : task[n].status = "unused"})
    > Cardinality({r \in Handlers : req[r].pc \in {"claim", "clear", "record"}})

\* the route reads the job row and passes its own stage guard
ReadJob(r, route, j) ==
  /\ req[r].pc = "idle" /\ LaunchesLeft
  /\ stage[j] \in Claimable(route)
  /\ req' = [req EXCEPT ![r] = [pc |-> "claim", route |-> route, job |-> j,
                                folder |-> path[j], run |-> None]]
  /\ UNCHANGED <<jobVars, task, procVars, disk, wd>>

\* mutants of the claim: the stage test is left to the route's earlier read, and
\* the cap test admits one job too many
ClaimAnyStage(r) == req[r].pc = "claim" /\ Cardinality(Preparing) < MaxPreps
ClaimOverCap(r) ==
  /\ stage[req[r].job] \in Claimable(req[r].route)
  /\ Cardinality(Preparing) <= MaxPreps

CanClaim(r) ==
  /\ stage[req[r].job] \in Claimable(req[r].route)
  /\ Cardinality(Preparing) < MaxPreps

ClaimPrepSlot(r) ==
  /\ req[r].pc = "claim"
  /\ CanClaim(r)
  /\ Transition(req[r].job, "prep_in_progress")
  /\ req' = [req EXCEPT ![r].pc = IF req[r].route = "regenerate"
                                  THEN "clear" ELSE "record"]
  /\ UNCHANGED <<path, undo, task, procVars, disk, wd>>

\* queue full, or another caller claimed the job first
ClaimMissed(r) ==
  /\ req[r].pc = "claim"
  /\ ~CanClaim(r)
  /\ req' = [req EXCEPT ![r] = Idle]
  /\ UNCHANGED <<jobVars, task, procVars, disk, wd>>

\* regenerate deletes the folder it read before the claim, then forgets it
ClearFolder(r) ==
  /\ req[r].pc = "clear"
  /\ disk' = IF req[r].folder = None \/ disk[req[r].folder] # "present"
             THEN disk ELSE [disk EXCEPT ![req[r].folder] = "absent"]
  /\ path' = [path EXCEPT ![req[r].job] = None]
  /\ req' = [req EXCEPT ![r].pc = "record"]
  /\ UNCHANGED <<stage, audited, undo, task, procVars, wd>>

RecordStart(r) ==
  /\ req[r].pc = "record"
  /\ \E n \in Runs :
       /\ task[n].status = "unused"
       /\ task' = [task EXCEPT ![n] = [status |-> "running", job |-> req[r].job,
                                       mode |-> LaunchMode(req[r].route), aged |-> FALSE]]
       /\ req' = [req EXCEPT ![r].pc = "spawn", ![r].run = n]
  /\ UNCHANGED <<jobVars, procVars, disk, wd>>

Spawn(r) ==
  /\ req[r].pc = "spawn"
  /\ proc' = [proc EXCEPT ![req[r].run] =
                IF task[req[r].run].mode = "b" THEN "b_start" ELSE "a_start"]
  /\ req' = [req EXCEPT ![r] = Idle]
  /\ UNCHANGED <<jobVars, task, out, disk, wd>>

\* Popen raised: the row is failed and the exception re-raised
SpawnFails(r) ==
  /\ "popen" \in Faults
  /\ req[r].pc = "spawn"
  /\ task' = [task EXCEPT ![req[r].run].status = "failed"]
  /\ req' = [req EXCEPT ![r] = Idle]
  /\ UNCHANGED <<jobVars, procVars, disk, wd>>

\* the handler raises (locked database, rmtree error) after its claim committed
HandlerError(r) ==
  /\ "handler_error" \in Faults
  /\ req[r].pc \in {"clear", "record"}
  /\ req' = [req EXCEPT ![r] = Idle]
  /\ UNCHANGED <<jobVars, task, procVars, disk, wd>>

HandlerStep(r) ==
  \/ ClaimPrepSlot(r) \/ ClaimMissed(r) \/ ClearFolder(r)
  \/ RecordStart(r) \/ Spawn(r)

-----------------------------------------------------------------------------
(* The operator's other routes on the same row.  Each commits its stage and *)
(* folder change together; the folder keeps its identity when it moves.     *)

OperatorMoves(op, j, from, to) ==
  /\ op \in Ops
  /\ stage[j] \in from
  /\ Transition(j, to)
  /\ undo' = IF op = "apply" THEN [undo EXCEPT ![j] = stage[j]] ELSE undo
  /\ UNCHANGED <<path, req, task, procVars, disk, wd>>

OnDisk(j) == path[j] # None /\ disk[path[j]] = "present"

Waitlist(j) == OperatorMoves("waitlist", j, Stage \ {"waitlisted"}, "waitlisted")
Reactivate(j) == OperatorMoves("reactivate", j, {"waitlisted"},
                               IF OnDisk(j) THEN "materials_drafted" ELSE "scored")
Reject(j) == OperatorMoves("reject", j, Stage \ {"rejected"}, "rejected")
UnReject(j) == OperatorMoves("un_reject", j, {"rejected"}, "scored")
Apply(j) == OperatorMoves("apply", j, Stage \ {"applied"}, "applied")
UnApply(j) == OperatorMoves("un_apply", j, {"applied"}, undo[j])

OperatorStep(j) ==
  Waitlist(j) \/ Reactivate(j) \/ Reject(j) \/ UnReject(j) \/ Apply(j) \/ UnApply(j)

-----------------------------------------------------------------------------
(* The prep subprocess. *)

JobOf(n) == task[n].job
AfterA(n) == IF task[n].mode = "all" THEN "b_start" ELSE "ok"

Go(n, from, to) == proc[n] = from /\ proc' = [proc EXCEPT ![n] = to]

\* the duplicate guard of Phase A
SkipA(n) ==
  /\ Go(n, "a_start", AfterA(n))
  /\ path[JobOf(n)] # None /\ stage[JobOf(n)] = "materials_drafted"
  /\ UNCHANGED <<jobVars, req, task, out, disk, wd>>

\* quarantine the untracked folders whose names begin with the company and the
\* first words of the title, whatever job they are of, then mint this run's own
Tracked == {path[j] : j \in Jobs}
StartA(n) ==
  /\ Go(n, "a_start", "a_work")
  /\ ~(path[JobOf(n)] # None /\ stage[JobOf(n)] = "materials_drafted")
  /\ disk' = [m \in Runs |->
                IF m = n THEN "present"
                ELSE IF JobOf(m) \in PrefixOf[JobOf(n)] /\ disk[m] = "present" /\ m \notin Tracked
                     THEN "stale" ELSE disk[m]]
  /\ UNCHANGED <<jobVars, req, task, out, wd>>

\* briefing and fit analysis written into the folder and validated
FinishA(n) ==
  /\ Go(n, "a_work", "a_commit")
  /\ disk[n] = "present"
  /\ UNCHANGED <<jobVars, req, task, out, disk, wd>>

\* missing candidate files or failed validation: clean up and return normally
RejectA(n) ==
  /\ Go(n, "a_work", AfterA(n))
  /\ disk' = [disk EXCEPT ![n] = IF @ = "present" THEN "absent" ELSE @]
  /\ ResetPrepToScored(JobOf(n))
  /\ UNCHANGED <<req, task, out, wd>>

\* spend ceiling, failed subprocess or database error: reset (best effort when
\* the database is at fault), SystemExit(1)
FailA(n) ==
  /\ \/ Go(n, "a_work", "fail")
     \/ "db_error" \in Faults /\ \E from \in {"a_commit", "a_audit"} : Go(n, from, "fail")
  /\ \/ ResetPrepToScored(JobOf(n))
     \/ "db_error" \in Faults /\ UNCHANGED jobVars
  /\ UNCHANGED <<req, task, out, disk, wd>>

\* the result is committed whatever the job's stage has become
CommitA(n) ==
  /\ Go(n, "a_commit", "a_audit")
  /\ stage' = [stage EXCEPT ![JobOf(n)] = "briefing_ready"]
  /\ path' = [path EXCEPT ![JobOf(n)] = n]
  /\ UNCHANGED <<audited, undo, req, task, out, disk, wd>>

AuditA(n) ==
  /\ Go(n, "a_audit", AfterA(n))
  /\ AuditOnly(JobOf(n), "briefing_ready")
  /\ UNCHANGED <<req, task, out, disk, wd>>

\* no folder: notify and SystemExit(1), the stage is left as it is
AbortB(n) ==
  /\ Go(n, "b_start", "fail")
  /\ ~OnDisk(JobOf(n))
  /\ UNCHANGED <<jobVars, req, task, out, disk, wd>>

StartB(n) ==
  /\ Go(n, "b_start", "b_work")
  /\ OnDisk(JobOf(n))
  /\ out' = [out EXCEPT ![n] = path[JobOf(n)]]
  /\ UNCHANGED <<jobVars, req, task, disk, wd>>

FinishB(n) ==
  /\ Go(n, "b_work", "b_commit")
  /\ disk[out[n]] = "present"
  /\ UNCHANGED <<jobVars, req, task, out, disk, wd>>

CommitB(n) ==
  /\ Go(n, "b_commit", "b_audit")
  /\ stage' = [stage EXCEPT ![JobOf(n)] = "materials_drafted"]
  /\ UNCHANGED <<path, audited, undo, req, task, out, disk, wd>>

AuditB(n) ==
  /\ Go(n, "b_audit", "ok")
  /\ AuditOnly(JobOf(n), "materials_drafted")
  /\ UNCHANGED <<req, task, out, disk, wd>>

\* _handle_phase_b_failure reads the stage, then writes in two commits, best
\* effort; afterwards the run exits 1, or returns when only validation failed
BeforeMaterials(n) == stage[JobOf(n)] \in {"prep_in_progress", "briefing_ready"}

FailB(n) ==
  /\ \E from \in {"b_work"} \cup (IF "db_error" \in Faults
                                  THEN {"b_start", "b_commit", "b_audit"} ELSE {}) :
       Go(n, from, IF BeforeMaterials(n) THEN "b_undo" ELSE "fail")
  /\ UNCHANGED <<jobVars, req, task, out, disk, wd>>

InvalidB(n) ==
  /\ Go(n, "b_work", IF BeforeMaterials(n) THEN "b_invalid" ELSE "ok")
  /\ UNCHANGED <<jobVars, req, task, out, disk, wd>>

UndoB(n) ==
  /\ Go(n, "b_undo", "b_undo_audit") \/ Go(n, "b_invalid", "b_invalid_audit")
  /\ stage' = [stage EXCEPT ![JobOf(n)] = "briefing_ready"]
  /\ UNCHANGED <<path, audited, undo, req, task, out, disk, wd>>

UndoBAudit(n) ==
  /\ Go(n, "b_undo_audit", "fail") \/ Go(n, "b_invalid_audit", "ok")
  /\ AuditOnly(JobOf(n), "briefing_ready")
  /\ UNCHANGED <<req, task, out, disk, wd>>

\* the two writes swallow their errors: the job keeps its stage or its audit gap
UndoBFails(n) ==
  /\ "db_error" \in Faults
  /\ \/ \E from \in {"b_undo", "b_undo_audit"} : Go(n, from, "fail")
     \/ \E from \in {"b_invalid", "b_invalid_audit"} : Go(n, from, "ok")
  /\ UNCHANGED <<jobVars, req, task, out, disk, wd>>

\* any other exception reaches the shim: the folder has been removed, or moved
\* away by an operator route, a query failed outside the handled blocks (the
\* opening connections, the reset after a failed subprocess), or a "bug"
Raise(n) ==
  /\ \/ "bug" \in Faults /\ (Go(n, "a_work", "crash") \/ Go(n, "b_work", "crash"))
     \/ "db_error" \in Faults /\ \E from \in {"a_start", "a_work", "b_start"} : Go(n, from, "crash")
     \/ Go(n, "a_work", "crash") /\ disk[n] # "present"
     \/ Go(n, "b_work", "crash") /\ (disk[out[n]] # "present" \/ Ops # {})
  /\ UNCHANGED <<jobVars, req, task, out, disk, wd>>

\* mutant: the writeback forgets "AND status='running'"
CloseAnyway(n, status) == task' = [task EXCEPT ![n].status = status]

\* writeback_subprocess closes the row, only if it is still running
Close(n, status) ==
  task' = [task EXCEPT ![n].status = IF @ = "running" THEN status ELSE @]

\* the writeback and the shim's reset swallow database errors
RecordSucceeded(n) ==
  /\ Go(n, "ok", "done")
  /\ \/ Close(n, "succeeded")
     \/ "db_error" \in Faults /\ UNCHANGED task
  /\ UNCHANGED <<jobVars, req, out, disk, wd>>

RecordFailed(n) ==
  /\ Go(n, "fail", "done") \/ Go(n, "crash", "shim")
  /\ \/ Close(n, "failed")
     \/ "db_error" \in Faults /\ UNCHANGED task
  /\ UNCHANGED <<jobVars, req, out, disk, wd>>

\* mutant: the shim logs the failure and forgets the stage
ShimForgets(n) ==
  /\ Go(n, "shim", "done")
  /\ UNCHANGED <<jobVars, req, task, out, disk, wd>>

Shim(n) ==
  /\ Go(n, "shim", "done")
  /\ \/ ResetPrepToScored(JobOf(n))
     \/ "db_error" \in Faults /\ UNCHANGED jobVars
  /\ UNCHANGED <<req, task, out, disk, wd>>

ProcStep(n) ==
  \/ SkipA(n) \/ StartA(n) \/ FinishA(n) \/ RejectA(n) \/ FailA(n) \/ CommitA(n) \/ AuditA(n)
  \/ AbortB(n) \/ StartB(n) \/ FinishB(n) \/ CommitB(n) \/ AuditB(n)
  \/ FailB(n) \/ InvalidB(n) \/ UndoB(n) \/ UndoBAudit(n) \/ UndoBFails(n) \/ Raise(n)
  \/ RecordSucceeded(n) \/ RecordFailed(n) \/ Shim(n)

\* SIGKILL or OOM: no exit code runs.  "kill": before the run gives up its
\* slot; "kill_late": between that commit and the writeback
Kill(n) ==
  /\ \/ "kill" \in Faults /\ proc[n] \in Working \cup {"crash"}
     \/ "kill_late" \in Faults /\ proc[n] \in Live \ (Working \cup {"crash", "shim"})
     \/ "kill_in_shim" \in Faults /\ proc[n] = "shim"
  /\ proc' = [proc EXCEPT ![n] = "dead"]
  /\ UNCHANGED <<jobVars, req, task, out, disk, wd>>

\* the container is restarted: requests, processes and the watchdog all die
Restart ==
  /\ "restart" \in Faults
  /\ req' = [r \in Handlers |-> Idle]
  /\ proc' = [n \in Runs |-> IF proc[n] \in Live THEN "dead" ELSE proc[n]]
  /\ wd' = [todo |-> {}, cur |-> None]
  /\ UNCHANGED <<jobVars, task, out, disk>>

-----------------------------------------------------------------------------
(* The watchdog cron. *)

\* started_at passes the kind's timeout
Age(n) ==
  /\ task[n].status = "running" /\ ~task[n].aged
  /\ SlowRuns \/ proc[n] \notin Live
  /\ \A r \in Handlers : req[r].run # n
  /\ task' = [task EXCEPT ![n].aged = TRUE]
  /\ UNCHANGED <<jobVars, req, procVars, disk, wd>>

\* mutant: the watchdog takes every running row for a stuck one
StuckAtAnyAge(kind) == {n \in Runs : task[n].status = "running" /\ Kind(task[n].mode) = kind}

Stuck(kind) == {n \in Runs : task[n].status = "running" /\ task[n].aged
                             /\ Kind(task[n].mode) = kind}

\* mutant: the watchdog does not know the rows of Phase B
FindStuckPrep ==
  /\ wd.todo = {} /\ wd.cur = None
  /\ Stuck("prep") # {} /\ wd' = [todo |-> Stuck("prep"), cur |-> None]
  /\ UNCHANGED <<jobVars, req, task, procVars, disk>>

FindStuck ==
  /\ wd.todo = {} /\ wd.cur = None
  /\ \E kind \in {"prep", "prep_phase_b"} :
       Stuck(kind) # {} /\ wd' = [todo |-> Stuck(kind), cur |-> None]
  /\ UNCHANGED <<jobVars, req, task, procVars, disk>>

ReapFail(n) ==
  /\ n \in wd.todo /\ wd.cur = None
  /\ Close(n, "failed")
  /\ wd' = [todo |-> wd.todo \ {n}, cur |-> n]
  /\ UNCHANGED <<jobVars, req, procVars, disk>>

ReapReset ==
  /\ wd.cur # None
  /\ IF Kind(task[wd.cur].mode) = "prep"
     THEN ResetPrepToScored(JobOf(wd.cur))
     ELSE ResetPrepToBriefingReady(JobOf(wd.cur))
  /\ wd' = [wd EXCEPT !.cur = None]
  /\ UNCHANGED <<req, task, procVars, disk>>

\* a briefing the operator has not decided on for 48 hours
ReapBriefingReadyStale(j) ==
  /\ "briefing_expires" \in Faults
  /\ stage[j] = "briefing_ready"
  /\ \A n \in Runs : JobOf(n) = j => proc[n] \notin Live
  /\ Transition(j, "scored")
  /\ UNCHANGED <<path, undo, req, task, procVars, disk, wd>>

\* mutant: the sweep looks at the age of a folder only
SweepByAge(n) ==
  /\ disk[n] = "present" /\ proc[n] \notin Live
  /\ disk' = [disk EXCEPT ![n] = "stale"]
  /\ UNCHANGED <<jobVars, req, task, procVars, wd>>

\* folders no row references and no run younger than the sweep age writes
SweepOrphan(n) ==
  /\ disk[n] = "present" /\ n \notin Tracked
  /\ SlowRuns \/ proc[n] \notin Live
  /\ disk' = [disk EXCEPT ![n] = "stale"]
  /\ UNCHANGED <<jobVars, req, task, procVars, wd>>

WatchdogStep == FindStuck \/ (\E n \in Runs : ReapFail(n)) \/ ReapReset

-----------------------------------------------------------------------------
Next ==
  \/ \E r \in Handlers : \/ \E route \in Routes, j \in Jobs : ReadJob(r, route, j)
                         \/ HandlerStep(r)
                         \/ SpawnFails(r)
                         \/ HandlerError(r)
  \/ \E j \in Jobs : OperatorStep(j) \/ ReapBriefingReadyStale(j)
  \/ \E n \in Runs : ProcStep(n) \/ Kill(n) \/ Age(n) \/ SweepOrphan(n)
  \/ WatchdogStep
  \/ Restart

Spec == Init /\ [][Next]_vars

\* A handler thread and a process run to completion unless killed; the cron
\* keeps firing and the clock keeps moving.  The operator owes nothing.
Fairness ==
  /\ \A r \in Handlers : WF_vars(HandlerStep(r))
  /\ \A n \in Runs : WF_vars(ProcStep(n)) /\ WF_vars(Age(n))
  /\ WF_vars(WatchdogStep)

FairSpec == Spec /\ Fairness

-----------------------------------------------------------------------------
(* What the slots, the rows and the folders promise. *)

Launching(j) == {r \in Handlers : req[r].pc \in {"clear", "record", "spawn"} /\ req[r].job = j}
RunsOf(j) == {n \in Runs : task[n].job = j}
Writers(j) == {n \in RunsOf(j) : proc[n] \in Working}

\* the jobs whose folders no other job's prefix takes
Spared == {j \in Jobs : \A k \in Jobs : j \in PrefixOf[k] => k = j}

\* The in-flight count the claim tests never exceeds the cap, whatever
\* requests, processes, resets and other routes interleave (#957).
InFlightCap == Cardinality(Preparing) <= MaxPreps

\* Slots are taken and given back one at a time under the cap: the whole
\* system, seen through the set of jobs in preparation, is a pool of slots.
Slots == INSTANCE SlotPool WITH Items <- Jobs, Max <- MaxPreps, held <- Preparing
ImplementsSlotPool == Slots!Spec

\* A job at prep_in_progress is owned: a handler is about to launch it, a
\* process will still move it, or a running row will bring the watchdog to it
\* (docs/troubleshooting.md: after 60 minutes the watchdog rolls it back),
\* unless another job's prefix may take its folder.
PrepIsRecoverable ==
  \A j \in Preparing \cap Spared :
    \/ Launching(j) # {}
    \/ \E n \in RunsOf(j) : \/ proc[n] \in Working \cup {"crash", "shim"}
                            \/ task[n].status = "running"
                            \/ n = wd.cur

\* One job is never worked on twice at once: at most one handler past its
\* claim or one process that will still write its stage.
OneRunPerJob ==
  \A j \in Jobs : Cardinality(Launching(j)) + Cardinality(Writers(j)) <= 1

\* A job offered for reading or applying, whose folder no other job's prefix
\* takes, has it on disk: no quarantine, clean-up or sweep takes it away.
MaterialsOnDisk ==
  \A j \in Spared : stage[j] \in {"briefing_ready", "materials_drafted"} => OnDisk(j)

\* A row reads succeeded only when its process ran to its end, and while the
\* process works within its timeout the row reads running.
LedgerMatchesProcess ==
  \A n \in Runs :
    /\ task[n].status = "succeeded" => proc[n] = "done"
    /\ proc[n] \in Live \ {"shim"} /\ ~task[n].aged => task[n].status = "running"

\* A finished row is never rewritten, not even by a process the watchdog gave
\* up on or by a watchdog that listed the row before it finished.
FinishedRowsAreFinal ==
  [][\A n \in Runs : task[n].status \in {"succeeded", "failed"}
                       => task'[n].status = task[n].status]_vars

\* The watchdog takes a slot back only from a run that no longer works.
ReapsOnlyDeadRuns ==
  [][(ReapReset /\ Preparing' # Preparing) => Writers(JobOf(wd.cur)) = {}]_vars

\* A slot is always given back, by a job whose folder nobody else's run takes.
SlotsAreReturned ==
  \A j \in Spared : stage[j] = "prep_in_progress" ~> stage[j] # "prep_in_progress"

\* Every recorded run is settled, by its process or by the watchdog.
RowsAreSettled ==
  \A n \in Runs : task[n].status = "running" ~> task[n].status \in {"succeeded", "failed"}

-----------------------------------------------------------------------------
(* What the code's own comments and docs say, and the runs refute. *)

\* MAX_CONCURRENT_PREPS is an "upper bound on simultaneously-running prep
\* subprocesses".
CapBoundsProcesses ==
  Cardinality({n \in Runs : proc[n] \in Working}) <= MaxPreps

\* regenerate does not "clobber a live prep subprocess": the folder it deletes
\* belongs to no job whose run still works.
RegenerateSparesLiveRuns ==
  [][\A r \in Handlers : ClearFolder(r) => Writers(req[r].job) = {}]_vars

\* After the 48-hour reset "a re-flag resurfaces the existing briefing rather
\* than re-paying Phase A".
ReflagKeepsBriefing ==
  [][\A r \in Handlers :
       ClaimPrepSlot(r) /\ stage[req[r].job] = "scored" /\ OnDisk(req[r].job)
         => LaunchMode(req[r].route) # "a"]_vars

\* "The fix writes the stage change and its audit row in a single transaction"
\* (#958): a stage without its audit row is never left behind.
StageIsAudited ==
  \A j \in Jobs :
    \/ audited[j] = stage[j]
    \/ \E n \in RunsOf(j) : proc[n] \in {"a_audit", "b_audit", "b_undo_audit", "b_invalid_audit"}
=============================================================================
