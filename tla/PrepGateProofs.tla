--------------------------- MODULE PrepGateProofs ---------------------------
(* Theorems about PrepRuns where the briefing-gated flow has the row to     *)
(* itself: one run per job, materials on disk, no stranded slot, and only  *)
(* dead runs reaped.  All four rest on one invariant: a job in preparation *)
(* has one owner, and only its owner writes its stage or its folder.       *)
EXTENDS PrepRunsProofs

(* What the theorems assume.  A run of Phase A that goes straight on to     *)
(* Phase B (regenerate, reactivate-and-prep) gives the slot back half way   *)
(* and works on without it; another route may take the row away; a slow run *)
(* is reaped alive; and a row left running after its run has given the slot *)
(* back (a late kill, a restart, a swallowed database error) makes the      *)
(* watchdog reset whoever prepares the job by then.                        *)
GateScope ==
  /\ Routes \subseteq {"prep", "continue"}
  /\ Ops = {}
  /\ ~SlowRuns
  /\ Faults \cap {"kill_late", "restart", "db_error"} = {}

\* the places a process owns its job from
Owning == Working \cup {"crash", "shim"}

\* the run that will still move its job, itself or through the watchdog
Owns(n) ==
  \/ proc[n] \in Owning
  \/ proc[n] = "dead" /\ task[n].status = "running"
  \/ wd.cur = n

Launches(r) == req[r].pc \in {"record", "spawn"}

\* the folder of a job is there, unless another job's prefix takes it
Kept(j) == j \in Spared => OnDisk(j)

LaunchShape(r) ==
  /\ req[r].pc # "clear" /\ req[r].route \in {"prep", "continue"}
  /\ Launches(r) => /\ stage[req[r].job] = "prep_in_progress"
                    /\ req[r].route = "continue" => Kept(req[r].job)
  /\ req[r].pc = "spawn" => /\ task[req[r].run].job = req[r].job
                            /\ task[req[r].run].mode = LaunchMode(req[r].route)

RunShape(n) ==
  /\ task[n].mode \in {"a", "b"}
  /\ proc[n] \in InPhaseA => task[n].mode = "a"
  /\ proc[n] \in InPhaseB => task[n].mode = "b"
  /\ task[n].aged => proc[n] = "dead"
  /\ proc[n] \in {"shim", "done"} => task[n].status # "running"
  /\ proc[n] = "off" /\ task[n].status = "running"
       => \E r \in Handlers : req[r].pc = "spawn" /\ req[r].run = n

OwnerShape(n) ==
  Owns(n) => /\ JobOf(n) \in Jobs /\ stage[JobOf(n)] = "prep_in_progress"
             /\ task[n].mode = "b" => Kept(JobOf(n))

\* a run's own folder is on no row before the run commits it
Uncommitted == {"off", "a_start", "a_work", "a_commit"}
FolderShape(n) ==
  /\ proc[n] \in Uncommitted => \A j \in Jobs : path[j] # n
  /\ proc[n] = "a_commit" /\ JobOf(n) \in Spared => disk[n] = "present"

ListShape ==
  /\ \A n \in wd.todo : task[n].status = "running"
  /\ wd.cur # None => proc[wd.cur] = "dead" /\ task[wd.cur].status # "running"

SoleOwner ==
  /\ \A r, s \in Handlers : Launches(r) /\ Launches(s) /\ req[r].job = req[s].job => r = s
  /\ \A r \in Handlers, n \in Runs : Launches(r) /\ Owns(n) => req[r].job # JobOf(n)
  /\ \A m, n \in Runs : Owns(m) /\ Owns(n) /\ JobOf(m) = JobOf(n) => m = n

GateInv ==
  /\ \A r \in Handlers : LaunchShape(r)
  /\ \A n \in Runs : RunShape(n) /\ OwnerShape(n) /\ FolderShape(n)
  /\ ListShape
  /\ SoleOwner
  /\ MaterialsOnDisk

\* all that is known of a reachable state
Known == GateScope /\ TypeInv /\ LedgerInv /\ GateInv

\* A fresh installation has no launches.
LEMMA GateInit == Init => GateInv
<1> SUFFICES ASSUME Init PROVE GateInv
  OBVIOUS
<1>1. \A n \in Runs : ~Owns(n)
  BY PrepAssumption DEF Init, Owns, Owning, Working
<1>2. \A r \in Handlers : req[r].pc = "idle" /\ req[r].route = "prep"
  BY DEF Init, Idle
<1>3. \A n \in Runs : task[n] = NoTask /\ proc[n] = "off" /\ wd.todo = {} /\ wd.cur = None
  BY DEF Init
<1>4. \A j \in Jobs : stage[j] = "scored" /\ path[j] = None
  BY DEF Init
<1>5. \A n \in Runs : RunShape(n) /\ OwnerShape(n) /\ FolderShape(n)
  BY <1>1, <1>3, <1>4, PrepAssumption DEF RunShape, OwnerShape, FolderShape, NoTask, InPhaseA, InPhaseB
<1>6. ListShape /\ SoleOwner /\ MaterialsOnDisk
  BY <1>1, <1>2, <1>4 DEF Init, ListShape, SoleOwner, MaterialsOnDisk, Spared, Launches
<1> QED BY <1>2, <1>5, <1>6 DEF GateInv, LaunchShape, Launches

-----------------------------------------------------------------------------
(* The subprocess. *)

\* A process writes no job's row but its own.
LEMMA JobOfStep ==
  ASSUME TypeInv, NEW n \in Runs, ProcStep(n)
  PROVE  \A k \in Jobs : k # JobOf(n) => stage'[k] = stage[k] /\ path'[k] = path[k]
<1> USE DEF TypeInv, TypeOK, JobTypes
<1>1. CASE UNCHANGED <<stage, path>>
  BY <1>1
<1>2. CASE CommitA(n) \/ CommitB(n) \/ UndoB(n)
  BY <1>2 DEF CommitA, CommitB, UndoB
<1>3. CASE RejectA(n) \/ FailA(n) \/ Shim(n)
  BY <1>1, <1>3 DEF RejectA, FailA, Shim, ResetPrepToScored, Transition, jobVars
<1> QED BY <1>1, <1>2, <1>3 DEF ProcStep, SkipA, StartA, FinishA, AuditA, AbortB, StartB, FinishB,
             AuditB, AuditOnly, FailB, InvalidB, UndoBAudit, UndoBFails, Raise, RecordSucceeded,
             RecordFailed, jobVars

\* Quarantine and clean-up spare the folders rows name, and touch only the run's own folder
\* or those its job's prefix takes.
LEMMA FoldersOfStep ==
  ASSUME Known, NEW n \in Runs, ProcStep(n)
  PROVE  /\ \A m \in Runs : m \in Tracked /\ disk[m] = "present" => disk'[m] = "present"
         /\ \A m \in Runs \ {n} : disk'[m] # disk[m] => JobOf(m) \in PrefixOf[JobOf(n)] /\ proc[n] = "a_start"
<1> USE DEF TypeInv, TypeOK, Known
<1>1. CASE disk' = disk
  BY <1>1
<1>2. CASE StartA(n)
  BY <1>2 DEF StartA, Go
<1>3. CASE RejectA(n)
  <2>1. n \notin Tracked
    BY <1>3 DEF RejectA, Go, Tracked, GateInv, FolderShape, Uncommitted
  <2>2. \A m \in Runs \ {n} : disk'[m] = disk[m]
    BY <1>3 DEF RejectA
  <2> QED BY <2>1, <2>2
<1> QED BY <1>1, <1>2, <1>3 DEF ProcStep, SkipA, FinishA, FailA, CommitA, AuditA, AbortB, StartB,
             FinishB, CommitB, AuditB, FailB, InvalidB, UndoB, UndoBAudit, UndoBFails, Raise,
             RecordSucceeded, RecordFailed, Shim

\* What a step of the process leaves as it is, what a step that gives the slot back leaves
\* behind, and the step that gives up on a folder another job's run has taken.
Stays(n) == stage' = stage /\ path' = path /\ (proc'[n] \in Owning <=> proc[n] \in Owning)
Ends(n) ==
  LET j == JobOf(n) IN
  /\ proc[n] \in Owning /\ proc'[n] \notin Owning
  /\ stage'[j] # "prep_in_progress"
  /\ stage'[j] \in {"briefing_ready", "materials_drafted"} /\ j \in Spared
       => path'[j] # None /\ disk'[path'[j]] = "present"

GivesUp(n) ==
  /\ stage' = stage /\ path' = path
  /\ proc[n] \in Owning /\ proc'[n] \notin Owning /\ JobOf(n) \in Jobs \ Spared

\* A process gives its slot back in the step in which it stops owning the job, and leaves
\* the folder behind when it offers the job.
LEMMA OwnerOfStep ==
  ASSUME Known, NEW n \in Runs, ProcStep(n)
  PROVE  Stays(n) \/ Ends(n) \/ GivesUp(n)
<1> USE DEF Owning, Working
<1>a. /\ stage \in [Jobs -> Stage] /\ path \in [Jobs -> Runs \cup {None}]
      /\ proc \in [Runs -> Live \cup {"off", "done", "dead"}]
      /\ disk \in [Runs -> {"absent", "present", "stale"}]
  BY DEF Known, TypeInv, TypeOK, JobTypes
<1>b. "db_error" \notin Faults /\ Ops = {}
  BY DEF Known, GateScope
<1>c. proc[n] \in Owning => /\ JobOf(n) \in Jobs /\ stage[JobOf(n)] = "prep_in_progress"
                            /\ task[n].mode = "b" => Kept(JobOf(n))
  BY DEF Known, GateInv, OwnerShape, Owns
<1>d. /\ task[n].mode # "all" /\ (proc[n] \in InPhaseB => task[n].mode = "b")
      /\ proc[n] = "a_commit" /\ JobOf(n) \in Spared => disk[n] = "present"
  BY DEF Known, GateInv, RunShape, FolderShape
<1>e. None \notin Runs
  BY PrepAssumption
<1>1. CASE SkipA(n)
  BY <1>1, <1>c DEF SkipA, Go
<1>2. CASE StartA(n) \/ FinishA(n) \/ StartB(n) \/ FinishB(n) \/ Raise(n)
  BY <1>2, <1>a, <1>b DEF StartA, FinishA, StartB, FinishB, Raise, Go, Stays, jobVars
<1>3. CASE RejectA(n) \/ FailA(n) \/ Shim(n)
  <2>1. proc[n] \in Owning /\ proc'[n] \in {"ok", "fail", "done"} /\ ResetPrepToScored(JobOf(n))
    BY <1>3, <1>a, <1>b, <1>d DEF RejectA, FailA, Shim, Go, AfterA
  <2>2. stage'[JobOf(n)] = "scored"
    BY <2>1, <1>a, <1>c DEF ResetPrepToScored, Transition
  <2> QED BY <2>1, <2>2 DEF Ends
<1>4. CASE CommitA(n)
  <2>1. /\ proc[n] = "a_commit" /\ proc'[n] = "a_audit" /\ disk' = disk
        /\ stage'[JobOf(n)] = "briefing_ready" /\ path'[JobOf(n)] = n
    BY <1>4, <1>a, <1>c DEF CommitA, Go
  <2> QED BY <2>1, <1>d, <1>e DEF Ends
<1>5. CASE CommitB(n) \/ UndoB(n)
  <2>1. /\ proc[n] \in Owning \cap InPhaseB /\ proc'[n] \notin Owning /\ disk' = disk /\ path' = path
        /\ stage'[JobOf(n)] # "prep_in_progress"
    BY <1>5, <1>a, <1>c DEF CommitB, UndoB, Go, InPhaseB
  <2> QED BY <2>1, <1>c, <1>d DEF Ends, Kept, OnDisk
<1>6. CASE AuditA(n) \/ AuditB(n) \/ UndoBAudit(n) \/ RecordSucceeded(n) \/ RecordFailed(n)
  BY <1>6, <1>a, <1>d DEF AuditA, AuditB, UndoBAudit, RecordSucceeded, RecordFailed, Go, Stays,
                          AuditOnly, AfterA, jobVars
<1>7. CASE AbortB(n)
  BY <1>7, <1>a, <1>c, <1>d DEF AbortB, Go, GivesUp, Kept, InPhaseB, jobVars
<1>8. CASE FailB(n) \/ InvalidB(n)
  BY <1>8, <1>a, <1>b, <1>c DEF FailB, InvalidB, Go, Stays, BeforeMaterials, jobVars
<1>9. CASE UndoBFails(n)
  BY <1>9, <1>b DEF UndoBFails
<1> QED BY <1>1, <1>2, <1>3, <1>4, <1>5, <1>6, <1>7, <1>8, <1>9 DEF ProcStep

\* A run goes forward through its phase and keeps its own folder until it commits it.
LEMMA PhaseOfStep ==
  ASSUME Known, NEW n \in Runs, ProcStep(n)
  PROVE  /\ proc[n] \in Live /\ proc'[n] \notin {"off", "dead"}
         /\ proc'[n] \in InPhaseA => proc[n] \in InPhaseA
         /\ proc'[n] \in InPhaseB => proc[n] \in InPhaseB
         /\ proc'[n] \in Uncommitted => proc[n] \in Uncommitted /\ path' = path
         /\ proc'[n] = "a_commit" => disk'[n] = "present"
         /\ proc'[n] \in {"shim", "done"} => task'[n].status # "running"
         /\ \A j \in Jobs : path'[j] \in {path[j], n, None}
<1>a. /\ proc \in [Runs -> Live \cup {"off", "done", "dead"}] /\ path \in [Jobs -> Runs \cup {None}]
      /\ disk \in [Runs -> {"absent", "present", "stale"}] /\ task \in [Runs -> Task]
  BY DEF Known, TypeInv, TypeOK, JobTypes
<1>b. "db_error" \notin Faults
  BY DEF Known, GateScope
<1>c. task[n].mode # "all" /\ (proc[n] = "shim" => task[n].status # "running")
  BY DEF Known, GateInv, RunShape
<1>1. PICK to \in Live \cup {"done"} : proc[n] \in Live /\ proc' = [proc EXCEPT ![n] = to]
  BY PlaceOfStep DEF Known
<1>2. proc[n] \in Live /\ proc'[n] \notin {"off", "dead"}
  BY <1>1, <1>a DEF Live, InPhaseA, InPhaseB, InExit
<1>3. CASE SkipA(n) \/ StartA(n) \/ FinishA(n) \/ AbortB(n) \/ StartB(n) \/ FinishB(n) \/ CommitB(n)
           \/ FailB(n) \/ InvalidB(n) \/ UndoB(n) \/ Raise(n) \/ RejectA(n) \/ FailA(n) \/ CommitA(n)
           \/ AuditA(n) \/ AuditB(n) \/ UndoBAudit(n)
  <2>1. /\ proc'[n] \in InPhaseA => proc[n] \in InPhaseA
        /\ proc'[n] \in InPhaseB => proc[n] \in InPhaseB
        /\ proc'[n] \notin {"shim", "done"}
    BY <1>3, <1>a, <1>b, <1>c DEF SkipA, StartA, FinishA, AbortB, StartB, FinishB, CommitB, FailB,
          InvalidB, UndoB, Raise, RejectA, FailA, CommitA, AuditA, AuditB, UndoBAudit, Go, AfterA,
          InPhaseA, InPhaseB
  <2>2. /\ proc'[n] \in Uncommitted => proc[n] \in Uncommitted /\ path' = path
        /\ proc'[n] = "a_commit" => disk'[n] = "present"
    BY <1>3, <1>a, <1>b, <1>c DEF SkipA, StartA, FinishA, AbortB, StartB, FinishB, CommitB, FailB,
          InvalidB, UndoB, Raise, RejectA, FailA, CommitA, AuditA, AuditB, UndoBAudit, Go, AfterA,
          Uncommitted, jobVars
  <2>3. \A j \in Jobs : path'[j] \in {path[j], n, None}
    BY <1>3, <1>a DEF SkipA, StartA, FinishA, AbortB, StartB, FinishB, CommitB, FailB, InvalidB, UndoB,
          Raise, RejectA, FailA, CommitA, AuditA, AuditB, UndoBAudit, AuditOnly, ResetPrepToScored, jobVars
  <2> QED BY <1>2, <2>1, <2>2, <2>3
<1>4. CASE RecordSucceeded(n) \/ RecordFailed(n)
  <2>1. /\ proc'[n] \in {"shim", "done"} /\ path' = path
        /\ Close(n, "succeeded") \/ Close(n, "failed")
    BY <1>4, <1>a, <1>b DEF RecordSucceeded, RecordFailed, Go, jobVars
  <2>2. task'[n].status # "running"
    BY <1>a, <2>1, TaskClosed
  <2> QED BY <1>2, <2>1, <2>2 DEF InPhaseA, InPhaseB, Uncommitted
<1>5. CASE Shim(n)
  BY <1>2, <1>5, <1>a, <1>b, <1>c DEF Shim, Go, InPhaseA, InPhaseB, Uncommitted, ResetPrepToScored, jobVars
<1>6. CASE UndoBFails(n)
  BY <1>6, <1>b DEF UndoBFails
<1> QED BY <1>3, <1>4, <1>5, <1>6 DEF ProcStep

\* A step of a process makes nobody else an owner, and nobody else one no longer.
LEMMA OwnersOfStep ==
  ASSUME Known, NEW n \in Runs, ProcStep(n)
  PROVE  /\ \A m \in Runs \ {n} : proc'[m] = proc[m] /\ task'[m] = task[m] /\ (Owns(m)' <=> Owns(m))
         /\ \A m \in Runs : /\ JobOf(m)' = JobOf(m)
                            /\ task'[m].mode = task[m].mode /\ task'[m].aged = task[m].aged
         /\ wd.cur # n /\ n \notin wd.todo /\ ~task[n].aged
         /\ Owns(n) <=> proc[n] \in Owning
         /\ Owns(n)' <=> proc'[n] \in Owning
<1>a. wd.todo \subseteq Runs /\ wd.cur \in Runs \cup {None} /\ None \notin Runs
      /\ "dead" \notin Live /\ "off" \notin Live
  BY PrepAssumption DEF Known, TypeInv, TypeOK, Live, InPhaseA, InPhaseB, InExit
<1>1. PICK to \in Live \cup {"done"} : proc[n] \in Live /\ proc' = [proc EXCEPT ![n] = to]
  BY PlaceOfStep DEF Known
<1>2. \A m \in Runs \ {n} : proc'[m] = proc[m] /\ task'[m] = task[m]
  BY <1>1, TaskOfStep DEF Known, TypeInv, TypeOK
<1>3. \A m \in Runs : JobOf(m)' = JobOf(m) /\ task'[m].mode = task[m].mode /\ task'[m].aged = task[m].aged
  BY TaskOfStep DEF KeepsRow, JobOf, Known
<1>4. wd' = wd
  BY OthersOfStep
<1>5. wd.cur # n /\ n \notin wd.todo /\ ~task[n].aged
  BY <1>1, <1>a DEF Known, GateInv, ListShape, LedgerInv, RunShape
<1>6. /\ \A m \in Runs \ {n} : Owns(m)' <=> Owns(m)
      /\ Owns(n) <=> proc[n] \in Owning
      /\ Owns(n)' <=> proc'[n] \in Owning
  BY <1>1, <1>2, <1>4, <1>5, <1>a, PhaseOfStep DEF Owns, Owning
<1> QED BY <1>2, <1>3, <1>5, <1>6

\* A step of the process keeps one owner per job and every offered folder.
LEMMA GateProcess ==
  ASSUME Known, NEW n \in Runs, ProcStep(n)
  PROVE  GateInv'
<1>a. /\ stage \in [Jobs -> Stage] /\ path \in [Jobs -> Runs \cup {None}]
      /\ task \in [Runs -> Task] /\ None \notin Runs /\ wd.todo \subseteq Runs /\ wd.cur \in Runs \cup {None}
  BY PrepAssumption DEF Known, TypeInv, TypeOK, JobTypes
<1>b. \A r \in Handlers : /\ Launches(r) => req[r].job \in Jobs
                          /\ req[r].pc = "spawn" => req[r].run \in Runs /\ proc[req[r].run] = "off"
  BY DEF Known, TypeInv, JobsAreNamed, Named, Launches, LedgerInv, LaunchIsOwn
<1>2. \A m \in Runs \ {n} : proc'[m] = proc[m] /\ task'[m] = task[m]
  BY OwnersOfStep
<1>3. \A m \in Runs : JobOf(m)' = JobOf(m) /\ task'[m].mode = task[m].mode /\ task'[m].aged = task[m].aged
  BY OwnersOfStep
<1>4. req' = req /\ wd' = wd
  BY OthersOfStep
<1>5. wd.cur # n /\ n \notin wd.todo /\ ~task[n].aged
  BY OwnersOfStep
<1>6. /\ \A m \in Runs \ {n} : Owns(m)' <=> Owns(m)
      /\ Owns(n) <=> proc[n] \in Owning
      /\ Owns(n)' <=> proc'[n] \in Owning
  BY OwnersOfStep
<1>7. \A k \in Jobs : OnDisk(k) /\ path'[k] = path[k] => OnDisk(k)'
  BY <1>a, FoldersOfStep DEF OnDisk, Tracked
<1>8. \A k \in Jobs : \/ stage'[k] = stage[k] /\ path'[k] = path[k]
                      \/ k = JobOf(n) /\ Ends(n)
  BY JobOfStep, OwnerOfStep DEF Stays, GivesUp, Known
<1>9. Owns(n)' => Owns(n) /\ stage' = stage /\ path' = path
  BY <1>6, OwnerOfStep DEF Stays, Ends, GivesUp
<1>10. \A r \in Handlers : Launches(r) /\ Owns(n) => req[r].job # JobOf(n)
  BY DEF Known, GateInv, SoleOwner
<1>11. \A m \in Runs : m # n /\ Owns(m) /\ Owns(n) => JobOf(m) # JobOf(n)
  BY DEF Known, GateInv, SoleOwner
<1>12. ASSUME NEW r \in Handlers PROVE LaunchShape(r)'
  <2>1. LaunchShape(r)
    BY DEF Known, GateInv
  <2>2. Launches(r) => stage'[req[r].job] = stage[req[r].job] /\ path'[req[r].job] = path[req[r].job]
    BY <1>6, <1>8, <1>10, <1>b DEF Ends
  <2> QED BY <2>1, <2>2, <1>3, <1>4, <1>7, <1>b DEF LaunchShape, Launches, JobOf, Kept
<1>13. ASSUME NEW m \in Runs PROVE RunShape(m)'
  <2>1. RunShape(m)
    BY DEF Known, GateInv
  <2> QED BY <2>1, <1>2, <1>3, <1>4, <1>5, PhaseOfStep DEF RunShape
<1>14. ASSUME NEW m \in Runs PROVE OwnerShape(m)'
  <2>1. OwnerShape(m)
    BY DEF Known, GateInv
  <2>2. Owns(m)' => /\ Owns(m) /\ stage'[JobOf(m)] = stage[JobOf(m)]
                    /\ path'[JobOf(m)] = path[JobOf(m)]
    BY <2>1, <1>6, <1>8, <1>9, <1>11 DEF Ends, OwnerShape
  <2> QED BY <2>1, <2>2, <1>3, <1>7 DEF OwnerShape, Kept
<1>15. ASSUME NEW m \in Runs PROVE FolderShape(m)'
  <2>1. FolderShape(m)
    BY DEF Known, GateInv
  <2>2. CASE m = n
    BY <2>1, <2>2, PhaseOfStep DEF FolderShape
  <2>3. CASE m # n
    <3>1. proc'[m] = "a_commit" /\ JobOf(m) \in Spared => disk'[m] = disk[m]
      <4> SUFFICES ASSUME proc[m] = "a_commit", JobOf(m) \in Spared, disk'[m] # disk[m]
                   PROVE  FALSE
        BY <2>3, <1>2
      <4>1. JobOf(m) \in PrefixOf[JobOf(n)] /\ proc[n] = "a_start"
        BY <2>3, FoldersOfStep
      <4>2. Owns(m) /\ Owns(n)
        BY <4>1 DEF Owns, Owning, Working
      <4>3. JobOf(n) \in Jobs
        BY <4>2 DEF Known, GateInv, OwnerShape
      <4> QED BY <2>3, <4>1, <4>2, <4>3, <1>11 DEF Spared
    <3> QED BY <2>1, <2>3, <3>1, <1>2, <1>3, <1>a, PhaseOfStep DEF FolderShape
  <2> QED BY <2>2, <2>3
<1>16. ListShape'
  BY <1>2, <1>4, <1>5, <1>a DEF Known, GateInv, ListShape
<1>17. SoleOwner'
  <2>1. \A m \in Runs : Owns(m)' => Owns(m)
    BY <1>6, <1>9
  <2> QED BY <2>1, <1>3, <1>4 DEF Known, GateInv, SoleOwner, Launches
<1>18. MaterialsOnDisk'
  <2> SUFFICES ASSUME NEW k \in Spared, stage'[k] \in {"briefing_ready", "materials_drafted"}
               PROVE  OnDisk(k)'
    BY DEF MaterialsOnDisk
  <2>0. k \in Jobs
    BY DEF Spared
  <2>1. CASE stage'[k] = stage[k] /\ path'[k] = path[k]
    BY <2>0, <2>1, <1>7 DEF Known, GateInv, MaterialsOnDisk
  <2>2. CASE k = JobOf(n) /\ Ends(n)
    BY <2>2 DEF Ends, OnDisk
  <2> QED BY <2>0, <2>1, <2>2, <1>8
<1> QED BY <1>12, <1>13, <1>14, <1>15, <1>16, <1>17, <1>18 DEF GateInv

-----------------------------------------------------------------------------
(* The launching routes. *)

\* The routes read and launch only what the scope lets them.
LEMMA Typed ==
  ASSUME Known
  PROVE  /\ stage \in [Jobs -> Stage] /\ path \in [Jobs -> Runs \cup {None}]
         /\ req \in [Handlers -> Request] /\ task \in [Runs -> Task]
         /\ proc \in [Runs -> Live \cup {"off", "done", "dead"}]
         /\ disk \in [Runs -> {"absent", "present", "stale"}]
         /\ None \notin Runs /\ wd.todo \subseteq Runs /\ wd.cur \in Runs \cup {None}
         /\ "dead" \notin Live /\ "off" \notin Live
         /\ \A r \in Handlers : /\ req[r].pc # "idle" => req[r].job \in Jobs
                                /\ req[r].pc = "spawn" => req[r].run \in Runs
  BY PrepAssumption DEF Known, TypeInv, TypeOK, JobTypes, JobsAreNamed, Named,
                        Live, InPhaseA, InPhaseB, InExit

\* A request that is not past its claim owns nothing.
LEMMA GateRequest ==
  ASSUME Known, NEW r \in Handlers, NEW q, req' = [req EXCEPT ![r] = q],
         q.pc \in {"idle", "claim"}, q.route \in {"prep", "continue"}, req[r].pc # "spawn",
         UNCHANGED <<stage, path, disk, task, proc, wd>>
  PROVE  GateInv'
<1>1. req'[r] = q /\ \A s \in Handlers \ {r} : req'[s] = req[s]
  BY Typed
<1>2. \A s \in Handlers : Launches(s)' => s # r /\ Launches(s)
  BY <1>1 DEF Launches
<1>3. \A n \in Runs : (Owns(n)' <=> Owns(n)) /\ JobOf(n)' = JobOf(n)
  BY DEF Owns, JobOf
<1>4. \A j \in Jobs : OnDisk(j)' <=> OnDisk(j)
  BY DEF OnDisk
<1>5. ASSUME NEW s \in Handlers PROVE LaunchShape(s)'
  <2>1. LaunchShape(s)
    BY DEF Known, GateInv
  <2>2. Launches(s) => req[s].job \in Jobs
    BY Typed DEF Launches
  <2> QED BY <2>1, <2>2, <1>1, <1>2, <1>4 DEF LaunchShape, Kept
<1>6. ASSUME NEW n \in Runs PROVE (RunShape(n) /\ OwnerShape(n) /\ FolderShape(n))'
  <2>1. RunShape(n) /\ OwnerShape(n) /\ FolderShape(n)
    BY DEF Known, GateInv
  <2>2. RunShape(n)'
    BY <2>1, <1>1 DEF RunShape
  <2>3. OwnerShape(n)'
    BY <2>1, <1>3, <1>4 DEF OwnerShape, Kept
  <2>4. FolderShape(n)'
    BY <2>1 DEF FolderShape, JobOf
  <2> QED BY <2>2, <2>3, <2>4
<1>7. (ListShape /\ MaterialsOnDisk)'
  BY <1>4 DEF Known, GateInv, ListShape, MaterialsOnDisk, Spared
<1>8. SoleOwner'
  BY <1>1, <1>2, <1>3 DEF Known, GateInv, SoleOwner
<1> QED BY <1>5, <1>6, <1>7, <1>8 DEF GateInv

\* The claim takes a job nobody owns: the conditional UPDATE saw another stage.
LEMMA GateClaim ==
  ASSUME Known, NEW r \in Handlers, ClaimPrepSlot(r)
  PROVE  GateInv'
<1> DEFINE j == req[r].job
<1>1. /\ j \in Jobs /\ req[r].pc = "claim" /\ req[r].route \in {"prep", "continue"}
      /\ stage[j] # "prep_in_progress" /\ (req[r].route = "continue" => stage[j] = "briefing_ready")
  BY Typed DEF ClaimPrepSlot, CanClaim, Claimable, Known, GateInv, LaunchShape
<1>2. /\ stage'[j] = "prep_in_progress" /\ \A k \in Jobs \ {j} : stage'[k] = stage[k]
      /\ UNCHANGED <<path, disk, task, proc, wd>>
  BY <1>1, Typed DEF ClaimPrepSlot, Transition, procVars
<1>3. /\ req'[r].pc = "record" /\ req'[r].route = req[r].route /\ req'[r].job = j
      /\ \A s \in Handlers \ {r} : req'[s] = req[s]
  BY <1>1, Typed DEF ClaimPrepSlot, Request
<1>4. \A n \in Runs : (Owns(n)' <=> Owns(n)) /\ JobOf(n)' = JobOf(n)
  BY <1>2 DEF Owns, JobOf
<1>5. \A n \in Runs : Owns(n) => JobOf(n) # j
  BY <1>1 DEF Known, GateInv, OwnerShape
<1>6. \A s \in Handlers : Launches(s) => req[s].job \in Jobs \ {j}
  BY <1>1, Typed DEF Known, GateInv, LaunchShape, Launches
<1>7. \A k \in Jobs : OnDisk(k)' <=> OnDisk(k)
  BY <1>2 DEF OnDisk
<1>8. req[r].route = "continue" => Kept(j)
  BY <1>1 DEF Known, GateInv, MaterialsOnDisk, Kept
<1> HIDE DEF j
<1>9. ASSUME NEW s \in Handlers PROVE LaunchShape(s)'
  <2>1. LaunchShape(s)
    BY DEF Known, GateInv
  <2> QED BY <2>1, <1>1, <1>2, <1>3, <1>6, <1>7, <1>8 DEF LaunchShape, Launches, Kept
<1>10. ASSUME NEW n \in Runs PROVE (RunShape(n) /\ OwnerShape(n) /\ FolderShape(n))'
  <2>1. RunShape(n) /\ OwnerShape(n) /\ FolderShape(n)
    BY DEF Known, GateInv
  <2>2. RunShape(n)'
    BY <2>1, <1>1, <1>2, <1>3 DEF RunShape
  <2>3. OwnerShape(n)'
    BY <2>1, <1>2, <1>4, <1>5, <1>7 DEF OwnerShape, Kept
  <2>4. FolderShape(n)'
    BY <2>1, <1>2 DEF FolderShape, JobOf
  <2> QED BY <2>2, <2>3, <2>4
<1>11. ListShape'
  BY <1>2 DEF Known, GateInv, ListShape
<1>12. MaterialsOnDisk'
  BY <1>2, <1>7 DEF Known, GateInv, MaterialsOnDisk, Spared
<1>13. SoleOwner'
  BY <1>3, <1>4, <1>5, <1>6 DEF Known, GateInv, SoleOwner, Launches
<1> QED BY <1>9, <1>10, <1>11, <1>12, <1>13 DEF GateInv

\* The launch gets a row, and the request keeps the job until it has spawned.
LEMMA GateRecord ==
  ASSUME Known, NEW r \in Handlers, RecordStart(r)
  PROVE  GateInv'
<1>1. PICK n \in Runs :
        /\ task[n].status = "unused"
        /\ task' = [task EXCEPT ![n] = [status |-> "running", job |-> req[r].job,
                                        mode |-> LaunchMode(req[r].route), aged |-> FALSE]]
        /\ req' = [req EXCEPT ![r].pc = "spawn", ![r].run = n]
  BY DEF RecordStart
<1>2. req[r].pc = "record" /\ UNCHANGED <<stage, path, disk, proc, wd>>
  BY DEF RecordStart, jobVars, procVars
<1>3. \A m \in Runs \ {n} : task'[m] = task[m]
  BY <1>1, Typed
<1>4. /\ task'[n].job = req[r].job /\ task'[n].mode = LaunchMode(req[r].route)
      /\ task'[n].status = "running" /\ ~task'[n].aged
  BY <1>1, Typed
<1>5. /\ req'[r].pc = "spawn" /\ req'[r].run = n
      /\ req'[r].job = req[r].job /\ req'[r].route = req[r].route
      /\ \A s \in Handlers \ {r} : req'[s] = req[s]
  BY <1>1, Typed DEF Request
<1>6. proc[n] = "off" /\ ~task[n].aged
  BY <1>1 DEF Known, LedgerInv, RowMatches
<1>7. n # wd.cur /\ n \notin wd.todo
  BY <1>1, <1>6, Typed DEF Known, GateInv, ListShape
<1>8. /\ ~Owns(n) /\ ~Owns(n)'
      /\ \A m \in Runs \ {n} : (Owns(m)' <=> Owns(m)) /\ JobOf(m)' = JobOf(m)
  BY <1>2, <1>3, <1>6, <1>7 DEF Owns, JobOf, Owning, Working
<1>9. \A s \in Handlers : /\ Launches(s)' <=> Launches(s)
                          /\ req'[s].job = req[s].job /\ req'[s].route = req[s].route
  BY <1>2, <1>5 DEF Launches
<1>10. \A s \in Handlers : req[s].pc = "spawn" => req[s].run \in Runs \ {n} /\ s # r
  BY <1>1, <1>2, Typed DEF Known, LedgerInv, LaunchIsOwn
<1>11. \A k : OnDisk(k)' <=> OnDisk(k)
  BY <1>2 DEF OnDisk
<1>12. ASSUME NEW s \in Handlers PROVE LaunchShape(s)'
  <2>1. LaunchShape(s)
    BY DEF Known, GateInv
  <2>2. req'[s].pc # "clear" /\ req'[s].route \in {"prep", "continue"}
    BY <2>1, <1>5 DEF LaunchShape
  <2>3. (Launches(s) => /\ stage[req[s].job] = "prep_in_progress"
                        /\ req[s].route = "continue" => Kept(req[s].job))'
    BY <2>1, <1>2, <1>9 DEF LaunchShape, OnDisk, Kept
  <2>4. req'[s].pc = "spawn" => /\ task'[req'[s].run].job = req'[s].job
                                /\ task'[req'[s].run].mode = LaunchMode(req'[s].route)
    BY <2>1, <1>3, <1>4, <1>5, <1>10 DEF LaunchShape
  <2> QED BY <2>2, <2>3, <2>4 DEF LaunchShape
<1>13. ASSUME NEW m \in Runs PROVE RunShape(m)'
  <2>1. RunShape(m)
    BY DEF Known, GateInv
  <2>2. CASE m = n
    <3>1. req[r].route \in {"prep", "continue"}
      BY DEF Known, GateInv, LaunchShape
    <3>2. task'[n].mode \in {"a", "b"}
      BY <3>1, <1>4 DEF LaunchMode
    <3> QED BY <2>2, <3>2, <1>2, <1>4, <1>5, <1>6 DEF RunShape, InPhaseA, InPhaseB
  <2>3. CASE m # n
    BY <2>1, <2>3, <1>2, <1>3, <1>5, <1>10 DEF RunShape
  <2> QED BY <2>2, <2>3
<1>14. ASSUME NEW m \in Runs PROVE (OwnerShape(m) /\ FolderShape(m))'
  <2>1. OwnerShape(m) /\ FolderShape(m)
    BY DEF Known, GateInv
  <2> QED BY <2>1, <1>2, <1>3, <1>6, <1>8, <1>11 DEF OwnerShape, FolderShape, Kept, JobOf
<1>15. ListShape'
  BY <1>2, <1>3, <1>7, Typed DEF Known, GateInv, ListShape
<1>16. SoleOwner'
  BY <1>8, <1>9 DEF Known, GateInv, SoleOwner
<1>17. MaterialsOnDisk'
  BY <1>2, <1>11 DEF Known, GateInv, MaterialsOnDisk
<1> QED BY <1>12, <1>13, <1>14, <1>15, <1>16, <1>17 DEF GateInv

\* The spawn hands the job from the request to the process; when it fails, to nobody.
LEMMA GateSpawn ==
  ASSUME Known, NEW r \in Handlers, Spawn(r) \/ SpawnFails(r)
  PROVE  GateInv'
<1> DEFINE n == req[r].run
<1>1. /\ req[r].pc = "spawn" /\ n \in Runs /\ proc[n] = "off" /\ ~task[n].aged
      /\ task[n].status = "running" /\ \A s \in Handlers \ {r} : req[s].run # n
  BY Typed DEF Spawn, SpawnFails, Known, LedgerInv, LaunchIsOwn
<1>2. /\ task[n].job = req[r].job /\ task[n].mode = LaunchMode(req[r].route)
      /\ req[r].route \in {"prep", "continue"} /\ req[r].job \in Jobs
      /\ stage[req[r].job] = "prep_in_progress" /\ (req[r].route = "continue" => Kept(req[r].job))
  BY <1>1, Typed DEF Known, GateInv, LaunchShape, Launches
<1>3. /\ req'[r].pc = "idle" /\ req'[r].route = "prep" /\ \A s \in Handlers \ {r} : req'[s] = req[s]
      /\ UNCHANGED <<stage, path, disk, wd>>
  BY Typed DEF Spawn, SpawnFails, Idle, jobVars
<1>4. /\ \A m \in Runs : KeepsRow(m)
      /\ \A m \in Runs \ {n} : proc'[m] = proc[m] /\ task'[m] = task[m]
      /\ \/ proc'[n] = (IF task[n].mode = "b" THEN "b_start" ELSE "a_start") /\ task' = task
         \/ proc'[n] = "off" /\ task'[n].status = "failed"
  <2>1. CASE Spawn(r)
    BY <1>1, <2>1, Typed DEF Spawn, KeepsRow
  <2>2. CASE SpawnFails(r)
    <3>1. task' = [task EXCEPT ![n].status = "failed"] /\ proc' = proc
      BY <2>2 DEF SpawnFails, procVars
    <3>2. \A m \in Runs : /\ KeepsRow(m)
                          /\ m # n => task'[m] = task[m]
      BY <3>1, <1>1, Typed DEF KeepsRow, Task
    <3>3. task'[n].status = "failed"
      BY <3>1, <1>1, Typed DEF Task
    <3> QED BY <1>1, <3>1, <3>2, <3>3
  <2> QED BY <2>1, <2>2
<1>5. n # wd.cur /\ n \notin wd.todo
  BY <1>1, Typed DEF Known, GateInv, ListShape, LedgerInv
<1>6. /\ ~Owns(n)
      /\ \A m \in Runs \ {n} : Owns(m)' <=> Owns(m)
      /\ \A m \in Runs : JobOf(m)' = JobOf(m)
  BY <1>1, <1>3, <1>4, <1>5 DEF Owns, JobOf, Owning, Working, KeepsRow
<1>7. \A s \in Handlers : Launches(s)' => s # r /\ Launches(s)
  BY <1>3 DEF Launches
<1>8. \A k : OnDisk(k)' <=> OnDisk(k)
  BY <1>3 DEF OnDisk
<1>9. Launches(r) /\ req[r].job = JobOf(n)
  BY <1>1, <1>2 DEF Launches, JobOf
<1>10. task[n].mode \in {"a", "b"} /\ (task[n].mode = "b" => Kept(JobOf(n)))
  BY <1>2, <1>9 DEF LaunchMode
<1> HIDE DEF n
<1>11. ASSUME NEW s \in Handlers PROVE LaunchShape(s)'
  <2>1. LaunchShape(s)
    BY DEF Known, GateInv
  <2>2. req[s].pc = "spawn" => req[s].run \in Runs
    BY Typed
  <2>3. CASE s = r
    BY <2>3, <1>3 DEF LaunchShape, Launches
  <2>4. CASE s # r
    BY <2>1, <2>2, <2>4, <1>3, <1>4, <1>8 DEF LaunchShape, Launches, KeepsRow, Kept
  <2> QED BY <2>3, <2>4
<1>12. ASSUME NEW m \in Runs PROVE RunShape(m)'
  <2>1. RunShape(m)
    BY DEF Known, GateInv
  <2>2. CASE m = n
    BY <2>1, <2>2, <1>1, <1>4, <1>10 DEF RunShape, InPhaseA, InPhaseB, KeepsRow
  <2>3. CASE m # n
    <3>1. \A s \in Handlers : req[s].run = m => s # r
      BY <2>3 DEF n
    <3> QED BY <2>1, <2>3, <3>1, <1>3, <1>4 DEF RunShape
  <2> QED BY <2>2, <2>3
<1>13. ASSUME NEW m \in Runs PROVE OwnerShape(m)'
  <2>1. OwnerShape(m)
    BY DEF Known, GateInv
  <2>2. CASE m = n
    BY <2>2, <1>2, <1>3, <1>6, <1>8, <1>9, <1>10, <1>4 DEF OwnerShape, KeepsRow, Kept
  <2>3. CASE m # n
    BY <2>1, <2>3, <1>3, <1>4, <1>6, <1>8 DEF OwnerShape, Kept
  <2> QED BY <2>2, <2>3
<1>14. ASSUME NEW m \in Runs PROVE FolderShape(m)'
  <2>1. FolderShape(m)
    BY DEF Known, GateInv
  <2> QED BY <2>1, <1>1, <1>3, <1>4, <1>6 DEF FolderShape, Uncommitted
<1>15. ListShape'
  BY <1>3, <1>4, <1>5, Typed DEF Known, GateInv, ListShape
<1>16. SoleOwner'
  <2>1. \A m \in Runs : Owns(m)' => m = n \/ Owns(m)
    BY <1>6
  <2>2. \A s \in Handlers : Launches(s)' => req[s].job # JobOf(n) /\ req'[s].job = req[s].job
    BY <1>3, <1>7, <1>9 DEF Known, GateInv, SoleOwner
  <2>3. \A m \in Runs : Owns(m) => JobOf(m) # JobOf(n)
    BY <1>9 DEF Known, GateInv, SoleOwner
  <2> QED BY <2>1, <2>2, <2>3, <1>6, <1>7 DEF Known, GateInv, SoleOwner
<1>17. MaterialsOnDisk'
  BY <1>3, <1>8 DEF Known, GateInv, MaterialsOnDisk
<1> QED BY <1>11, <1>12, <1>13, <1>14, <1>15, <1>16, <1>17 DEF GateInv

\* No step of a request leaves two owners or an offered job without its folder.
LEMMA GateHandlers ==
  ASSUME Known, NEW r \in Handlers,
         (\E route \in Routes, j \in Jobs : ReadJob(r, route, j))
           \/ HandlerStep(r) \/ SpawnFails(r) \/ HandlerError(r)
  PROVE  GateInv'
<1>1. ASSUME NEW route \in Routes, NEW j \in Jobs, ReadJob(r, route, j) PROVE GateInv'
  <2> DEFINE q == [pc |-> "claim", route |-> route, job |-> j, folder |-> path[j], run |-> None]
  <2>1. /\ req' = [req EXCEPT ![r] = q] /\ req[r].pc # "spawn"
        /\ UNCHANGED <<stage, path, disk, task, proc, wd>>
    BY <1>1 DEF ReadJob, jobVars, procVars
  <2>2. q.pc \in {"idle", "claim"} /\ q.route \in {"prep", "continue"}
    BY DEF Known, GateScope
  <2> HIDE DEF q
  <2> QED BY <2>1, <2>2, GateRequest
<1>2. CASE ClaimMissed(r) \/ HandlerError(r)
  <2>1. /\ req' = [req EXCEPT ![r] = Idle] /\ req[r].pc # "spawn"
        /\ UNCHANGED <<stage, path, disk, task, proc, wd>>
    BY <1>2 DEF ClaimMissed, HandlerError, jobVars, procVars
  <2>2. Idle.pc \in {"idle", "claim"} /\ Idle.route \in {"prep", "continue"}
    BY DEF Idle
  <2> QED BY <2>1, <2>2, GateRequest
<1>3. ~ClearFolder(r)
  BY DEF ClearFolder, Known, GateInv, LaunchShape
<1> QED BY <1>1, <1>2, <1>3, GateClaim, GateRecord, GateSpawn DEF HandlerStep

-----------------------------------------------------------------------------
(* Clock, kills and the watchdog. *)

\* Steps after which nobody owns what he did not own before, and every owner's job is
\* where it was.
LEMMA GateFrame ==
  ASSUME Known, req' = req, path' = path,
         \A m \in Runs : task'[m].job = task[m].job /\ task'[m].mode = task[m].mode,
         \A m \in Runs : Owns(m)' => Owns(m) /\ stage'[JobOf(m)] = stage[JobOf(m)],
         \A r \in Handlers : Launches(r) => stage'[req[r].job] = stage[req[r].job],
         \A m \in Runs : m \in Tracked /\ disk[m] = "present" => disk'[m] = "present",
         \A j \in Spared : stage'[j] \in {"briefing_ready", "materials_drafted"}
                           => stage[j] = stage'[j] \/ OnDisk(j)
  PROVE  /\ \A r \in Handlers : LaunchShape(r)'
         /\ \A n \in Runs : OwnerShape(n)'
         /\ SoleOwner' /\ MaterialsOnDisk'
<1>1. \A k \in Jobs : OnDisk(k) => OnDisk(k)'
  BY Typed DEF OnDisk, Tracked
<1>2. \A m \in Runs : JobOf(m)' = JobOf(m)
  BY DEF JobOf
<1>3. ASSUME NEW r \in Handlers PROVE LaunchShape(r)'
  <2>1. LaunchShape(r)
    BY DEF Known, GateInv
  <2>2. /\ Launches(r) => req[r].job \in Jobs
        /\ req[r].pc = "spawn" => req[r].run \in Runs
    BY Typed DEF Launches
  <2> QED BY <2>1, <2>2, <1>1 DEF LaunchShape, Launches, Kept
<1>4. ASSUME NEW n \in Runs PROVE OwnerShape(n)'
  <2>1. OwnerShape(n)
    BY DEF Known, GateInv
  <2> QED BY <2>1, <1>1, <1>2 DEF OwnerShape, Kept
<1>5. SoleOwner'
  BY <1>2 DEF Known, GateInv, SoleOwner, Launches
<1>6. MaterialsOnDisk'
  BY <1>1 DEF Known, GateInv, MaterialsOnDisk, Spared
<1> QED BY <1>3, <1>4, <1>5, <1>6

\* A kill leaves the job to the watchdog, or in the shim to nobody; a row grows old only
\* when its run is dead; the sweep takes folders no row names.
LEMMA GateClock ==
  ASSUME Known, NEW n \in Runs, Kill(n) \/ Age(n) \/ SweepOrphan(n)
  PROVE  GateInv'
<1>a. \A m \in Runs : RunShape(m) /\ OwnerShape(m) /\ FolderShape(m)
  BY DEF Known, GateInv
<1>b. ListShape
  BY DEF Known, GateInv
<1>1. CASE Kill(n)
  <2>1. /\ proc[n] \in Owning /\ UNCHANGED <<stage, path, req, task, disk, wd>>
        /\ proc'[n] = "dead" /\ \A m \in Runs \ {n} : proc'[m] = proc[m]
    BY <1>1, Typed DEF Kill, Owning, Known, GateScope, jobVars
  <2>2. \A m \in Runs : Owns(m)' => Owns(m)
    BY <2>1 DEF Owns
  <2>3. proc[n] \in Live
    BY <2>1 DEF Owning, Working, Live, InPhaseA, InPhaseB, InExit
  <2>4. \A m \in Runs : (RunShape(m) /\ FolderShape(m))'
    BY <1>a, <2>1, <2>3, Typed DEF RunShape, FolderShape, Uncommitted, InPhaseA, InPhaseB, JobOf
  <2>5. ListShape'
    BY <1>b, <2>1, Typed DEF ListShape
  <2>6. /\ \A r \in Handlers : LaunchShape(r)'
        /\ \A m \in Runs : OwnerShape(m)'
        /\ SoleOwner' /\ MaterialsOnDisk'
    BY <2>1, <2>2, GateFrame
  <2> QED BY <2>4, <2>5, <2>6 DEF GateInv
<1>2. CASE Age(n)
  <2>1. /\ task[n].status = "running" /\ proc[n] \notin Live /\ \A r \in Handlers : req[r].run # n
        /\ UNCHANGED <<stage, path, req, proc, disk, wd>>
        /\ task' = [task EXCEPT ![n].aged = TRUE]
    BY <1>2 DEF Age, Known, GateScope, jobVars, procVars
  <2>2. /\ \A m \in Runs : /\ task'[m].status = task[m].status
                           /\ task'[m].job = task[m].job /\ task'[m].mode = task[m].mode
        /\ \A m \in Runs \ {n} : task'[m] = task[m]
    BY <2>1, Typed DEF Task
  <2>3. proc[n] = "dead"
    BY <1>a, <2>1, Typed DEF RunShape
  <2>4. \A m \in Runs : Owns(m)' <=> Owns(m)
    BY <2>1, <2>2 DEF Owns
  <2>5. \A m \in Runs : (RunShape(m) /\ FolderShape(m))'
    BY <1>a, <2>1, <2>2, <2>3, Typed DEF RunShape, FolderShape, JobOf
  <2>6. ListShape'
    BY <1>b, <2>1, <2>2, Typed DEF ListShape
  <2>7. /\ \A r \in Handlers : LaunchShape(r)'
        /\ \A m \in Runs : OwnerShape(m)'
        /\ SoleOwner' /\ MaterialsOnDisk'
    BY <2>1, <2>2, <2>4, GateFrame
  <2> QED BY <2>5, <2>6, <2>7 DEF GateInv
<1>3. CASE SweepOrphan(n)
  <2>1. /\ n \notin Tracked /\ proc[n] \notin Live /\ \A m \in Runs \ {n} : disk'[m] = disk[m]
        /\ UNCHANGED <<stage, path, req, proc, task, wd>>
    BY <1>3 DEF SweepOrphan, Known, GateScope, jobVars, procVars
  <2>2. \A m \in Runs : Owns(m)' <=> Owns(m)
    BY <2>1 DEF Owns
  <2>3. \A m \in Runs : (RunShape(m) /\ FolderShape(m))'
    BY <1>a, <2>1 DEF RunShape, FolderShape, Live, InPhaseA, JobOf
  <2>4. ListShape'
    BY <1>b, <2>1 DEF ListShape
  <2>5. /\ \A r \in Handlers : LaunchShape(r)'
        /\ \A m \in Runs : OwnerShape(m)'
        /\ SoleOwner' /\ MaterialsOnDisk'
    BY <2>1, <2>2, GateFrame
  <2> QED BY <2>3, <2>4, <2>5 DEF GateInv
<1> QED BY <1>1, <1>2, <1>3

\* The watchdog resets the job of a dead run, which is still that run's; the 48-hour reset
\* takes a job nobody owns.
LEMMA GateWatchdog ==
  ASSUME Known, WatchdogStep \/ \E j \in Jobs : ReapBriefingReadyStale(j)
  PROVE  GateInv'
<1>a. \A m \in Runs : RunShape(m) /\ OwnerShape(m) /\ FolderShape(m)
  BY DEF Known, GateInv
<1>b. ListShape /\ SoleOwner
  BY DEF Known, GateInv
<1>1. CASE FindStuck
  <2>1. /\ UNCHANGED <<stage, path, req, task, proc, disk>> /\ wd'.cur = wd.cur
        /\ \A m \in wd'.todo : m \in Runs /\ task[m].status = "running"
    BY <1>1 DEF FindStuck, Stuck, jobVars, procVars
  <2>2. \A m \in Runs : Owns(m)' <=> Owns(m)
    BY <2>1 DEF Owns
  <2>3. \A m \in Runs : (RunShape(m) /\ FolderShape(m))'
    BY <1>a, <2>1 DEF RunShape, FolderShape, JobOf
  <2>4. ListShape'
    BY <1>b, <2>1 DEF ListShape
  <2>5. /\ \A r \in Handlers : LaunchShape(r)'
        /\ \A m \in Runs : OwnerShape(m)'
        /\ SoleOwner' /\ MaterialsOnDisk'
    BY <2>1, <2>2, GateFrame
  <2> QED BY <2>3, <2>4, <2>5 DEF GateInv
<1>2. ASSUME NEW n \in Runs, ReapFail(n) PROVE GateInv'
  <2>1. /\ n \in wd.todo /\ wd.cur = None /\ Close(n, "failed")
        /\ wd'.todo = wd.todo \ {n} /\ wd'.cur = n
        /\ UNCHANGED <<stage, path, req, proc, disk>>
    BY <1>2 DEF ReapFail, jobVars, procVars
  <2>2. /\ \A m \in Runs : KeepsRow(m)
        /\ \A m \in Runs \ {n} : task'[m] = task[m]
        /\ task'[n].status # "running"
    BY <2>1, TaskClosed, Typed
  <2>3. proc[n] = "dead" /\ task[n].status = "running"
    BY <2>1, <1>a, <1>b DEF Known, LedgerInv, RunShape, ListShape
  <2>4. Owns(n) /\ \A m \in Runs : Owns(m)' <=> Owns(m)
    BY <2>1, <2>2, <2>3, Typed DEF Owns, Owning, Working
  <2>5. \A m \in Runs : (RunShape(m) /\ FolderShape(m))'
    BY <1>a, <2>1, <2>2, <2>3 DEF RunShape, FolderShape, KeepsRow, JobOf
  <2>6. ListShape'
    BY <1>b, <2>1, <2>2, <2>3, Typed DEF ListShape
  <2>7. \A m \in Runs : task'[m].job = task[m].job /\ task'[m].mode = task[m].mode
    BY <2>2 DEF KeepsRow
  <2>8. /\ \A r \in Handlers : LaunchShape(r)'
        /\ \A m \in Runs : OwnerShape(m)'
        /\ SoleOwner' /\ MaterialsOnDisk'
    BY <2>1, <2>4, <2>7, GateFrame
  <2> QED BY <2>5, <2>6, <2>8 DEF GateInv
<1>3. CASE ReapReset
  <2> DEFINE n == wd.cur
  <2> DEFINE j == JobOf(wd.cur)
  <2>1. /\ n \in Runs /\ UNCHANGED <<req, task, proc, disk>>
        /\ wd'.todo = wd.todo /\ wd'.cur = None
    BY <1>3, Typed DEF ReapReset, procVars, Known, TypeInv, TypeOK
  <2>2. /\ Owns(n) /\ j \in Jobs /\ stage[j] = "prep_in_progress"
        /\ task[n].mode = "b" => Kept(j)
        /\ task[n].mode \in {"a", "b"}
        /\ proc[n] = "dead" /\ task[n].status # "running"
    BY <2>1, <1>a, <1>b, Typed DEF Owns, OwnerShape, RunShape, ListShape
  <2>3. /\ \/ task[n].mode = "b" /\ stage' = [stage EXCEPT ![j] = "briefing_ready"] /\ path' = path
           \/ /\ task[n].mode = "a" /\ stage' = [stage EXCEPT ![j] = "scored"]
              /\ path' = [path EXCEPT ![j] = None]
    BY <1>3, <2>2 DEF ReapReset, Kind, ResetPrepToScored, ResetPrepToBriefingReady, Transition
  <2>4. \A m \in Runs : Owns(m)' => Owns(m) /\ m # n
    BY <2>1, <2>2, Typed DEF Owns, Owning, Working
  <2>5. \A m \in Runs : Owns(m)' => JobOf(m) # j
    BY <2>1, <2>2, <2>4, <1>b DEF SoleOwner
  <2>6. \A r \in Handlers : Launches(r) => req[r].job # j
    BY <2>1, <2>2, <1>b DEF SoleOwner
  <2>7. /\ \A k \in Jobs \ {j} : stage'[k] = stage[k] /\ path'[k] = path[k]
        /\ stage'[j] = (IF task[n].mode = "b" THEN "briefing_ready" ELSE "scored")
        /\ path'[j] = (IF task[n].mode = "b" THEN path[j] ELSE None)
    BY <2>2, <2>3, Typed
  <2>8. \A m \in Runs : (RunShape(m) /\ FolderShape(m))'
    BY <1>a, <2>1, <2>7, Typed DEF RunShape, FolderShape, JobOf
  <2>9. ListShape'
    BY <1>b, <2>1 DEF ListShape
  <2>10. \A k \in Jobs \ {j} : OnDisk(k)' <=> OnDisk(k)
    BY <2>1, <2>7 DEF OnDisk
  <2> HIDE DEF n, j
  <2>11. ASSUME NEW r \in Handlers PROVE LaunchShape(r)'
    <3>1. LaunchShape(r) /\ (Launches(r) => req[r].job \in Jobs \ {j})
      BY <2>6, Typed DEF Known, GateInv, Launches
    <3> QED BY <3>1, <2>1, <2>7, <2>10 DEF LaunchShape, Launches, Kept
  <2>12. ASSUME NEW m \in Runs PROVE OwnerShape(m)'
    <3>1. Owns(m)' => Owns(m) /\ JobOf(m) \in Jobs \ {j} /\ JobOf(m)' = JobOf(m)
      BY <1>a, <2>1, <2>4, <2>5 DEF OwnerShape, JobOf
    <3> QED BY <3>1, <1>a, <2>1, <2>7, <2>10 DEF OwnerShape, Kept
  <2>13. SoleOwner'
    BY <1>b, <2>1, <2>4 DEF SoleOwner, Launches, JobOf
  <2>14. MaterialsOnDisk'
    <3> SUFFICES ASSUME NEW k \in Spared, stage'[k] \in {"briefing_ready", "materials_drafted"}
                 PROVE  OnDisk(k)'
      BY DEF MaterialsOnDisk, Spared
    <3>a. k \in Jobs
      BY DEF Spared
    <3>1. CASE k = j
      BY <3>1, <2>1, <2>2, <2>7 DEF OnDisk, Kept
    <3>2. CASE k # j
      BY <3>2, <3>a, <2>7, <2>10 DEF Known, GateInv, MaterialsOnDisk
    <3> QED BY <3>1, <3>2
  <2> QED BY <2>8, <2>9, <2>11, <2>12, <2>13, <2>14 DEF GateInv
<1>4. ASSUME NEW j \in Jobs, ReapBriefingReadyStale(j) PROVE GateInv'
  <2>1. /\ stage[j] = "briefing_ready" /\ stage' = [stage EXCEPT ![j] = "scored"]
        /\ UNCHANGED <<path, req, task, proc, disk, wd>>
    BY <1>4 DEF ReapBriefingReadyStale, Transition, procVars
  <2>2. \A m \in Runs : (Owns(m)' <=> Owns(m)) /\ (Owns(m) => JobOf(m) # j)
    BY <2>1, <1>a DEF Owns, OwnerShape
  <2>3. \A r \in Handlers : Launches(r) => req[r].job # j
    BY <2>1 DEF Known, GateInv, LaunchShape
  <2>4. stage'[j] = "scored" /\ \A k : k # j => stage'[k] = stage[k]
    BY <2>1, Typed
  <2>5. \A m \in Runs : (RunShape(m) /\ FolderShape(m))'
    BY <1>a, <2>1 DEF RunShape, FolderShape, JobOf
  <2>6. ListShape'
    BY <1>b, <2>1 DEF ListShape
  <2>7. /\ \A r \in Handlers : LaunchShape(r)'
        /\ \A m \in Runs : OwnerShape(m)'
        /\ SoleOwner' /\ MaterialsOnDisk'
    BY <2>1, <2>2, <2>3, <2>4, GateFrame
  <2> QED BY <2>5, <2>6, <2>7 DEF GateInv
<1> QED BY <1>1, <1>2, <1>3, <1>4 DEF WatchdogStep

-----------------------------------------------------------------------------
(* The theorems. *)

\* Every step within the scope keeps the invariant.
LEMMA GateStep ==
  ASSUME Known, [Next]_vars
  PROVE  GateInv'
<1>1. CASE UNCHANGED vars
  <2>1. \A n \in Runs : Owns(n)' <=> Owns(n)
    BY <1>1 DEF vars, Owns
  <2>2. UNCHANGED <<stage, path, req, task, proc, disk, wd>>
    BY <1>1 DEF vars
  <2>3. \A n \in Runs : (RunShape(n) /\ FolderShape(n))'
    BY <2>2 DEF Known, GateInv, RunShape, FolderShape, JobOf
  <2>4. ListShape'
    BY <2>2 DEF Known, GateInv, ListShape
  <2>5. /\ \A r \in Handlers : LaunchShape(r)'
        /\ \A m \in Runs : OwnerShape(m)'
        /\ SoleOwner' /\ MaterialsOnDisk'
    BY <2>1, <2>2, GateFrame
  <2> QED BY <2>3, <2>4, <2>5 DEF GateInv
<1>2. \A j \in Jobs : ~OperatorStep(j)
  BY DEF OperatorStep, Waitlist, Reactivate, Reject, UnReject, Apply, UnApply, OperatorMoves,
         Known, GateScope
<1>3. ~Restart
  BY DEF Restart, Known, GateScope
<1> QED BY <1>1, <1>2, <1>3, GateHandlers, GateProcess, GateClock, GateWatchdog DEF Next

\* Within the scope a job in preparation has one owner in every reachable state.
LEMMA GateIsInvariant == GateScope => (Spec => [](TypeInv /\ LedgerInv /\ GateInv))
<1> SUFFICES ASSUME GateScope PROVE Spec => [](TypeInv /\ LedgerInv /\ GateInv)
  OBVIOUS
<1>1. Spec => []TypeInv
  BY TypeInit, TypeStep, PTL DEF Spec
<1>2. TypeInv /\ LedgerInv /\ GateInv /\ [Next]_vars => GateInv'
  BY GateStep DEF Known
<1> QED BY <1>1, <1>2, GateInit, LedgerIsInvariant, PTL DEF Spec

\* A set with at most one member counts none or one.
LEMMA AtMostOne ==
  ASSUME NEW S, \A x, y \in S : x = y
  PROVE  Cardinality(S) \in {0, 1} /\ (S = {} => Cardinality(S) = 0)
<1>1. CASE S = {}
  <2>1. Cardinality(S) = 0
    BY <1>1, FS_EmptySet
  <2> QED BY <2>1
<1>2. CASE S # {}
  <2>1. PICK x : S = {x}
    BY <1>2
  <2>2. Cardinality(S) = 1
    BY <2>1, FS_Singleton
  <2> QED BY <1>2, <2>2
<1> QED BY <1>1, <1>2

(* A job is never worked on twice: however requests interleave, whoever is  *)
(* killed and whenever the watchdog comes, at most one request past its     *)
(* claim or one process before its last stage write exists per job.         *)
THEOREM OneRunPerJobHolds ==
  ASSUME GateScope
  PROVE  Spec => []OneRunPerJob
<1>1. TypeInv /\ LedgerInv /\ GateInv => OneRunPerJob
  <2> SUFFICES ASSUME Known, NEW j \in Jobs
               PROVE  Cardinality(Launching(j)) + Cardinality(Writers(j)) <= 1
    BY DEF OneRunPerJob, Known
  <2>1. \A r \in Launching(j) : Launches(r) /\ req[r].job = j
    BY DEF Launching, Launches, Known, GateInv, LaunchShape
  <2>2. \A n \in Writers(j) : n \in Runs /\ Owns(n) /\ JobOf(n) = j
    BY DEF Writers, RunsOf, Owns, Owning, JobOf
  <2>3. /\ \A r, s \in Launching(j) : r = s
        /\ \A m, n \in Writers(j) : m = n
        /\ Launching(j) = {} \/ Writers(j) = {}
    BY <2>1, <2>2 DEF Known, GateInv, SoleOwner, Launching
  <2>4. /\ Cardinality(Launching(j)) \in {0, 1} /\ Cardinality(Writers(j)) \in {0, 1}
        /\ Launching(j) = {} => Cardinality(Launching(j)) = 0
        /\ Writers(j) = {} => Cardinality(Writers(j)) = 0
    BY <2>3, AtMostOne
  <2> QED BY <2>3, <2>4
<1> QED BY <1>1, GateIsInvariant, PTL

(* A job offered for reading or applying, whose folder no other job's        *)
(* prefix takes, has it on disk: no quarantine, clean-up, sweep or           *)
(* concurrent run takes it away.                                             *)
THEOREM MaterialsStayOnDisk ==
  ASSUME GateScope
  PROVE  Spec => []MaterialsOnDisk
<1>1. GateInv => MaterialsOnDisk
  BY DEF GateInv
<1> QED BY <1>1, GateIsInvariant, PTL

(* The watchdog takes a slot back only from a run that no longer works: the *)
(* row it reaps is dead, and nobody else has the job meanwhile.             *)
THEOREM OnlyDeadRunsAreReaped ==
  ASSUME GateScope
  PROVE  Spec => ReapsOnlyDeadRuns
<1>1. TypeInv /\ LedgerInv /\ GateInv /\ [Next]_vars
        => [(ReapReset /\ Preparing' # Preparing) => Writers(JobOf(wd.cur)) = {}]_vars
  <2> SUFFICES ASSUME Known, ReapReset PROVE Writers(JobOf(wd.cur)) = {}
    BY DEF Known
  <2>1. wd.cur \in Runs /\ Owns(wd.cur) /\ proc[wd.cur] = "dead"
    BY Typed DEF ReapReset, Owns, Known, GateInv, ListShape
  <2>2. \A n \in Writers(JobOf(wd.cur)) : n \in Runs /\ Owns(n) /\ JobOf(n) = JobOf(wd.cur)
    BY DEF Writers, RunsOf, Owns, Owning, JobOf
  <2>3. \A n \in Writers(JobOf(wd.cur)) : n = wd.cur
    BY <2>1, <2>2 DEF Known, GateInv, SoleOwner
  <2> QED BY <2>1, <2>3 DEF Writers, Working
<1> QED BY <1>1, GateIsInvariant, PTL DEF Spec, ReapsOnlyDeadRuns

-----------------------------------------------------------------------------
(* Nobody is stranded, where no fault leaves a claim without a launch or a  *)
(* row without its reset.                                                  *)

StrictScope ==
  /\ GateScope
  /\ Faults \cap {"popen", "handler_error", "kill_in_shim"} = {}

Owned(j) ==
  \/ \E r \in Handlers : Launches(r) /\ req[r].job = j
  \/ \E n \in Runs : Owns(n) /\ JobOf(n) = j

NobodyStranded == \A j \in Preparing \cap Spared : Owned(j)

\* A step that puts no job into preparation and takes no owner from one strands nobody.
LEMMA OwnedFrame ==
  ASSUME NobodyStranded, Preparing' \subseteq Preparing,
         \A r \in Handlers : Launches(r) => Launches(r)' /\ req'[r].job = req[r].job,
         \A n \in Runs : Owns(n) /\ JobOf(n) \in Preparing' => Owns(n)' /\ JobOf(n)' = JobOf(n)
  PROVE  NobodyStranded'
<1> SUFFICES ASSUME NEW j \in Preparing' \cap Spared PROVE Owned(j)'
  BY DEF NobodyStranded, Spared
<1>1. Owned(j)
  BY DEF NobodyStranded
<1> QED BY <1>1 DEF Owned

\* A request keeps its job until the process has it.
LEMMA OwnedHandlers ==
  ASSUME Known, StrictScope, NobodyStranded, NEW r \in Handlers,
         (\E route \in Routes, j \in Jobs : ReadJob(r, route, j)) \/ HandlerStep(r)
  PROVE  NobodyStranded'
<1>1. CASE ClaimMissed(r) \/ \E route \in Routes, j \in Jobs : ReadJob(r, route, j)
  <2>1. /\ ~Launches(r) /\ \A s \in Handlers \ {r} : req'[s] = req[s]
        /\ UNCHANGED <<stage, task, proc, wd>>
    BY <1>1, Typed DEF ClaimMissed, ReadJob, Launches, jobVars, procVars
  <2>2. \A n \in Runs : Owns(n) => Owns(n)' /\ JobOf(n)' = JobOf(n)
    BY <2>1 DEF Owns, JobOf
  <2>3. Preparing' = Preparing
    BY <2>1 DEF Preparing
  <2> QED BY <2>1, <2>2, <2>3, OwnedFrame DEF Launches
<1>2. CASE ClaimPrepSlot(r)
  <2>1. /\ req[r].pc = "claim" /\ req[r].route # "regenerate"
        /\ UNCHANGED <<task, proc, wd>> /\ stage' = [stage EXCEPT ![req[r].job] = "prep_in_progress"]
    BY <1>2 DEF ClaimPrepSlot, Transition, Known, GateInv, LaunchShape, procVars
  <2>2. /\ req'[r].pc = "record" /\ req'[r].job = req[r].job
        /\ \A s \in Handlers \ {r} : req'[s] = req[s]
    BY <1>2, <2>1, Typed DEF ClaimPrepSlot, Request
  <2>3. \A j \in Preparing' : j \in Preparing \/ j = req[r].job
    BY <2>1, Typed DEF Preparing
  <2>4. \A n \in Runs : Owns(n) => Owns(n)' /\ JobOf(n)' = JobOf(n)
    BY <2>1 DEF Owns, JobOf
  <2>5. ASSUME NEW j \in Preparing' \cap Spared PROVE Owned(j)'
    <3>1. CASE j = req[r].job
      BY <3>1, <2>2 DEF Owned, Launches
    <3>2. CASE j \in Preparing
      <4>1. Owned(j)
        BY <3>2 DEF NobodyStranded
      <4>2. \A s \in Handlers : Launches(s) => s # r /\ Launches(s)' /\ req'[s].job = req[s].job
        BY <2>1, <2>2 DEF Launches
      <4> QED BY <4>1, <4>2, <2>4 DEF Owned
    <3> QED BY <3>1, <3>2, <2>3
  <2> QED BY <2>5 DEF NobodyStranded, Spared
<1>3. CASE RecordStart(r)
  <2>1. PICK n \in Runs :
          /\ task[n].status = "unused"
          /\ task' = [task EXCEPT ![n] = [status |-> "running", job |-> req[r].job,
                                          mode |-> LaunchMode(req[r].route), aged |-> FALSE]]
          /\ req' = [req EXCEPT ![r].pc = "spawn", ![r].run = n]
    BY <1>3 DEF RecordStart
  <2>2. /\ proc[n] = "off" /\ wd.cur # n /\ UNCHANGED <<stage, proc, wd>>
        /\ \A m \in Runs \ {n} : task'[m] = task[m]
    BY <1>3, <2>1, Typed DEF RecordStart, Known, LedgerInv, RowMatches, GateInv, ListShape, jobVars, procVars
  <2>3. \A m \in Runs : Owns(m) => Owns(m)' /\ JobOf(m)' = JobOf(m)
    BY <2>2 DEF Owns, Owning, Working, JobOf
  <2>4. \A s \in Handlers : Launches(s) => Launches(s)' /\ req'[s].job = req[s].job
    BY <2>1, Typed DEF Launches, Request
  <2>5. Preparing' = Preparing
    BY <2>2 DEF Preparing
  <2> QED BY <2>3, <2>4, <2>5, OwnedFrame
<1>4. CASE Spawn(r)
  <2>1. PICK n \in Runs : n = req[r].run /\ req[r].pc = "spawn"
    BY <1>4, Typed DEF Spawn
  <2>2. /\ proc'[n] \in {"a_start", "b_start"} /\ \A m \in Runs \ {n} : proc'[m] = proc[m]
        /\ UNCHANGED <<stage, task, wd>> /\ \A s \in Handlers \ {r} : req'[s] = req[s]
    BY <1>4, <2>1, Typed DEF Spawn, jobVars
  <2>3. proc[n] = "off" /\ task[n].job = req[r].job /\ wd.cur # n
    BY <2>1, Typed DEF Known, LedgerInv, LaunchIsOwn, GateInv, LaunchShape, ListShape
  <2>4. Owns(n)' /\ JobOf(n)' = req[r].job
    BY <2>2, <2>3 DEF Owns, Owning, Working, JobOf
  <2>5. \A m \in Runs : Owns(m) => Owns(m)' /\ JobOf(m)' = JobOf(m)
    BY <2>2, <2>3 DEF Owns, Owning, Working, JobOf
  <2>6. ASSUME NEW j \in Preparing' \cap Spared PROVE Owned(j)'
    <3>1. Owned(j)
      BY <2>2 DEF NobodyStranded, Preparing
    <3>2. \A s \in Handlers : s # r /\ Launches(s) => Launches(s)' /\ req'[s].job = req[s].job
      BY <2>2 DEF Launches
    <3> QED BY <3>1, <3>2, <2>4, <2>5 DEF Owned
  <2> QED BY <2>6 DEF NobodyStranded, Spared
<1>5. ~ClearFolder(r)
  BY DEF ClearFolder, Known, GateInv, LaunchShape
<1> QED BY <1>1, <1>2, <1>3, <1>4, <1>5 DEF HandlerStep

\* A process gives the job up only together with the slot; a kill leaves a running row.
LEMMA OwnedProcess ==
  ASSUME Known, StrictScope, NobodyStranded, NEW n \in Runs,
         ProcStep(n) \/ Kill(n) \/ Age(n) \/ SweepOrphan(n)
  PROVE  NobodyStranded'
<1>1. CASE ProcStep(n)
  <2>1. req' = req
    BY <1>1, OthersOfStep
  <2>2. CASE Stays(n)
    <3>1. \A m \in Runs : Owns(m) => Owns(m)' /\ JobOf(m)' = JobOf(m)
      BY <1>1, <2>2, OwnersOfStep DEF Stays
    <3>2. Preparing' = Preparing
      BY <2>2 DEF Stays, Preparing
    <3> QED BY <2>1, <3>1, <3>2, OwnedFrame DEF Launches
  <2>3. CASE Ends(n)
    <3>1. \A k \in Jobs : k # JobOf(n) => stage'[k] = stage[k]
      BY <1>1, JobOfStep DEF Known
    <3>2. Preparing' \subseteq Preparing /\ \A k \in Preparing' : k # JobOf(n)
      BY <2>3, <3>1 DEF Ends, Preparing
    <3>3. \A m \in Runs : Owns(m) /\ JobOf(m) \in Preparing' => Owns(m)' /\ JobOf(m)' = JobOf(m)
      BY <1>1, <3>2, OwnersOfStep
    <3> QED BY <2>1, <3>2, <3>3, OwnedFrame DEF Launches
  <2>4. CASE GivesUp(n)
    <3>1. Preparing' = Preparing
      BY <2>4 DEF GivesUp, Preparing
    <3>2. ASSUME NEW j \in Preparing' \cap Spared PROVE Owned(j)'
      <4>1. Owned(j) /\ j # JobOf(n)
        BY <2>4, <3>1 DEF NobodyStranded, GivesUp
      <4>2. \A m \in Runs : Owns(m) /\ JobOf(m) = j => Owns(m)' /\ JobOf(m)' = j
        BY <1>1, <4>1, OwnersOfStep
      <4> QED BY <2>1, <4>1, <4>2 DEF Owned, Launches
    <3> QED BY <3>2 DEF NobodyStranded, Spared
  <2> QED BY <1>1, <2>2, <2>3, <2>4, OwnerOfStep
<1>2. CASE Kill(n)
  <2>1. /\ proc[n] \in Working \cup {"crash"} /\ UNCHANGED <<stage, req, task, wd>>
        /\ proc'[n] = "dead" /\ \A m \in Runs \ {n} : proc'[m] = proc[m]
    BY <1>2, Typed DEF Kill, StrictScope, GateScope, jobVars
  <2>2. proc[n] \in Live \ {"shim", "dead"} /\ task[n].status = "running"
    BY <2>1, Typed DEF Working, Live, InPhaseA, InPhaseB, InExit, Known, LedgerInv, RowMatches,
                       GateInv, RunShape
  <2>3. \A m \in Runs : Owns(m) => Owns(m)' /\ JobOf(m)' = JobOf(m)
    BY <2>1, <2>2 DEF Owns, JobOf
  <2>4. Preparing' = Preparing
    BY <2>1 DEF Preparing
  <2> QED BY <2>1, <2>3, <2>4, OwnedFrame DEF Launches
<1>3. CASE Age(n) \/ SweepOrphan(n)
  <2>1. /\ UNCHANGED <<stage, req, proc, wd>>
        /\ \A m \in Runs : task'[m].status = task[m].status /\ task'[m].job = task[m].job
    BY <1>3, Typed DEF Age, SweepOrphan, Task, jobVars, procVars
  <2>2. \A m \in Runs : Owns(m) => Owns(m)' /\ JobOf(m)' = JobOf(m)
    BY <2>1 DEF Owns, JobOf
  <2>3. Preparing' = Preparing
    BY <2>1 DEF Preparing
  <2> QED BY <2>1, <2>2, <2>3, OwnedFrame DEF Launches
<1> QED BY <1>1, <1>2, <1>3

\* The watchdog keeps the dead run it has failed in hand until it has reset the job.
LEMMA OwnedWatchdog ==
  ASSUME Known, NobodyStranded, WatchdogStep \/ \E j \in Jobs : ReapBriefingReadyStale(j)
  PROVE  NobodyStranded'
<1>1. CASE FindStuck
  <2>1. UNCHANGED <<stage, req, task, proc>> /\ wd'.cur = wd.cur
    BY <1>1 DEF FindStuck, jobVars, procVars
  <2>2. \A m \in Runs : Owns(m) => Owns(m)' /\ JobOf(m)' = JobOf(m)
    BY <2>1 DEF Owns, JobOf
  <2>3. Preparing' = Preparing
    BY <2>1 DEF Preparing
  <2> QED BY <2>1, <2>2, <2>3, OwnedFrame DEF Launches
<1>2. ASSUME NEW n \in Runs, ReapFail(n) PROVE NobodyStranded'
  <2>1. wd.cur = None /\ Close(n, "failed") /\ wd'.cur = n /\ UNCHANGED <<stage, req, proc>>
    BY <1>2 DEF ReapFail, jobVars, procVars
  <2>2. \A m \in Runs : KeepsRow(m) /\ (m # n => task'[m] = task[m])
    BY <2>1, TaskClosed, Typed
  <2>3. \A m \in Runs : Owns(m) => Owns(m)' /\ JobOf(m)' = JobOf(m)
    BY <2>1, <2>2, Typed DEF Owns, JobOf, KeepsRow
  <2>4. Preparing' = Preparing
    BY <2>1 DEF Preparing
  <2> QED BY <2>1, <2>3, <2>4, OwnedFrame DEF Launches
<1>3. CASE ReapReset
  <2>1. UNCHANGED <<req, task, proc>>
    BY <1>3 DEF ReapReset, procVars
  <2>2. Preparing' \subseteq Preparing /\ JobOf(wd.cur) \notin Preparing'
    BY <1>3, Typed DEF ReapReset, ResetPrepToScored, ResetPrepToBriefingReady, Transition, Preparing, jobVars
  <2>3. \A m \in Runs : Owns(m) /\ JobOf(m) \in Preparing' => Owns(m)' /\ JobOf(m)' = JobOf(m)
    BY <2>1, <2>2 DEF Owns, JobOf
  <2> QED BY <2>1, <2>2, <2>3, OwnedFrame DEF Launches
<1>4. ASSUME NEW j \in Jobs, ReapBriefingReadyStale(j) PROVE NobodyStranded'
  <2>1. stage' = [stage EXCEPT ![j] = "scored"] /\ UNCHANGED <<req, task, proc, wd>>
    BY <1>4 DEF ReapBriefingReadyStale, Transition, procVars
  <2>2. \A m \in Runs : Owns(m) => Owns(m)' /\ JobOf(m)' = JobOf(m)
    BY <2>1 DEF Owns, JobOf
  <2>3. Preparing' \subseteq Preparing
    BY <2>1, Typed DEF Preparing
  <2> QED BY <2>1, <2>2, <2>3, OwnedFrame DEF Launches
<1> QED BY <1>1, <1>2, <1>3, <1>4 DEF WatchdogStep

(* A job at prep_in_progress is always owned: a handler is about to launch  *)
(* it, a process will move it on, or a running row brings the watchdog to   *)
(* it.  No job is stranded, whoever is killed and whenever, unless another  *)
(* job's prefix may take its folder.                                        *)
THEOREM PrepStaysRecoverable ==
  ASSUME StrictScope
  PROVE  Spec => []PrepIsRecoverable
<1>1. GateScope
  BY DEF StrictScope
<1>2. Init => NobodyStranded
  BY DEF Init, NobodyStranded, Preparing
<1>3. TypeInv /\ LedgerInv /\ GateInv /\ NobodyStranded /\ [Next]_vars => NobodyStranded'
  <2> SUFFICES ASSUME Known, NobodyStranded, [Next]_vars PROVE NobodyStranded'
    BY <1>1 DEF Known
  <2>1. CASE UNCHANGED vars
    <3>1. UNCHANGED <<stage, req, task, proc, wd>>
      BY <2>1 DEF vars
    <3>2. \A m \in Runs : Owns(m) => Owns(m)' /\ JobOf(m)' = JobOf(m)
      BY <3>1 DEF Owns, JobOf
    <3>3. Preparing' = Preparing
      BY <3>1 DEF Preparing
    <3> QED BY <3>1, <3>2, <3>3, OwnedFrame DEF Launches
  <2>2. \A j \in Jobs : ~OperatorStep(j)
    BY <1>1 DEF OperatorStep, Waitlist, Reactivate, Reject, UnReject, Apply, UnApply, OperatorMoves, GateScope
  <2>3. ~Restart /\ \A r \in Handlers : ~SpawnFails(r) /\ ~HandlerError(r)
    BY DEF Restart, SpawnFails, HandlerError, StrictScope, GateScope
  <2> QED BY <2>1, <2>2, <2>3, OwnedHandlers, OwnedProcess, OwnedWatchdog DEF Next
<1>4. TypeInv /\ LedgerInv /\ GateInv /\ NobodyStranded => PrepIsRecoverable
  <2> SUFFICES ASSUME TypeInv, NobodyStranded, NEW j \in Preparing \cap Spared
               PROVE  \/ Launching(j) # {}
                      \/ \E n \in RunsOf(j) : \/ proc[n] \in Working \cup {"crash", "shim"}
                                              \/ task[n].status = "running"
                                              \/ n = wd.cur
    BY DEF PrepIsRecoverable
  <2>1. Owned(j)
    BY DEF NobodyStranded
  <2> QED BY <2>1 DEF Owned, Owns, Owning, Launches, Launching, RunsOf, JobOf
<1> QED BY <1>1, <1>2, <1>3, <1>4, GateIsInvariant, PTL DEF Spec
=============================================================================
