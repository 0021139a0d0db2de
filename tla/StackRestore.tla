------------------------------ MODULE StackRestore ------------------------------
(***************************************************************************)
(* Restoring a stack from a backup: web/routes/onboarding_restore.py and   *)
(* web/restore.py. The tarball is unpacked into a staging directory; then, *)
(* one state directory after the other, the children of the live one are   *)
(* moved into a rollback directory and the staged ones moved in; the       *)
(* database is migrated; both directories are removed. They lie inside     *)
(* data/, which is itself one of the state directories.                    *)
(*                                                                         *)
(* A child is <<generation, name>>: generation 0 is the stack's own state, *)
(* generation 1 what the tarball holds.                                    *)
(***************************************************************************)
EXTENDS Integers, FiniteSets, SequencesExt

CONSTANTS
    StateDirs,      \* _STATE_DIRS, in order
    DataDir,        \* data/: where staging and rollback live
    Names,          \* names of children in a state directory
    RestoreFaults   \* the fault sets a run may pick

AllRestoreFaults == {"kill", "extract_error", "move_error", "migrate_error"}

ASSUME RestoreAssumption ==
    /\ IsInjective(StateDirs) /\ DataDir \in ToSet(StateDirs)
    /\ RestoreFaults \subseteq SUBSET AllRestoreFaults

VARIABLES
    live,           \* children of each state directory
    rollback,       \* children of each directory under the rollback directory
    rollbackDir,    \* the rollback directory exists
    hasCopy,        \* the directories that have one under it
    staging,        \* children of each directory under the staging directory
    onboarded,      \* the sentinel's state as the guard has it cached
    restore,        \* the request: its step and the directories to go
    outcome,        \* what the request has answered
    restoreFaults   \* the faults of this run

restoreVars == <<live, rollback, rollbackDir, hasCopy, staging, onboarded, restore, outcome,
                 restoreFaults>>

Dirs == ToSet(StateDirs)
Own == {0} \X Names
Backed == {1} \X Names
NoChildren == [d \in Dirs |-> {}]
NoCopies == [d \in Dirs |-> FALSE]

RestoreTypeOK ==
    /\ {live, rollback, staging} \subseteq [Dirs -> SUBSET (Own \cup Backed)]
    /\ rollbackDir \in BOOLEAN /\ hasCopy \in [Dirs -> BOOLEAN] /\ onboarded \in BOOLEAN
    /\ restore.step \in {"none", "extract", "keep", "out", "in", "migrate", "clean", "undo"}
    /\ restore.todo \subseteq Dirs
    /\ outcome \in {"none", "refused", "invalid", "failed", "ok", "killed"}
    /\ restoreFaults \in RestoreFaults

\* A configured stack whose backup is restored, or a fresh one.
RestoreInit ==
    /\ live \in {NoChildren, [d \in Dirs |-> Own]}
    /\ rollback = NoChildren /\ rollbackDir = FALSE /\ hasCopy = NoCopies /\ staging = NoChildren
    /\ onboarded = FALSE
    /\ restore = [step |-> "none", todo |-> {}]
    /\ outcome = "none" /\ restoreFaults \in RestoreFaults

RIn(step) == restore.step = step
RGo(step) == restore' = [restore EXCEPT !.step = step]
Trees == <<live, rollback, rollbackDir, hasCopy, staging>>
Answer(o) == outcome' = o /\ restore' = [step |-> "none", todo |-> {}]

\* the first of the directories to go
Current == StateDirs[Min({i \in DOMAIN StateDirs : StateDirs[i] \in restore.todo})]

-----------------------------------------------------------------------------
\* post_restore: a configured stack asks for the confirmation first; a file
\* that is no backup is refused before anything is written.
Configured == live[DataDir] # {}

Upload(confirmed, valid) ==
    /\ RIn("none") /\ outcome \in {"none", "refused", "invalid"}
    /\ IF Configured /\ ~confirmed THEN Answer("refused")
       ELSE IF ~valid THEN Answer("invalid")
       ELSE RGo("extract") /\ outcome' = "none"
    /\ UNCHANGED <<Trees, onboarded, restoreFaults>>

\* Regular files and directories under state/ are unpacked; a tarball holds
\* data/ and some of the others.
Extract ==
    /\ RIn("extract")
    /\ \E held \in {D \in SUBSET Dirs : DataDir \in D} :
          staging' = [d \in Dirs |-> IF d \in held THEN Backed ELSE {}]
    /\ rollbackDir' = TRUE
    /\ restore' = [step |-> "keep",
                   todo |-> {d \in Dirs : staging'[d] # {}}]
    /\ UNCHANGED <<live, rollback, hasCopy, onboarded, outcome, restoreFaults>>

\* A link or an unsafe path, a full disk: there is no rollback directory yet.
ExtractFails ==
    /\ RIn("extract") /\ "extract_error" \in restoreFaults
    /\ Answer("failed")
    /\ UNCHANGED <<Trees, onboarded, restoreFaults>>

\* A live directory gets one under the rollback directory; one that is missing
\* is made, and data/ is never missing.
Missing(d) == live[d] = {} /\ d # DataDir

KeepDir ==
    /\ RIn("keep")
    /\ \/ hasCopy' = [hasCopy EXCEPT ![Current] = TRUE]
       \/ Missing(Current) /\ hasCopy' = hasCopy
    /\ RGo("out")
    /\ UNCHANGED <<live, rollback, rollbackDir, staging, onboarded, outcome, restoreFaults>>

MoveOut ==
    /\ RIn("out") /\ restore.todo # {} /\ live[Current] # {}
    /\ \E c \in live[Current] :
          /\ live' = [live EXCEPT ![Current] = @ \ {c}]
          /\ rollback' = [rollback EXCEPT ![Current] = @ \cup {c}]
    /\ UNCHANGED <<rollbackDir, hasCopy, staging, onboarded, restore, outcome, restoreFaults>>

AllOut ==
    /\ RIn("out") /\ restore.todo # {} /\ live[Current] = {}
    /\ RGo("in")
    /\ UNCHANGED <<Trees, onboarded, outcome, restoreFaults>>

MoveIn ==
    /\ RIn("in") /\ staging[Current] # {}
    /\ \E c \in staging[Current] :
          /\ staging' = [staging EXCEPT ![Current] = @ \ {c}]
          /\ live' = [live EXCEPT ![Current] = @ \cup {c}]
    /\ UNCHANGED <<rollback, rollbackDir, hasCopy, onboarded, restore, outcome, restoreFaults>>

AllIn ==
    /\ RIn("in") /\ staging[Current] = {}
    /\ restore' = [step |-> IF restore.todo = {Current} THEN "migrate" ELSE "keep",
                   todo |-> restore.todo \ {Current}]
    /\ UNCHANGED <<Trees, onboarded, outcome, restoreFaults>>

\* _run_schema_migration (Migrations); a failure leaves both directories and
\* the swapped state where they are.
MigrateOk ==
    /\ RIn("migrate") /\ RGo("clean")
    /\ UNCHANGED <<Trees, onboarded, outcome, restoreFaults>>

\* mutant: the rollback directory goes whatever the migration says
CleanUpAnyway ==
    /\ RIn("migrate") /\ "migrate_error" \in restoreFaults
    /\ rollback' = NoChildren /\ rollbackDir' = FALSE /\ hasCopy' = NoCopies
    /\ Answer("failed")
    /\ UNCHANGED <<live, staging, onboarded, restoreFaults>>

MigrateFails ==
    /\ RIn("migrate") /\ "migrate_error" \in restoreFaults
    /\ Answer("failed")
    /\ UNCHANGED <<Trees, onboarded, restoreFaults>>

CleanUp ==
    /\ RIn("clean")
    /\ staging' = NoChildren /\ rollback' = NoChildren /\ rollbackDir' = FALSE /\ hasCopy' = NoCopies
    /\ onboarded' = TRUE
    /\ Answer("ok")
    /\ UNCHANGED <<live, restoreFaults>>

\* A mkdir or a move raises, on a full disk or across two mounts: _attempt_rollback.
MoveFails ==
    /\ RIn("keep") \/ RIn("out") \/ RIn("in")
    /\ "move_error" \in restoreFaults
    /\ restore' = [step |-> "undo", todo |-> Dirs]
    /\ UNCHANGED <<Trees, onboarded, outcome, restoreFaults>>

\* A directory that has one in the rollback directory, be it empty, loses its
\* children, then gets back what is kept. For data/ the children are the rollback
\* and the staging directories too, and listing what was kept raises.
UndoDir ==
    /\ RIn("undo") /\ restore.todo # {}
    /\ IF ~hasCopy[Current]
       THEN restore' = [restore EXCEPT !.todo = @ \ {Current}] /\ UNCHANGED <<Trees, outcome>>
       ELSE IF Current = DataDir
       THEN /\ live' = [live EXCEPT ![DataDir] = {}]
            /\ rollback' = NoChildren /\ staging' = NoChildren
            /\ rollbackDir' = FALSE /\ hasCopy' = NoCopies
            /\ Answer("failed")
       ELSE /\ live' = [live EXCEPT ![Current] = rollback[Current]]
            /\ rollback' = [rollback EXCEPT ![Current] = {}]
            /\ restore' = [restore EXCEPT !.todo = @ \ {Current}]
            /\ UNCHANGED <<rollbackDir, hasCopy, staging, outcome>>
    /\ UNCHANGED <<onboarded, restoreFaults>>

Undone ==
    /\ RIn("undo") /\ restore.todo = {}
    /\ staging' = NoChildren
    /\ Answer("failed")
    /\ UNCHANGED <<live, rollback, rollbackDir, hasCopy, onboarded, restoreFaults>>

RestoreKilled ==
    /\ "kill" \in restoreFaults /\ ~RIn("none")
    /\ Answer("killed") /\ onboarded' = FALSE
    /\ UNCHANGED <<Trees, restoreFaults>>

RestoreNext ==
    \/ \E confirmed, valid \in BOOLEAN : Upload(confirmed, valid)
    \/ Extract \/ ExtractFails \/ KeepDir \/ MoveOut \/ AllOut \/ MoveIn \/ AllIn
    \/ MigrateOk \/ MigrateFails \/ CleanUp
    \/ MoveFails \/ UndoDir \/ Undone \/ RestoreKilled

RestoreSpec == RestoreInit /\ [][RestoreNext]_restoreVars

-----------------------------------------------------------------------------
(* restore.py:11: until the restore has succeeded, every file the stack had
   is in place or in the rollback directory. *)
RollbackAllowsRecovery ==
    [][outcome' # "ok" => \A d \in Dirs : (live[d] \cup rollback[d]) \cap Own
                             \subseteq live'[d] \cup rollback'[d]]_restoreVars

(* The same, as long as no move fails: a crash between two moves and a failed
   migration cost no file of the stack (restore.py:137-168). *)
CrashKeepsFiles ==
    [][outcome' # "ok" /\ "move_error" \notin restoreFaults =>
          \A d \in Dirs : (live[d] \cup rollback[d]) \cap Own
                             \subseteq live'[d] \cup rollback'[d]]_restoreVars

(* A restore that succeeds leaves one generation in each directory: what the
   tarball holds, or what it does not touch (restore.py:137-156). *)
OneGeneration ==
    outcome = "ok" => \A d \in Dirs : live[d] \in {{}, Own, Backed}
=============================================================================
