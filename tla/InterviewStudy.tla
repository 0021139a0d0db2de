--------------------------- MODULE InterviewStudy ---------------------------
(***************************************************************************)
(* The study material of one job: the interview-prep subprocess (prep,     *)
(* study guide, flashcards, podcast), the on-demand routes that make one   *)
(* artifact inside the request, their background_tasks rows, the watchdog, *)
(* and the operator, who may reject the job and so move its folder while   *)
(* a generator still holds the old path.                                   *)
(***************************************************************************)
EXTENDS Naturals, FiniteSets

CONSTANTS
  Tasks,     \* background_tasks rows, and the generator each belongs to
  Podcasts,  \* the keys of FORMAT_INSTRUCTIONS
  DeepDive,  \* the format made without being asked
  StFaults,  \* what may go wrong
  NoTaskRef  \* no source

Study == {"study_guide", "flashcards"}
OnDemand == Study \cup {"podcast"}
Kinds == OnDemand \cup {"interview_prep"}
AllStFaults == {"kill", "popen", "slow", "restart", "lost_write"}

ASSUME StudyAssumption ==
  /\ DeepDive \in Podcasts
  /\ Podcasts \cap ({"interview_prep"} \cup Study) = {}
  /\ StFaults \subseteq AllStFaults
  /\ NoTaskRef \notin Tasks

Artifact == {"interview_prep"} \cup Study \cup Podcasts
File == [what : Artifact, by : Tasks, from : Tasks]

VARIABLES
  job,       \* the jobs row: stage, prep_folder_path, the stage before a rejection
  files,     \* what the generators wrote into the folder; it moves with it
  row,       \* background_tasks
  gen,       \* the generators: subprocess or request handler
  written    \* the tasks whose last write succeeded

stVars == <<job, files, row, gen, written>>

Stages == {"applied", "interview", "rejected"}
Places == {"_applied", "_rejected"}
GenPcs == {"checked", "recorded", "look", "prep", "study_guide", "flashcards", "podcast",
           "close_ok", "close_fail"}

StudyTypeOK ==
  /\ job \in [stage : Stages, was : Stages, path : Places]
  /\ files \subseteq File
  /\ row \in [Tasks -> [status : {"unused", "running", "succeeded", "failed"},
                        kind : Kinds, aged : BOOLEAN]]
  /\ gen \in [Tasks -> [pc : {"off", "done"} \cup GenPcs, path : Places,
                        from : Tasks \cup {NoTaskRef}, format : Podcasts]]
  /\ written \subseteq Tasks

Fresh(pc) == [pc |-> pc, path |-> "_applied", from |-> NoTaskRef, format |-> DeepDive]

StudyInit ==
  /\ job = [stage |-> "applied", was |-> "applied", path |-> "_applied"]
  /\ files = {}
  /\ row = [t \in Tasks |-> [status |-> "unused", kind |-> "interview_prep", aged |-> FALSE]]
  /\ gen = [t \in Tasks |-> Fresh("off")]
  /\ written = {}

Kind(t) == row[t].kind
InHandler(t) == Kind(t) \in OnDemand
Active(kind) == \E t \in Tasks : row[t].status = "running" /\ Kind(t) = kind
Goto(t, pc) == gen' = [gen EXCEPT ![t].pc = pc]
Over(t) == gen' = [gen EXCEPT ![t] = Fresh("done")]

-----------------------------------------------------------------------------
(* Launching.  The active-row test, the ledger row and the process are     *)
(* separate steps.                                                         *)

Begin(t, kind, from, format) ==
  /\ gen[t].pc = "off"
  /\ row' = [row EXCEPT ![t].kind = kind]
  /\ gen' = [gen EXCEPT ![t] = [pc |-> "checked", path |-> job.path, from |-> from,
                                format |-> format]]
  /\ UNCHANGED <<files, written>>

\* POST /board/jobs/{fp}/interview, from any stage: a re-click launches again
InterviewClick(t) ==
  /\ job' = [job EXCEPT !.stage = "interview"]
  /\ Begin(t, "interview_prep", NoTaskRef, DeepDive)

\* rerun_interview_prep_from_materials
Rerun(t) ==
  /\ job.stage = "interview" /\ ~Active("interview_prep")
  /\ Begin(t, "interview_prep", NoTaskRef, DeepDive)
  /\ UNCHANGED job

\* _read_latest("Interview Prep"): the newest may be anybody's
Preps == {f.by : f \in {g \in files : g.what = "interview_prep"}}

\* _launch_study_artifact
StudyRequest(t, kind) ==
  /\ job.stage = "interview" /\ ~Active(kind)
  /\ \E p \in Preps : Begin(t, kind, p, DeepDive)
  /\ UNCHANGED job

\* generate_podcast_from_materials: valid at any stage
PodcastRequest(t, format) ==
  /\ ~Active("podcast")
  /\ \E p \in Preps : Begin(t, "podcast", p, format)
  /\ UNCHANGED job

RecordTask(t) ==
  /\ gen[t].pc = "checked"
  /\ row' = [row EXCEPT ![t].status = "running"]
  /\ Goto(t, IF InHandler(t) THEN Kind(t) ELSE "recorded")
  /\ UNCHANGED <<job, files, written>>

SpawnPrep(t) ==
  /\ gen[t].pc = "recorded"
  /\ Goto(t, "look")
  /\ UNCHANGED <<job, files, row, written>>

PopenPrepFails(t) ==
  /\ "popen" \in StFaults /\ gen[t].pc = "recorded"
  /\ row' = [row EXCEPT ![t].status = "failed"]
  /\ Over(t)
  /\ UNCHANGED <<job, files, written>>

-----------------------------------------------------------------------------
(* Generating.  A folder that has moved away makes open() raise; a model   *)
(* call may fail, come back short or be refused by the spend ceiling, and  *)
(* a podcast needs GEMINI_API_KEY: all of these leave the artifact out.    *)

InPlace(t) == gen[t].path = job.path

Put(t, what, from) ==
  files' = { f \in files : f.what # what \/ what \notin Podcasts }
           \cup {[what |-> what, by |-> t, from |-> from]}

\* _run_interview_prep: the folder's path is read once
Look(t) ==
  /\ gen[t].pc = "look"
  /\ \/ gen' = [gen EXCEPT ![t].pc = "prep", ![t].path = job.path]
     \/ Goto(t, "close_ok")     \* no briefing or no profile: a clean return
  /\ UNCHANGED <<job, files, row, written>>

\* _generate up to the .md
WritePrep(t) ==
  /\ gen[t].pc = "prep"
  /\ \/ /\ InPlace(t)
        /\ Put(t, "interview_prep", t)
        /\ gen' = [gen EXCEPT ![t].pc = "study_guide", ![t].from = t]
     \/ files' = files /\ Goto(t, "close_ok")     \* short output: a clean return
     \/ files' = files /\ Goto(t, "close_fail")   \* ceiling, or open() raised
  /\ UNCHANGED <<job, row, written>>

\* mutant: the handlers swallow a failure as the subprocess does
AlwaysGoOn(t, next, ok) == Goto(t, IF ~InHandler(t) THEN next ELSE "close_ok")

\* after an artifact: a handler ends with the artifact's outcome, the
\* subprocess swallows a failure and goes on
After(t, next, ok) ==
  Goto(t, IF ~InHandler(t) THEN next ELSE IF ok THEN "close_ok" ELSE "close_fail")

Made(t) == written' = written \cup {t}
NotMade(t) == written' = written \ {t}

\* generate_study_guide_for_job
StudyGuide(t) ==
  /\ gen[t].pc = "study_guide"
  /\ \/ InPlace(t) /\ Put(t, "study_guide", gen[t].from) /\ Made(t)
        /\ After(t, "flashcards", TRUE)
     \/ files' = files /\ NotMade(t) /\ After(t, "flashcards", FALSE)
  /\ UNCHANGED <<job, row>>

\* generate_flashcards_for_job; the deck stands for its .apkg, .csv and .json
Flashcards(t) ==
  /\ gen[t].pc = "flashcards"
  /\ \/ InPlace(t) /\ Put(t, "flashcards", gen[t].from) /\ Made(t)
        /\ After(t, "podcast", TRUE)
     \/ files' = files /\ NotMade(t) /\ After(t, "podcast", FALSE)
  /\ UNCHANGED <<job, row>>

\* generate_podcast_for_job: one file name per format, overwritten in place
Podcast(t) ==
  /\ gen[t].pc = "podcast"
  /\ \/ InPlace(t) /\ Put(t, gen[t].format, gen[t].from) /\ Made(t)
        /\ After(t, "close_ok", TRUE)
     \/ files' = files /\ NotMade(t) /\ After(t, "close_ok", FALSE)
  /\ UNCHANGED <<job, row>>

\* record_succeeded, record_failed: the first to settle a row wins
Settle(t, status) ==
  row' = IF row[t].status = "running"
         THEN [row EXCEPT ![t].status = status, ![t].aged = FALSE] ELSE row

\* writeback_subprocess and writeback_sync; the former may lose its write
CloseTask(t) ==
  /\ gen[t].pc \in {"close_ok", "close_fail"}
  /\ \/ Settle(t, IF gen[t].pc = "close_ok" THEN "succeeded" ELSE "failed")
     \/ "lost_write" \in StFaults /\ ~InHandler(t) /\ row' = row
  /\ Over(t)
  /\ UNCHANGED <<job, files, written>>

-----------------------------------------------------------------------------
(* The operator, the watchdog and crashes.                                 *)

\* mutant: the stage's name is taken for the folder's
RejectByName ==
  /\ job.stage # "rejected"
  /\ job' = [stage |-> "rejected", was |-> job.stage, path |-> "rejected"]
  /\ UNCHANGED <<files, row, gen, written>>

\* the folder moves to _rejected/, and back
Reject ==
  /\ job.stage # "rejected"
  /\ job' = [stage |-> "rejected", was |-> job.stage, path |-> "_rejected"]
  /\ UNCHANGED <<files, row, gen, written>>

UnReject ==
  /\ job.stage = "rejected"
  /\ job' = [stage |-> job.was, was |-> "applied", path |-> "_applied"]
  /\ UNCHANGED <<files, row, gen, written>>

AgeTask(t) ==
  /\ row[t].status = "running" /\ ~row[t].aged
  /\ gen[t].pc = "done" \/ "slow" \in StFaults
  /\ row' = [row EXCEPT ![t].aged = TRUE]
  /\ UNCHANGED <<job, files, gen, written>>

\* mutant: no reaper for the last kind added
FirstKinds == {"interview_prep", "podcast", "study_guide"}

\* the kinds each run of the watchdog looks for; it closes the row, no more
WatchedKinds == {"interview_prep", "podcast", "study_guide", "flashcards"}

ReapTask(t) ==
  /\ row[t].status = "running" /\ row[t].aged /\ Kind(t) \in WatchedKinds
  /\ Settle(t, "failed")
  /\ UNCHANGED <<job, files, gen, written>>

KillPrep(t) ==
  /\ "kill" \in StFaults /\ ~InHandler(t)
  /\ gen[t].pc \notin {"off", "checked", "recorded", "done"}
  /\ Over(t)
  /\ UNCHANGED <<job, files, row, written>>

RestartWeb ==
  /\ "restart" \in StFaults
  /\ gen' = [t \in Tasks |-> IF gen[t].pc = "off" THEN gen[t]
                             ELSE Fresh("done")]
  /\ UNCHANGED <<job, files, row, written>>

-----------------------------------------------------------------------------
Generate(t) == RecordTask(t) \/ SpawnPrep(t) \/ Look(t) \/ WritePrep(t) \/ StudyGuide(t)
               \/ Flashcards(t) \/ Podcast(t) \/ CloseTask(t)
Tend(t) == AgeTask(t) \/ ReapTask(t)

StudyNext ==
  \/ \E t \in Tasks :
       \/ InterviewClick(t) \/ Rerun(t) \/ Generate(t) \/ PopenPrepFails(t)
       \/ Tend(t) \/ KillPrep(t)
       \/ \E kind \in Study : StudyRequest(t, kind)
       \/ \E format \in Podcasts : PodcastRequest(t, format)
  \/ Reject \/ UnReject \/ RestartWeb

\* generators are scheduled and their calls time out; cron runs the watchdog
StudyFairness ==
  \A t \in Tasks : WF_stVars(Generate(t)) /\ WF_stVars(Tend(t))

StudySpec == StudyInit /\ [][StudyNext]_stVars /\ StudyFairness

-----------------------------------------------------------------------------
(* Properties.                                                             *)

\* Whatever was derived names an interview prep that is in the folder: a
\* generator derives from what it, or an earlier run, has written there.
DerivedBesideSource ==
  \A f \in files : [what |-> "interview_prep", by |-> f.from, from |-> f.from] \in files

\* The row of an on-demand request says "succeeded" only if the artifact the
\* operator asked for was written, the folder being where the request looked.
SucceededMeansWritten ==
  \A t \in Tasks : row[t].status = "succeeded" /\ InHandler(t) => t \in written

\* The per-job guard is never armed for good: every running row is closed,
\* whatever is killed, lost, slow or restarted.
GuardIsReleased ==
  \A t \in Tasks : row[t].status = "running" ~> row[t].status # "running"

\* orchestrator.py:117 says "Re-clicks are no-ops in the action layer if a
\* `running` row already exists for this (job_id, kind='interview_prep')".
ReclickIsNoOp ==
  [][\A t \in Tasks : Kind(t) = "interview_prep" /\ gen[t].pc = "off" /\ gen'[t].pc # "off"
        => ~Active("interview_prep")]_stVars
=============================================================================
