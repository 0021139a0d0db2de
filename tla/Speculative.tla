---------------------------- MODULE Speculative ----------------------------
(***************************************************************************)
(* One speculative request: the form and regenerate routes that launch the *)
(* research subprocess, the runner, the watchdog's reaper, the operator's  *)
(* approval, and the sweep that moves folders no job names.                *)
(*                                                                         *)
(* A launch is a background_tasks row, a process and the briefing folder   *)
(* the process writes; the cards it produced are known by its name.        *)
(***************************************************************************)
EXTENDS Naturals, FiniteSets

CONSTANTS
  Launches,   \* background_tasks rows of kind speculative_research
  Approvers,  \* concurrent approval requests
  SpFaults,   \* the sets of faults an execution may meet
  NoLaunch    \* SQL NULL

AllSpFaults == {"kill", "popen", "db_error", "restart", "slow"}

ASSUME SpeculativeAssumption ==
  /\ SpFaults \subseteq SUBSET AllSpFaults
  /\ NoLaunch \notin Launches

VARIABLES
  spec,      \* the speculative_requests row
  folder,    \* the briefing folder of each launch, under companies/
  postings,  \* the launches whose cards have jobs rows
  launch,    \* background_tasks row and process of each launch
  approval,  \* what each approval request has read
  dog,       \* the watchdog: the stuck row it listed, and how far it got
  spFaults   \* the faults of this execution, chosen once

spRow == <<spec, folder, postings>>
spVars == <<spec, folder, postings, launch, approval, dog, spFaults>>

Status == {"none", "researching", "ready_for_review", "approved", "trashed", "failed"}
HandlerPcs == {"checked", "requested", "recorded"}
RunnerPcs == {"read", "briefing", "synth", "mark", "write", "finish", "uncaught",
              "close_ok", "close_fail"}

SpeculativeTypeOK ==
  /\ spec \in [status : Status, brief : BOOLEAN, shown : Launches \cup {NoLaunch}]
  /\ folder \in [Launches -> {"absent", "present", "stale"}]
  /\ postings \subseteq Launches
  /\ launch \in [Launches -> [row : {"unused", "running", "succeeded", "failed"},
                              aged : BOOLEAN,
                              pc : {"off", "done"} \cup HandlerPcs \cup RunnerPcs]]
  /\ approval \in [Approvers -> Launches \cup {NoLaunch}]
  /\ dog \in [at : {"idle", "listed", "closed"}, row : Launches \cup {NoLaunch}]
  /\ spFaults \in SpFaults

SpeculativeInit ==
  /\ spec = [status |-> "none", brief |-> FALSE, shown |-> NoLaunch]
  /\ folder = [n \in Launches |-> "absent"]
  /\ postings = {}
  /\ launch = [n \in Launches |-> [row |-> "unused", aged |-> FALSE, pc |-> "off"]]
  /\ approval = [a \in Approvers |-> NoLaunch]
  /\ dog = [at |-> "idle", row |-> NoLaunch]
  /\ spFaults \in SpFaults

At(n, pc) == launch[n].pc = pc
Go(n, pc) == launch' = [launch EXCEPT ![n].pc = pc]
Stays == UNCHANGED <<approval, dog, spFaults>>

-----------------------------------------------------------------------------
(* The launching routes.  The request's status, the ledger row and the     *)
(* process are three separate commits.                                     *)

\* post_speculative, up to the INSERT
PostSpeculative(n) ==
  /\ spec.status = "none" /\ At(n, "off")
  /\ spec' = [spec EXCEPT !.status = "researching"]
  /\ Go(n, "requested")
  /\ UNCHANGED <<folder, postings>> /\ Stays

\* post_regenerate: 409 while research is in flight
RegenerateCheck(n) ==
  /\ At(n, "off") /\ spec.status \notin {"none", "researching"}
  /\ Go(n, "checked")
  /\ UNCHANGED spRow /\ Stays

\* its UPDATE names the row by id alone; the paid briefing is kept
RegenerateUpdate(n) ==
  /\ At(n, "checked")
  /\ spec' = [spec EXCEPT !.status = "researching", !.shown = NoLaunch]
  /\ Go(n, "requested")
  /\ UNCHANGED <<folder, postings>> /\ Stays

RecordLaunch(n) ==
  /\ At(n, "requested")
  /\ launch' = [launch EXCEPT ![n].pc = "recorded", ![n].row = "running"]
  /\ UNCHANGED spRow /\ Stays

SpawnResearch(n) ==
  /\ At(n, "recorded")
  /\ Go(n, "read")
  /\ UNCHANGED spRow /\ Stays

\* the row is closed, the request is left as it is
PopenResearchFails(n) ==
  /\ "popen" \in spFaults /\ At(n, "recorded")
  /\ launch' = [launch EXCEPT ![n] = [@ EXCEPT !.pc = "done", !.row = "failed"]]
  /\ UNCHANGED spRow /\ Stays

-----------------------------------------------------------------------------
(* run_research, in the subprocess.                                        *)

\* a briefing paid for by an earlier run is used again
ReadRequest(n) ==
  /\ At(n, "read")
  /\ Go(n, IF spec.brief THEN "synth" ELSE "briefing")
  /\ UNCHANGED spRow /\ Stays

\* _invoke_role and the commit of its text, or its failure
WriteBriefing(n) ==
  /\ At(n, "briefing")
  /\ \/ spec' = [spec EXCEPT !.brief = TRUE] /\ Go(n, "synth")
     \/ spec' = spec /\ Go(n, "mark")
  /\ UNCHANGED <<folder, postings>> /\ Stays

\* mutant: the row is offered before the folder is written
SynthesiseAndOffer(n) ==
  /\ At(n, "synth")
  /\ Go(n, "finish")
  /\ UNCHANGED spRow /\ Stays

\* cards that do not parse fail the run here
Synthesise(n) ==
  /\ At(n, "synth")
  /\ \/ Go(n, "write")
     \/ Go(n, "mark")
  /\ UNCHANGED spRow /\ Stays

WriteFolder(n) ==
  /\ At(n, "write")
  /\ \/ folder' = [folder EXCEPT ![n] = "present"] /\ Go(n, "finish")
     \/ folder' = folder /\ Go(n, "uncaught")
  /\ UNCHANGED <<spec, postings>> /\ Stays

\* the final UPDATE carries no status guard
FinishResearch(n) ==
  /\ At(n, "finish")
  /\ spec' = [spec EXCEPT !.status = "ready_for_review", !.shown = n]
  /\ Go(n, "close_ok")
  /\ UNCHANGED <<folder, postings>> /\ Stays

\* _mark_failed: a failure run_research foresaw ends the process cleanly
MarkFailed(n) ==
  /\ At(n, "mark")
  /\ spec' = [spec EXCEPT !.status = "failed"]
  /\ Go(n, "close_ok")
  /\ UNCHANGED <<folder, postings>> /\ Stays

\* the script's own handler, whose UPDATE may be lost
Uncaught(n) ==
  /\ At(n, "uncaught")
  /\ \/ spec' = [spec EXCEPT !.status = "failed"]
     \/ "db_error" \in spFaults /\ spec' = spec
  /\ Go(n, "close_fail")
  /\ UNCHANGED <<folder, postings>> /\ Stays

\* writeback_subprocess: a row the watchdog closed stays as it is
CloseResearch(n) ==
  /\ At(n, "close_ok") \/ At(n, "close_fail")
  /\ launch' = [launch EXCEPT
       ![n].row = IF @ # "running" THEN @
                  ELSE IF At(n, "close_ok") THEN "succeeded" ELSE "failed",
       ![n].pc = "done"]
  /\ UNCHANGED spRow /\ Stays

-----------------------------------------------------------------------------
(* The operator's other routes.                                            *)

TrashRequest ==
  /\ spec.status # "none"
  /\ spec' = [spec EXCEPT !.status = "trashed"]
  /\ UNCHANGED <<folder, postings, launch>> /\ Stays

\* approve_request reads status and cards at once
ApproveRead(a) ==
  /\ approval[a] = NoLaunch /\ spec.status = "ready_for_review"
  /\ approval' = [approval EXCEPT ![a] = spec.shown]
  /\ UNCHANGED <<spec, folder, postings, launch, dog, spFaults>>

\* the rows of the kept cards and the status in one commit; a card whose
\* fingerprint is taken is skipped
ApproveWrite(a) ==
  /\ approval[a] # NoLaunch
  /\ \/ /\ spec' = [spec EXCEPT !.status = "approved"]
        /\ postings' = postings \cup {approval[a]}
     \/ /\ spec' = [spec EXCEPT !.status = "trashed"]  \* nothing kept
        /\ UNCHANGED postings
     \/ UNCHANGED <<spec, postings>>                   \* an index out of range
  /\ approval' = [approval EXCEPT ![a] = NoLaunch]
  /\ UNCHANGED <<folder, launch, dog, spFaults>>

-----------------------------------------------------------------------------
(* The watchdog.                                                           *)

\* a row passes KIND_TIMEOUT_MINUTES: of a dead run, or of a slow one
AgeResearch(n) ==
  /\ launch[n].row = "running" /\ ~launch[n].aged
  /\ At(n, "done") \/ "slow" \in spFaults
  /\ launch' = [launch EXCEPT ![n].aged = TRUE]
  /\ UNCHANGED spRow /\ Stays

\* find_stuck
ListStuck(n) ==
  /\ dog.at = "idle" /\ launch[n].row = "running" /\ launch[n].aged
  /\ dog' = [at |-> "listed", row |-> n]
  /\ UNCHANGED <<spRow, launch, approval, spFaults>>

\* record_failed: the row may have been closed since it was listed
CloseStuck ==
  /\ dog.at = "listed"
  /\ launch' = [launch EXCEPT ![dog.row].row = IF @ = "running" THEN "failed" ELSE @]
  /\ dog' = [dog EXCEPT !.at = "closed"]
  /\ UNCHANGED <<spRow, approval, spFaults>>

\* mutant: the reaper closes the row and forgets the request
ReapRowOnly ==
  /\ dog.at = "closed"
  /\ dog' = [at |-> "idle", row |-> NoLaunch]
  /\ UNCHANGED <<spRow, launch, approval, spFaults>>

\* the request is failed if it is researching, on whoever's account
FailReaped ==
  /\ dog.at = "closed"
  /\ spec' = [spec EXCEPT !.status = IF @ = "researching" THEN "failed" ELSE @]
  /\ dog' = [at |-> "idle", row |-> NoLaunch]
  /\ UNCHANGED <<folder, postings, launch, approval, spFaults>>

\* sweep_orphan_folders: no jobs.prep_folder_path names a briefing folder
SweepBriefing(n) ==
  /\ folder[n] = "present" /\ At(n, "done")
  /\ folder' = [folder EXCEPT ![n] = "stale"]
  /\ UNCHANGED <<spec, postings, launch>> /\ Stays

-----------------------------------------------------------------------------
(* Crashes.                                                                *)

KillResearch(n) ==
  /\ "kill" \in spFaults /\ launch[n].pc \in RunnerPcs
  /\ Go(n, "done")
  /\ UNCHANGED spRow /\ Stays

\* the container stops: handlers, runners and the watchdog with it
RestartStack ==
  /\ "restart" \in spFaults
  /\ launch' = [n \in Launches |->
       IF At(n, "off") THEN launch[n] ELSE [launch[n] EXCEPT !.pc = "done"]]
  /\ approval' = [a \in Approvers |-> NoLaunch]
  /\ dog' = [at |-> "idle", row |-> NoLaunch]
  /\ UNCHANGED <<spRow, spFaults>>

-----------------------------------------------------------------------------
Handle(n) == RegenerateUpdate(n) \/ RecordLaunch(n) \/ SpawnResearch(n)
Research(n) == ReadRequest(n) \/ WriteBriefing(n) \/ Synthesise(n) \/ WriteFolder(n)
               \/ FinishResearch(n) \/ MarkFailed(n) \/ Uncaught(n) \/ CloseResearch(n)
Watch(n) == AgeResearch(n) \/ ListStuck(n)
Watchdog == CloseStuck \/ FailReaped

SpeculativeNext ==
  \/ \E n \in Launches : PostSpeculative(n) \/ RegenerateCheck(n) \/ Handle(n)
                         \/ PopenResearchFails(n) \/ Research(n) \/ Watch(n)
                         \/ SweepBriefing(n) \/ KillResearch(n)
  \/ \E a \in Approvers : ApproveRead(a) \/ ApproveWrite(a)
  \/ TrashRequest \/ Watchdog \/ RestartStack

\* a request handler runs to its end, a process is scheduled and its model
\* calls time out, cron starts the watchdog again and again
SpeculativeFairness ==
  /\ \A n \in Launches : /\ WF_spVars(Handle(n))
                         /\ WF_spVars(Research(n))
                         /\ SF_spVars(Watch(n))
  /\ WF_spVars(Watchdog)

SpeculativeSpec == SpeculativeInit /\ [][SpeculativeNext]_spVars /\ SpeculativeFairness

-----------------------------------------------------------------------------
(* Properties.                                                             *)

\* A request offered for review has cards, and the folder written for them
\* was on disk before the row named it.
ReadyHasBriefing ==
  spec.status = "ready_for_review" =>
    spec.shown # NoLaunch /\ folder[spec.shown] # "absent"

\* While a request says "researching", somebody is going to settle it: the
\* handler that launches, a run whose ledger row the watchdog can see, or the
\* watchdog itself between its two writes.  Container restarts, a Popen that
\* fails and lost writes are left out: each leaves the request behind.
ResearchIsWatched ==
  spec.status = "researching" /\ spFaults \subseteq {"kill", "slow"} =>
    \/ \E n \in Launches : launch[n].pc \in HandlerPcs \/ launch[n].row = "running"
    \/ dog.at = "closed"

\* Research ends, whoever is killed on the way.
ResearchEnds ==
  (spFaults \subseteq {"kill", "slow"}) =>
    (spec.status = "researching" ~> spec.status # "researching")

\* materials.py:315 says of a synthetic row "the speculative briefing folder
\* exists on disk from approve-time".
ApprovedBriefingOnDisk == \A n \in postings : folder[n] = "present"
=============================================================================
