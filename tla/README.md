# findajob: TLA+ models, checks and proofs

findajob is a single-operator job-search assistant. One container runs two kinds
of processes over one SQLite database (`pipeline.db`), which is the only source of
truth: a FastAPI application (uvicorn; its synchronous handlers run in a thread
pool, so requests overlap) and a cron (supercronic) that starts `triage`,
`watchdog`, `detect_rejections` and other scripts. Long work (preparing the
materials of a job, an interview briefing, a podcast, speculative research) runs in
subprocesses the web application launches and forgets; their only trace is a row of
`background_tasks`. Materials live in folders under `companies/`, pointed at by
`jobs.prep_folder_path`.

The hard part of the program is therefore not any single function but what happens
between the commits: a request that read a row before another request, subprocess
or watchdog changed it; a process that dies between two commits; a folder moved
after (or before) the row that names it; and audit rows that later undos read as
if they were a stack.

Paths below are relative to `src/findajob/` unless they begin with `scripts/`,
`docs/` or `tests/`.

## 1. Inventory

| component (code) | state it keeps | operations | interacts with | hard behaviour | what makes it correct |
|---|---|---|---|---|---|
| prep gate (`web/routes/board_actions.py`: `_claim_prep_slot`, `_launch_prep_subprocess`, `prep`, `regenerate`, `continue_prep`, `reactivate_and_prep`) | `jobs.stage`, `background_tasks` | claim, clear folder, record, spawn | orchestrator (spawn), watchdog (rows) | racing claims, failure between commits | the cap holds, one run per job, no slot lost |
| prep orchestrator (`prep/orchestrator.py`, `prep/quarantine.py`, `scripts/prep_application.py`) | stage, folder pointer, folders | Phase A, Phase B, failure handlers, quarantine, shim | gate, ledger, operator routes | SIGKILL, swallowed errors, stage written whatever it has become | a run ends by giving the slot back; folders on offer exist |
| task ledger (`background_tasks.py`) | `background_tasks` | record, close, find stuck, writeback | every launcher, watchdog | slow runs, late answers | a finished row is final and true |
| watchdog (`scripts/watchdog.py`) | a list of stuck rows in memory | reap, reset, 48-hour reset, orphan sweep | ledger, jobs, folders | list-then-act on stale data | takes only from the dead, and eventually does |
| action layer (`actions.py`) | stage, `audit_log`, `feedback_log`, folders | moves and undos | routes, rejection detector, ingest | undo chains over the audit rows; commit before move | an undo goes back where it should; folder, pointer and stage agree |
| board and materials routes (`web/routes/board_actions.py`, `materials.py`) | none of their own | guards | action layer | stale tabs, double clicks | guards and tabs agree |
| spend ceiling (`spend_ceiling.py`, `cost_tracking.py`) and LLM client (`llm/openrouter.py`, `llm/role_runner.py`) | `cost_log`, per-process alert cache | check, call, retry, stream, log, alert | every model call | check-then-spend, a cache that outlives its month | bounded overshoot, a refusal is announced |
| rejection detector and review queue (`scripts/detect_rejections.py`, `rejection_detector/`, `web/routes/rejections_review.py`) | suggestions | match, suggest, confirm, reassign, dismiss | action layer | two commits per confirmation | a settled suggestion moved a job |
| mailbox (`gmail_imap.py`, `fetchers/adapters/gmail.py`) | `gmail_state.json` | alert fetch, rejection scan, connection test | triage, detector | three writers of one whole record around slow IMAP exchanges | what is below a checkpoint was processed |
| speculative research (`speculative/`) | request row, cards, briefing folder | run, regenerate, approve, reap, sweep | watchdog, jobs | final UPDATE without a guard, approval without a claim | a request that is ready has its briefing, none is researched for ever |
| triage (`triage/`, `scoring.py`) and ingest (`ingest.py`) | `jobs` rows up to `scored` | insert, enrich, score, retry, resurface | fetchers, operator | killed in mid-run; look-up and insert apart; retry overwrites by id | one live row per posting, each enriched one scored, decisions stand |
| interview prep, podcast, study (`interview/`, `materials.py`) | `background_tasks`, files | check and launch, generate, reap | ledger, watchdog, rejection | check-then-launch, the folder moves away meanwhile | a succeeded row has its files, the single-flight guard opens again |
| onboarding (`onboarding/`, `web/routes/onboarding*.py`) | session row, files under `config/` and `data/` | streamed turns, capture, inject, roll back, gates | configuration, LLM client | whole-history rewrites, commit file by file | a captured block is in the transcript, an overwritten file has a backup |
| schema and migrations (`db/migrate.py`, `migrations/`) | `schema_version`, tables | bridge, baseline, scripts, rebuilds | every process at boot | killed half way, more than one runner | the stamp says what is there |
| restore (`web/restore.py`), export and import (`migrate/`) | directories, manifest | swap and roll back; checkpoint, tar, verify | migrations, a writer that was not stopped | killed or failing between two moves | no file lost; a quiet export verifies |
| settings (`config_loader.py`, `/settings/`, `/config/`, exclusions) | files under `config/` and `data/`, compiled rules in memory | load, form, raw editor, exclude, apply | triage, pages | several editors of one file, caches | what the operator was told is what is applied |
| board views (`web/routes/board.py`, `web/view_prefs.py`, `web/filters/`) | `view_prefs` rows, pages in windows | open, filter, sort, reset | rows requests, redirects | late answers, pages older than the stored view | no filter hides a row unasked |
| pipeline log (`audit.py`), health check (`notifications/health_check.py`), panel (`web/cron_dispatch.py`) | `pipeline.jsonl` and its backups | write, rotate, read back, launch | triage, fetchers | rotation hides events, a launch is announced by the parent | no feed dies in silence, one triage at a time |
| company discovery, statistics, staging and walkthrough tools | own files or none | I/O, read-only queries | - | - | not modelled (section 8) |

`PROJECT.json` lists the same components with their status and, under `hazards`,
each hard behaviour at the line where it bites.

## 2. Modules

| module | models | remarks |
|---|---|---|
| `SlotPool` | what the prep cap promises | abstract specification: items take and release one of `Max` slots |
| `PrepRuns` | prep gate, orchestrator, ledger, prep part of the watchdog, and the operator's routes that move the same row meanwhile | composes six actors over one set of tables |
| `MCPrepRuns` | - | symmetry for TLC |
| `PrepRunsProofs` | - | type correctness, refinement of `SlotPool`, the cap, the ledger |
| `PrepGateProofs` | - | one run per job, materials on disk, nobody stranded, only the dead reaped |
| `JobHistory` | the action layer's moves and undos after prep, with the audit rows they look up, the folders, markers and feedback rows | requests served in read / commit / folder steps |
| `MCJobHistory` | - | symmetry for TLC |
| `JobHistoryProofs` | - | type correctness, safety of the undos, exactness of the audit rows, folders, markers and feedback rows |
| `Speculative` | one speculative request: form, runner, approval, reaper, sweep | two research kinds, checked side by side in `MCSideWork` |
| `InterviewStudy` | the study material of one job, and the rejection that moves its folder | |
| `SideWorkProofs` | - | type correctness of the two and side by side; an offered request has its briefing, a succeeded one its artifact |
| `Rejections` | rejection mails from classification to the settled suggestion | both move rows from outside the board: `MCJobFlow` |
| `Intake` | postings from triage and the ingest form to scored rows | |
| `JobFlowProofs` | - | type correctness; a settled suggestion has moved a row, an opening has one live row, decisions stand |
| `MailScan` | `gmail_state.json` and its three writers | the rest: `MCStackEdge` |
| `Spend` | gate, calls, retries, streams, logging, alerts, month's end | |
| `OnboardingChat` | interview sessions, keys, turns, captured blocks | |
| `OnboardingInject` | finalize: back-up, stage, verify, commit, roll back; the gates; the guard | |
| `OnboardingProofs` | - | type correctness of chat and finalization; transcripts, back-ups, refused keys, what a served board stands on |
| `Migrations` | the migration runner over every schema it may meet | |
| `StackRestore` | the swap of a restore and its rollback | |
| `StateExport` | export against a writer, import, verification | |
| `StackProofs` | - | type correctness of migrations, restore and export; rows stay in their table, a stamp means its schema, files and figures survive |
| `Settings` | seven settings, their loaders and writers, the process that applies them | |
| `BoardViews` | the tabs' stored views and the windows that show them | |
| `PipelineLog` | the log, its rotation, the triage runs that write it, its readers | |
| `StackEdgeProofs` | - | log, health check, spend, views, settings and mailbox; with the two modules it extends, all ten components of `MCStackEdge` side by side |

### PrepRuns

*State.* `stage`, `path` (which run's folder `prep_folder_path` names), `audited` and
`undo` (the two facts about `audit_log` anything depends on), `req` (the handler
threads), `task` (`background_tasks`; a row, its process and the folder the process
mints share one identity, a launch in `Runs`), `proc` (program counter of each
subprocess), `out` (the folder Phase B read), `disk` (each folder: absent, present
or moved to `.stale/`), `wd` (the watchdog's list and the row in hand).

*Steps.* One action is one committed transaction or one folder operation, because
that is where SQLite and the file system let actors in. `_claim_prep_slot` is one
conditional UPDATE and so one action, its test and its write together; the read of
the row before it (`ReadJob`) is another. `CommitA`/`AuditA`, `CommitB`/`AuditB` and
`UndoB`/`UndoBAudit` are pairs since the orchestrator commits the stage and the audit
row separately; the action layer commits both at once and so `Transition` writes
both. Model calls succeed, fail in a way a clause catches, or raise.

*Faults* are chosen per run by `Faults`: `kill` (before the run gives up its slot),
`kill_late` (between that commit and the writeback), `kill_in_shim`, `popen`,
`handler_error`, `restart`, `db_error` (a locked database, including the errors the
code logs and swallows), `bug` (an exception no clause foresees) and
`briefing_expires` (the 48-hour reset). `SlowRuns` lets a live run outlive its kind's
timeout, which the code cannot exclude but its constants try to.

*Folders.* The quarantine goes by a folder's name, which begins with the company and the
abbreviated title: `PrefixOf[j]` are the jobs whose folders begin with `j`'s prefix, `j` among
them. `StartA` sets aside every untracked folder of theirs.

*Time* is one bit per row: `Age` says `started_at` passed the timeout of its kind.

### JobHistory

*State.* `stage`; `prior`, for each job and each stage an undo looks up, the
`old_value` of the latest audit row into that stage (what the undos' queries return);
`recent`, the jobs with a row into `applied` of the last thirty seconds; `path` and
`place`, where the row says the folder is and where it is, as the list of
directories above it; `marked`, `feedback`; and `req`, one request per handler thread.

*Steps.* A route reads the row and tests its guard (`Read`), the action layer commits
(one action per helper of `actions.py` or transition of `board_actions.py`), then the
folder operations run one by one (`FsStep`), each of which may raise (`FsFails`). `apply`
is the exception: it looks the folder up after the commit and updates the path last
(`MoveFolderToApplied`).

*Guards.* `Accepted(op)` is what a handler lets pass. Six of them test only that the
job is not there already (`Unguarded`). `Offered(op)` is what a tab offers, and
`StaleTabs` says whether the operator may click on a page that is out of date: with
fresh pages a request needs both, with stale ones the handler's guard alone.

### Side by side

`MCSideWork`, `MCJobFlow` and `MCStackEdge` EXTEND several component modules. Each
component owns its tables and files, and no action of one reads what another writes, so
a run does not multiply their states: a variable (`side`, `flow`, `edge`) chosen in `Init`
says whose behaviour this is, and the others keep one fixed initial state. Where
components do share a table they are one module (`PrepRuns` holds six actors over
`jobs` and `background_tasks`). The components of `MCJobFlow` both touch `jobs`, but on
disjoint stages: intake writes rows before the board shows them, a rejection mail
concerns rows after an application, and what an operator does to either in between is in
the module itself.

### Speculative, InterviewStudy

`spec` is the request row, `folder` the briefing folder of each launch, `launch` ledger row
and process of each, `approval` what an approval has read, `dog` the watchdog's row in
hand. `Launches` bounds launches. The runner reads the request (`ReadRequest`), writes the
briefing, synthesises cards, writes the folder and ends with an UPDATE that has no
status guard (`FinishResearch`); the approval reads before it writes (`ApproveRead`).

In `InterviewStudy` one artifact is one step of a generator (`gen`), which holds the
folder path it read at the start; `Reject` moves the folder meanwhile. `written` records
the tasks whose last write hit the disk. The subprocess (`interview_prep`) goes on after
a failed optional artifact, a request handler does not.

### Rejections, Intake, MailScan

A mail is what the classifier reads off it (`Markers`), a firm and a role; `MatchJob` is
`match_job` with the fuzzy threshold as a relation `Fits`. Confirmation is a read, the
job's commit and the queue's commit. `Intake`'s key of a posting is a role and how
exactly its place is known, as the two deduplications compare them; the triage run is a
program counter over its phases, started again after a kill. In `MailScan` each of the
three writers loads the whole of `gmail_state.json`, works, and saves it; `Resets`
renumbers the mailbox (UIDVALIDITY).

### Spend

A call is read-spend, check-alert, send-alert, pass or refuse, answer, log: each a step
another caller may come between. A caller is a thread or subprocess that logs its own calls, or
a posting of a triage batch (`ToScore`): one of `SCORE_WORKERS` threads takes it (`Starts`) and
is free for the next as soon as the answer is in, while the row waits for the main thread
(`LogCall`, `LogGuess`). `costLog` sums the rows with a billed cost, `guessLog` those with an
estimate, which prefilter hits and failed scorer calls leave; the gate reads both. A
notification is filed under the month of its insert, after a push that has no timeout.
`_alerts_fired` is per process and keyed by threshold and month (`CacheKey`). `MonthEnds` may
fall anywhere.

### OnboardingChat, OnboardingInject

A turn answers from a snapshot of the session; its results are then persisted commit by
commit, and `append_turn` is a read and a write of the whole history. Finalize is one step
per phase of `inject` and one per file of its commit; the gates that follow end in the
sentinel, which the guard reads and then caches. `CommitFails` is a replace that raises,
`RoutingFails` what raises after the last replace inside the same `try`; both drop the
attempt's backup, and the attempt is then in `torn`.

### Migrations, StackRestore, StateExport

`db.has` is the set of tables and columns some script or helper tests for, so the schemas
of all releases (`Shape`) are initial states; a transaction works on `work`, which its
COMMIT makes the database. A restore moves one directory after another, out and in; a
child is a generation and a name, so a file lost or mixed shows; `hasCopy` says which
directories have one, be it empty, under the rollback directory. An export is checkpoint,
counts, hash and tar in the code's order, and any of them may find a new commit; the target it
is unpacked over is a stack that runs and may have files and commits of its own (`target.own`).

### Settings, BoardViews

A content is the set of its entries, and an entry stands for how its loader reads it back
("typed" is not a string to YAML, "flag" compiles alone and not inside an alternation,
"tiny" rounds to nothing, "vacant" is a category with an empty list, which the exclusion writes
back as "null"). A behaviour follows one setting: editors open in `window`,
exclusions in `click`, and the process that applies it (`reader`, with the compiled rules
a triage run keeps). In `BoardViews` a behaviour follows one tab: `stored` is the row of
`view_prefs`, `view` the pages in the windows with the inputs they hold, `pending` the rows
requests not answered, `wanted` the filters asked for since they were last removed, by the
cross, in the input or by a reset. The circumstance `cleared` is a window whose last filter
goes in its input.

### PipelineLog

Time goes by half days. `current` is the file as its readers see it; before an event is
written a full file is set aside (`WriteLog`). `world` is what really happened to each
feed, so that the health check's report can be compared with it. A start counts as running for
120 minutes (`ExpireStart`). The scheduled triage is killed after `FINDAJOB_TRIAGE_TIMEOUT`, by
default as long; one the panel started has no timeout, and may outlive its start where the
circumstance `slow` is taken (`MayTakeLonger`).

## 3. Runs

`Symmetry` permutes jobs, runs and handlers where neither is told apart; `PrepGate`, whose two
jobs have different titles, permutes runs and handlers only (`SymmetryOfRuns`), and the runs with
liveness properties permute nothing.
`CHECK_DEADLOCK FALSE` appears in every run of `PrepRuns`, where the supply of
launches `Runs` is finite and the system rests once it is used up, in `HistPair`
and `HistUnInterview`, whose operator uses few routes and may have none left, and in the
side-by-side runs, whose launches, calls, turns and boots are bounded. `HistUndo` checks
deadlock.

| run | question | bounds | result |
|---|---|---|---|
| `PrepGate` | with two requests at a time on briefing-gated prep, crashes and bugs: one run per job, materials on disk, no stranded slot, only dead runs reaped | 2 jobs, 3 launches, 2 handlers, cap 2 | holds |
| `PrepStorm` | all four launching routes race for one slot, with waitlist and reactivate: the refinement of `SlotPool`, hence the cap | 2 jobs, 2 launches, 2 handlers, cap 1 | holds |
| `PrepFaults` | every fault at once and slow runs: does `background_tasks` tell the truth | 1 job, 2 launches | holds |
| `PrepLiveness` | under fairness every slot returns and every running row is settled | 2 jobs, 2 launches, kills anywhere outside the shim | holds |
| `HistUndo` | all chains of moves and undos of one job, one request at a time | 1 job, 1 handler, all routes on one row | holds |
| `HistPair` | undo and reattribution between two jobs, two requests at a time, cut off anywhere | 2 jobs, 2 handlers | holds |
| `SideWork` | speculative research and study material, launched twice, killed, slow, restarted | 2 launches, 1 approval; 2 tasks of any kinds | holds |
| `JobFlow` | rejection mails settled by two reviewers at once; postings from triage, retry and form | 2 rows of one firm, 1 mail; 2 rows, 1 crash, 1 form | holds |
| `StackEdge` | ten components at the system's edge, each with its faults | 2 messages, 1 renumbering; 4 calls of 2 processes over 2 months; 2 turns; 3 finalizations; 2 stops in 4 boots; 3 directories of 2 children; 2 commits; 2 contents; 2 windows; 3 half days, 2 launches | holds |
| `HistUnInterview` | "Row stays on Applied tab" | 1 job, 1 handler | refuted, section 6 |
| `RestoreRollback` | "On failure mid-swap, the rollback dir allows recovery" | 3 directories of 2 children | refuted, section 6 |
| `UpgradeLosesTiers` | "preserving rows + indexes" | every earlier schema, 1 runner | refuted, section 6 |

*Why the bounds suffice.* The claim compares a count with a cap and a job with its own
stage: two jobs and a cap of one are the smallest instance where the cap refuses
someone, two handlers on one job the smallest where both passed the same read. A
third launch lets a briefing be followed by a continuation or a retry while another job
is in flight; with `Runs = 2` a job is still launched again after its first run failed.
In `PrepGate` and `PrepLiveness` the title of `j2` is the beginning of that of `j1`
(`ShortTitle`): a run of `j2` may quarantine the folder of `j1`, and not the reverse. In
`PrepStorm` both jobs have the same prefix (`OnePrefix`), and in `PrepFaults`, which has one job,
nothing is shared.
`MaxNesting = 3` bounds only `Reject`, the one action that adds a directory
(`_applied/_rejected` or `_waitlisted/_rejected` is two deep); `MaxFeedback = 2` lets a
second row appear where the properties allow one. The histories themselves are not
bounded: `prior` keeps what the queries can see of an audit log of any length.
Of the side-by-side runs: two launches let a row be reaped while its process works on and
a second one follow; two rows of one firm are what makes a match ambiguous, and two
reviewers let one settle what the other has read; two rows are a posting and its twin, one
crash leaves a row for the next run. Four calls of two processes cross a threshold in
one process with the other's cache cold, in both months; one call past the ceiling is
what overshoots it. One worker thread and two postings are the smallest batch in which a worker
takes the next posting while the row of the last one is not written; every batch is of two
(`OneBatch`), since one of one has no next. Alerts that fail or lose their row are taken
with a ceiling of three calls, which four calls cannot overshoot by three: the run fires them,
and the theorem says that `OvershootBounded` holds of them. Everything else is taken with a
ceiling of one call, or with none. Three finalizations let an attempt fail between two that
succeed. Two stops may fall in one rebuild and the run after it. Two children tell a directory
replaced from one mixed. Two windows on a tab without default filters (`rejected`) send
what the other has changed since; a tab with defaults (`dashboard`) has one window, and late
answers and cleared inputs, of which nothing but types is claimed, are taken on a third
(`applied`). The log begins on a night; a week before the window (`WeekSlots`) is one half day in
place of twelve: the comparison is with "some half day before", and a rotation may fall in any
of them.
Fault sets (`SpFaults`, `MailFaults`, ...) list faults that are taken together; a behaviour
picks one set, and properties say which faults they exclude.

## 4. Properties

`PrepRuns`
- `ImplementsSlotPool`: the count the claim tests is a real cap. `InFlightCap` follows
  (theorem `CapHolds`).
- `OneRunPerJob`: at most one handler past its claim or one process before its last
  stage write, per job.
- `PrepIsRecoverable`: a job at `prep_in_progress` always has someone who will move it.
- `MaterialsOnDisk`: quarantine, clean-up and sweep never take the folder of a job that is
  offered for reading or applying.
  These two and `SlotsAreReturned` are about the jobs whose folders no other job's prefix takes
  (`Spared`); of the others they are false (section 6).
- `LedgerMatchesProcess`, `FinishedRowsAreFinal`: a row is never rewritten, and says
  succeeded only of a process that ran to its end.
- `ReapsOnlyDeadRuns`: the watchdog does not take a slot from a working run.
- `SlotsAreReturned`, `RowsAreSettled`: liveness.

`JobHistory`
- `HistoryIsExact`: the audit row of every stage change names the stage the job really
  left. Most undos write that stage as a literal, so a wrong literal would mislead not
  this undo but a later one.
- `UndoReturnsToApplications`: whatever chain of moves and undos led there, undoing a
  withdrawal, a fallback or a company rejection lands on applied, interview or offer.
- `FolderFollowsStage`, `MarkerMeansNotSelected`, `FeedbackMatchesStage`:
  between requests pointer, folder, marker and feedback rows agree with the stage.

The other components
- `ReadyHasBriefing` (Speculative): a request offered for review names a launch whose folder
  was written. `ResearchEnds`: whoever is killed or slow, research ends.
- `SucceededMeansWritten` (InterviewStudy): an on-demand row says succeeded only if the
  artifact was written where the job's folder was. `GuardIsReleased`: no running row is for
  ever, so the single-flight guard opens again.
- `SettledMeansMoved` (Rejections): a suggestion settled as confirmed or reassigned has moved
  a row, whoever else settles it and wherever a request is cut off.
- `NoLiveTwins` (Intake): two live rows are never the same opening. `TriageSparesDecisions`:
  scoring, which writes by id, undoes no decision. `EnrichedIsScored`: as long as
  triage runs keep coming whose fetch brings something, a row a dead run left enriched is
  scored by one of them.
- `CheckpointsAreProcessed` (MailScan): mail at or below a checkpoint was judged, or ingested.
- `OvershootBounded` (Spend): the billed costs in a month's rows stay below the ceiling plus one
  call of each caller, each posting of a triage batch counting as one, whatever the number of
  worker threads. `RefusalIsAnnounced`: a refusal in a month has its row of that month or, after
  a slow push, a later one, unless the send fails or its row is lost.
- `CapturedIsInTranscript` (OnboardingChat): a captured block is in the history at every point
  a restart may come, since the next scan of the history decides what is captured.
- `OverwrittenIsBackedUp` (OnboardingInject), `CrashKeepsFiles` (StackRestore),
  `QuietExportVerifies` (StateExport): no content is lost, and none is falsely reported lost. The
  first leaves out the files an attempt had replaced before it raised, the last an export with
  a write in it and a target that has files or commits of its own (section 6).
- `StampMeansSchema` (Migrations): the schema holds what the stamp says and no more, wherever
  a runner was stopped.
- `SettingsTakeEffect` (Settings): what the operator was last told is in place is what the
  loaders return and what a process applies, for contents that load (`Ordinary` entries), and a
  content that stays from the drift scan of a triage run on has its `config_changes` row, if
  the fetch brought something and the scan did not raise.
- `NothingHiddenUnasked` (BoardViews): a tab opened bare applies no filter that was removed
  and not asked for since. A filter removed by its cross, in its input or by a reset counts as
  removed; a window whose last filter goes in its input is left out (section 6).
- `NoSilentDeath` (PipelineLog): the health check names the feeds that died and no other.
  `OneTriage`: clicks that do not race launch no second triage, as long as each ends within the
  120 minutes for which the panel takes its start as running.

A run checks one type invariant of each module it exercises (`SideTypeOK`, `FlowTypeOK` and
`EdgeTypeOK` combine the components').

Each property of a passing run has a mutant of the code in `PROJECT.json` that breaks it;
the mutants stand next to the definitions they change, marked `mutant:`.

*Fairness* (`FairSpec`). Weak fairness of each handler's next step (a thread of the pool
that is not killed runs on), of each process's next step (the operating system
schedules it; the calls it waits on have timeouts), of `Age` (clocks advance) and of
the watchdog (cron fires every ten minutes, and `find_stuck` lists oldest first). The
operator owes nothing: no fairness on any route. Faults are not fair either: they may or
may not happen, at any time. A killed process gives its slot back through the
watchdog, a failed one through its handlers, a bug through the shim. A kill inside the
shim is excluded from `PrepLiveness`: the row is already failed then, and the job
really is stranded until a person moves it (the same window as between the claim's
commit and `record_start`).

`SpeculativeFairness` and `StudyFairness` are of the same kind: handlers, processes and the
watchdog go on. Listing a given stuck row (`Watch`) is strongly fair: the watchdog has one
row in hand at a time, and `find_stuck` lists every stuck row at each cron run, so a row
that is stuck again and again between runs is listed. `IntakeFairness`: cron starts triage
each day, a started run goes on unless killed (kills are bounded), a submission
finishes. That a fetch brings something is not fair: `EnrichedIsScored` has it as a premise
(`[]<>`), because a run whose fetch is empty ends before it scores. `SpendFairness`: every wait of a call has a timeout. `MigFairness`: a container
that is down is started again, and a runner that is up goes on.

## 5. Proofs

All proofs hold for any sets of the model's actors and rows (jobs, launches, requests,
tasks, processes, files) and any faults, except where an assumption is named.

*`TypeCorrect`, `HistoryTypeCorrect`*. `TypeOK` alone is not inductive: a step writes
`stage[req[r].job]`, and `req[r].job` may be `None` in an idle request. `PrepRunsProofs`
strengthens it with `JobsAreNamed` (requests, rows and live processes name jobs),
`JobHistoryProofs` with `ServesAJob` (a request in progress names its jobs and, at its
folder operations, has some left, so that `Head` is one).

*`ClaimImplementsSlotPool`, `CapHolds`*. Seen through `Preparing`, the jobs at
`prep_in_progress`, a claim is `Acquire`; every other stage write, whoever makes it and
however late, either takes one job out of the set (`Releases`) or leaves the set alone
(`Keeps`). The lemmas `LeavingPrep`, `ResetReleases`, `ProcessReleases` and
`OperatorReleases` show it actor by actor. The theorems assume `"un_apply" \notin Ops`
(section 6: with it the cap is false) and `CapHolds` that `Jobs` is finite, for
`Cardinality`. Any faults and slow runs are allowed.

*`LedgerIsTrue`* (`LedgerMatchesProcess`), *`FinishedStaysFinished`* (`FinishedRowsAreFinal`).
Row and process are written by three actors. `LedgerInv` says how they agree: a row that
succeeded has a process that ran to its end, a live process whose row is not past its timeout
still has it running; a launch that is recorded and not yet spawned belongs to one
request (so no second process appears for a row); and whatever the watchdog has listed is past
its timeout, which is what makes its UPDATE, made on a list that has become old, harmless. All
faults and slow runs are allowed.

*`OneRunPerJobHolds`, `MaterialsStayOnDisk`, `OnlyDeadRunsAreReaped`, `PrepStaysRecoverable`*
(`PrepGateProofs`). One inductive invariant, `GateInv`: a job in preparation has one owner, and
only its owner writes its stage or its folder. Owners (`Owns`, `Launches`) are a request
between its claim and its spawn, a process until its last stage write, a dead process whose
row is still running, and the row the watchdog has in hand; `SoleOwner` says they are never
two, `OwnerShape` and `LaunchShape` that the owner's job is at `prep_in_progress`, `FolderShape`
that a run's own folder is on no row before the run commits it. The rest is a walk over
the actions: each either changes nothing an owner relies on (`Stays`) or passes the job on
(`Ends`). `GateScope` names what breaks it, and each exclusion is a behaviour of section 6 or
one TLC shows: regenerate and reactivate-and-prep give the slot back after Phase A and
work on; the operator's other routes (`Ops`) take the row away; a slow run is reaped
alive; a kill after the slot is given back, a restart or a swallowed database error
leaves a row running that no longer owns its job, and the watchdog then resets whoever does.
`MaterialsStayOnDisk` and `PrepStaysRecoverable` are about `Spared` jobs, for any relation of
prefixes: the invariant promises a folder (`Kept`) only to them, and a run whose folder another
job's quarantine has moved may go on, or give up in Phase B with its job stranded.
`PrepStaysRecoverable` further excludes (`StrictScope`) a failing `Popen`, an error in a handler
and a kill inside the shim: each leaves a claim that no row names. Kills, bugs, the
48-hour reset and any number of jobs, launches, requests and slots are in.

*`UndoIsSafe`*. Inductive invariant `UndoInv`: a request about to commit saw a stage its
tab offers the move for (`SeesOffered`; the commit may come long after, the proof needs
only what was seen), and the rows an undo looks up lead back (`RowsLeadBack`): the
latest row into `withdrawn` or `not_selected` names an application, the latest into
`withdrawn_fallback` names one or `withdrawn`, one hop from one. `RecordLeadsBack` shows
that a new row preserves this, `RestoredIsApplication` that the three lookups then
return an application. It holds for concurrent requests and cut-offs, and assumes fresh
pages (`~StaleTabs`: `withdraw` does not check the stage, so a stale page may withdraw a
job that never applied, and the undo rightly restores it there) and that rejections are
reattributed to applications (section 6).

*`HistoryExact`*. Inductive invariant `ExactInv`: at the commit the job is still at the
stage the route read, which its guard accepted. Requests in progress must be about
different jobs (`Apart`; a reattribution is about the two jobs it names): between two of one
job the literal, or the stage read, may be out of date. Stale pages, cut-offs and any
reattribution are allowed.

*`FeedbackIsExact`* (`FeedbackMatchesStage`), *`FoldersFollowStages`*, *`MarkersMeanNotSelected`*
(`FolderFollowsStage`, `MarkerMeansNotSelected`). `HistInv` joins the two invariants above with
`RowsKnown`: as long as each request saw a stage its tab offers the move for, the rows that undos
look up name stages an operator moves from, never a rejection, so an undo cannot land where
folder or feedback row would be wrong. `FeedbackInv` adds that a request about to reject has
room for its row. `TidyInv` says what a pending request has left to do: after the commit of a
relocation the row names the new place and one move is to follow (`MoveLeft`: the disk is behind
the database); an application moves first and updates the path last (`ApplyLeft`, `PathLeft`:
the database is behind the disk); markers are put and removed in the order `MarksLeft` gives. A
job no request has work for is `Settled`: its path names the place its folder is at, and
the place fits the stage. Here too any number of requests may overlap as long as they are
about different jobs (section 6: two rejects of one job break all three). What makes that
enough is that the invariant splits by request: `Orderly(r, S)` is its part about the jobs of
`r`, a step of `r` keeps it for its own jobs and touches no other, and where requests are
`Apart` the parts together are the whole (`OrderlyIsTidy`). The theorems further assume fresh
pages and rejections reattributed to applications; folders and markers also that no request
is cut off between commit and move.

*`OfferedIsWritten`* (`ReadyHasBriefing`). Inductive with `FolderFirst`: a launch at its
final UPDATE has written its folder, and so has the launch the row names. Nothing makes a
written folder absent again, so regenerating, reaping and reviving in between cannot break
it; that the sweep may later set the folder aside (`stale`, section 6) is not excluded.

*`SuccessIsWritten`* (`SucceededMeansWritten`). Invariant `HandlerClosesOnce`: a handler
never enters the subprocess's steps, reaches `close_ok` only with its artifact written, and
a succeeded row belongs to a generator that is done and will not run again, so that no
later failure takes `written` back. `SourceStands` beside it shows `DerivedStands`: what
was derived names an interview prep that is in the folder.

*`SettledIsMoved`* (`SettledMeansMoved`). `MovedFirst`: a request that is to settle a
suggestion, other than by dismissing it, has moved a row already; `NamesItsMail` types the
request's mail and row, which are absent only while it is idle.

*`OpeningsAreSingle`* (`NoLiveTwins`), *`DecisionsStand`* (`TriageSparesDecisions`). `IntakeInv`:
rows are filled in order, and what a run is about to enrich or score (`RowsInHand`) was never
on the board, so that its writes, which go by id, undo no decision. The null-score retry
takes rows that were on the board, and the property leaves it out (section 6). `TwinFree` says
that of two rows for one opening one is marked a duplicate. A look-up and the insert after it
are two steps: `OneInserts` says that who is between them is alone there and still right, and
is what the circumstance `race` takes away, which `NoLiveTwins` excludes.

*`SideTypeCorrect`*, *`FlowTypeCorrect`* (`SideTypeOK`, `FlowTypeOK`). A step of components side by
side is a step of one; the others' invariants do not see it.

*`BackupHolds`* (`OverwrittenIsBackedUp`), as long as no two finalizations overlap, of however
many (`OneFinalization`). `CopyFirst`: the
request works in a second no earlier one used, its copy of each file it has still to replace
is the file as it is, and until it replaces the first file everything earlier attempts
overwrote is in the directories of earlier seconds, which its own rollback does not
touch. That the staged files are pairwise different (`StagedOnce`, `OneLess`) is what keeps
the copy true of the remaining ones. An attempt that raises in its commit, or after it in the
same `try`, takes its backup with it (`torn`); that this touches no other attempt's directory is
part of what is proved. With two that overlap it fails, in one second
(section 6) or in two: the later one's backup may then predate what the earlier one commits.
*`BoardIsConfigured`* (`BoardMeansConfigured`) and *`RefusedKeyIsHarmless`*
(`FailedKeyWritesNothing`) hold for any number of requests: `RequiredFirst` (a required file
is in place or still staged by whoever is committing), `NumberIsOwn` (an attempt writes
nothing before its key is verified, and shares its number with nobody). No run checks these
two, nor what `DerivedStands`, `RowsAreKept` and `StampsClimb` state.

*`MigTypeCorrect`* (`MigTypeOK`), *`RowsAreKept`* (`RowsStayInTable`), for any number of runners
at once. `Locked`: who is inside a transaction holds SQLite's write lock, and rows are outside
`jobs` only in the copy of a rebuild that is under way, never in what is committed.
*`StampsAreTrue`* (`StampMeansSchema`), for any number of runners of which no two are up at once
(`OneRunner`; section 6: two that overlap move the stamp backwards).
`StampInv` says what a database can be at each stamp (`Coherent`: without one it is empty, or
v0.10's bridged so far; with one it is the stamp's schema, up to two columns the code has
retired), that what the runner read is still so (`Sure`), and that in
mid-script the transaction's copy lies between two schemas (`Midway`: what the statements so
far brought less what they took). It is carried by lemmas about the scripts themselves: no
script takes back what an earlier one brought, or brings what an earlier one took, other than
those columns and the table of tester keys. A database whose stamp was lost is excluded, as
in the property. *`StampsClimb`* (`StampClimbs`) draws from the same invariant what a step may do:
keep the stamp or move it to the next version.

*`SwapKeepsFiles`* (`CrashKeepsFiles`). `TreesInv` types the trees and notes that the
rollback runs only where moves may fail; each other step then keeps every file of a tree in
place or in the rollback directory.

*`NeverTwoTriages`* (`OneTriage`). `Announced`: at most one triage is alive; once it is past
its scheduled second the newest cron event is its start and has not expired, so a handler that
looks sees it; and a handler that has looked and found nothing is the only one and right. It
assumes no rotation, no racing clicks and no run that outlives its start.

*`NoFeedDiesInSilence`* (`NoSilentDeath`). `FileIsTrue`: what is in the file of a feed
happened then, or again later. `FileIsWhole`: what last happened to a feed is in the file; in one
that may have been set aside, at least if anything older is. The report compares one with the
other.

*`OvershootIsBounded`, `RefusalsAreAnnounced`* (`SpendInv`). `RoomLeft`: what the running month has
logged and one dearest call of each caller that has passed the gate is still less than
the ceiling and one call of every caller; a caller that logs gives up its share of the
second term, a month that is over gets no more. Estimates only make the gate stricter. A posting
whose answer waits for the main thread keeps its share, and the worker's next posting is
another caller. `Told`: what a process has cached as sent has a row of the month its key names
or a later one, and a call that will be refused has the notification on
its list or finds it sent.

*`CapturedStaysInTranscript`* (`ChatInv`), unless two requests stand between the read and the
write of `append_turn` on one session (`AppendsAlone`); tabs may otherwise overlap, streaming
included. The transcript of each request's session holds what the request saw of it, what it
read to append to is still what is there (`InTranscript`), and when it captures, its own reply is
in. A transcript only grows under that condition, so another tab's turn takes nothing
away; two appends at once break the second part (section 6).

*`QuietExportsVerify`* (`ExportInv`). While nothing commits, what each step of the export has
recorded is what the source still holds, the log it checkpointed is empty and stays so, and so
the tarball's database file alone is the database (`AsRecorded`), which a target without commits
or files of its own reads back.

*`RemovedFiltersStayRemoved`* (`NothingHiddenUnasked`). `AskedFor`: when no rows
request is under way the stored view holds only filters asked for since they were last removed;
the one that may be under way holds such filters only, and what it will save replaces the
stored view (an empty state would not).

*`SettingsAreRead`* (`SettingInv`). The file holds what the operator was told (`InPlace`; or differs from it in a category without a list, which is not claimed), an
exclusion that is to be written is alone and read what is still there (`OneExclusion`), and a
process has seen the content in place now and applies one it has seen (`SeenSince`).

*`NoMailIsLeftBehind`* (`MailInv`). Three writers replace the whole record, so the invariant is
about copies: every record of checkpoints that is saved, or that some writer has loaded and
may save, leaves nothing behind (`JudgedTo`, `TakenTo`). A scan that has searched for a sender
holds that sender's mail, and what arrives later is above its mark (`ScanHolds`, `FetchHolds`).

These hold for any callers, processes, feeds, windows, clicks, messages, blocks and
histories of commits.

*`ChatTypeCorrect`, `RestoreTypeCorrect`, `ExportTypeCorrect`, `LogTypeCorrect`, `SpendTypeCorrect`,
`ViewTypeCorrect`, `SettingTypeCorrect`, `MailTypeCorrect`*. Most types are not inductive alone. `ChatShapes`
gives a request that is served a row, `RestoreShapes` a restore its two fields and no more;
`ExportBounds` keeps the commits and the files, and the tarball's copies, within the bounds of the
run; `EventsOK` says that an event is of a half day that has come, `SettingShapes` that only the
raw editor garbles a file. `SpendBounds` holds the limit of three attempts of one call; the
months and the alerts are typed in `SpendInv`, the mailbox in
`MailInv`.

*Side by side.* A step of `MCStackEdge` moves one component by a step of its own
(`StepsAreTheirOwn`), so each component behaves in the composition as its own specification
says (*`PartsBehaveAsAlone`*), and what is proved of it alone holds there: its types
(*`EdgeTypeCorrect`*, `EdgeTypeOK`), its safety (*`EdgeIsSafe`*), and under their conditions on overlaps
transcripts, backups and stamps (*`EdgeIsSafeInTurn`*). That one component moves and the others
stand still, as the run has it to keep its state space small, hides no fault.

*Assumptions on constants* that proofs use beside named theorem hypotheses: `SpendAssumption`
(costs are positive and one is the largest), `LogAssumption` (finitely many feeds, a week of some
half days, and a calendar that lasts two weeks), `SettingAssumption` (no file, and a file that does
not parse, are not contents), `MigrationsAssumption` and `IntakeAssumption` (no runner, no version
and no row are not ones; the bounds are numbers), `ViewAssumption` (windows are opened on
tabs), `ExportAssumption` (there is a commit and a file to make), `EdgeAssumption` (the components
named are the ten), and of the others the same kind: a placeholder is not an element, a bound is
a number, circumstances are among those listed. TLC evaluates them.

*Only model-checked*: liveness (`SlotsAreReturned`, `RowsAreSettled`, `ResearchEnds`,
`GuardIsReleased`, `EnrichedIsScored`), which depends on fairness and is out of the prover's
reach. Every invariant and every action property of the passing runs is a theorem.

## 6. Where the code and its words differ

With a run that shows it (`findings` in `PROJECT.json`):
- `HistUnInterview`: apply, interview, withdraw, un-withdraw, un-interview leaves the job
  at `withdrawn`: the row that un-withdraw wrote into `interview` is the one
  un-interview reads.

- `RestoreRollback`: the rollback directory lies inside `data/`, one of the directories the
  restore swaps; the rollback of a failed move empties `data/`, and the old files with it. It is
  enough that the very first move fails: the directory made for its copies is there, still
  empty, and `_attempt_rollback` takes that for a copy (`restore.py:222`).
- `UpgradeLosesTiers`: a table rebuild copies the columns of the version-1 definition; later
  columns come back with their defaults, a backfilled `company_tier` as `unknown`.

Met while modelling, without a run of their own. Where a name is given, a definition of
that name stands in the module, and adding it to the run that hosts the module (with the
circumstance named) shows the counterexample.

Preparation:
- The cap bounds jobs at `prep_in_progress`, not processes: a regenerated job frees its slot
  after Phase A while Phase B still works.
- The quarantine goes by company and abbreviated title (`prep/quarantine.py:64`,
  `prep/orchestrator.py:212`): a run moves the folder another job's run has made and not yet
  committed, if its name begins the same (the same title in another city, a title that is the
  beginning of another). The commit then points at a folder that is gone, the page offers a
  briefing that is not there, and a continuation aborts in Phase B (`orchestrator.py:576`) with
  the job left at `prep_in_progress` and its row closed, where no watchdog finds it
  (`docs/troubleshooting.md` says it rolls back after 60 minutes). Two such runs that start
  in one second even share a folder.
- The claim commits before `record_start`; a restart between the two leaves a job no running
  row names, which the watchdog never finds.
- regenerate's idempotency guard looks at the stage, which a run of both phases has left
  half way: a second regenerate deletes the folder under it.
- After the 48-hour reset a re-flag pays for Phase A again.
- The orchestrator still commits a stage and its audit row separately.
- un-apply restores `prep_in_progress` without the claim: adding `"un_apply"` and
  `"apply"` to `PrepStorm`'s `Ops` gives two jobs in preparation under a cap of one.
- An unforeseen exception in Phase B reaches the shim, which resets to `scored` and clears
  the folder pointer if the job was claimed by `/continue-prep`: a paid briefing is lost.
- The reset after a failed Phase A logs and swallows a database error; the row is then
  closed as failed and the job stays at `prep_in_progress`.
- Two overlapping rejects of one job both pass the guard: two feedback rows (though
  `web/routes/materials.py` calls a second submit a no-op), and with an un-reject among
  them the folder and its pointer part. `FolderFollowsStage` and `FeedbackMatchesStage` are
  therefore checked with one request at a time, which is how one operator mostly works, and
  proved for requests of different jobs.
- Rejecting a waitlisted or fallback job puts the folder in
  `companies/_waitlisted/_rejected/` or `companies/_applied/_rejected/`;
  `docs/architecture/file-map.md` knows only `companies/_rejected/`.
- Reattributing to a job that is already `not_selected` makes its row name `not_selected` as
  the stage to return to, so un-not-selected does nothing for ever after; to a withdrawn
  job, un-not-selected restores `withdrawn`. `UndoIsSafe` assumes neither.
- un-apply within thirty seconds of an un-interview restores `interview`, since the window
  looks for any row into `applied`.
- A request cut off between commit and move leaves `prep_folder_path` naming a place the
  folder is not at (`Aborts = TRUE` breaks `FolderFollowsStage`).

Research and study:
- `ApprovedBriefingOnDisk`: no `jobs.prep_folder_path` ever names a briefing folder, so the
  orphan sweep moves an approved request's folder away too; `materials.py:315` counts on it.
- A restart between the request's commit as `researching` and its ledger row strands it.
- `ReclickIsNoOp`: two clicks on interview prep both pass `find_active_for_subject`
  (`interview/orchestrator.py:117` says re-clicks are no-ops).

Mail, rejections, intake:
- `CheckpointInMailbox`: after a renumbering the highest uid is still counted from the old
  checkpoint, which is then saved under the new UIDVALIDITY: new mail below it is passed
  over (`gmail_imap.py:342`). A FETCH that is not OK is passed over too.
- `OneShotKeepsBacklog`: a one-shot scan that comes before the first regular one marks the
  backlog scan complete (`detect_rejections.py:85` says it does not, line 168 does).
- A connection test that overlaps a scan puts the old checkpoint back; an alert fetch whose
  triage run dies loses the jobs in its hands (the property says which faults it excludes).
- One active row of a firm is matched whatever the mail's title.
- `ResurfacedIsVisible`: ingest resurfaces a duplicate row and says it is on the Dashboard
  (`ingest.py:47`).
- A triage whose fetch brings nothing returns before it scores (`triage/orchestrator.py:231`): rows
  a dead run left enriched wait for as long as fetches are empty.
- The null-score retry overwrites a decision taken during its model call; a row left at
  `discovered` by a dead run is read by no later run.

Spend:
- `AlertsFireOnce`: two callers look the alert up before either has sent it, and both send
  (`spend_ceiling.py:22`).
- A push that takes longer than the month has left is filed in the next one
  (`notifications/ntfy.py:141`: the push has no timeout, and comes before the insert, not after it
  as line 124 says): that month's own alert is then taken for sent. An insert that fails is
  swallowed (line 116), and the alert cached as sent.
- A stream that is cut off, an answer that is lost and every call of the null-score retry are
  billed and leave no row: the ceiling does not see them.
- A triage run logs a call when it comes to its answer, not when it is billed: its workers
  pass the gate for up to the rest of the batch meanwhile. Prefilter hits, which call nobody,
  and failed scorer calls are logged with an estimate and pass no gate at the time
  (`cost_tracking.py:139`; `docs/getting-started/cost.md:143` says "on every LLM call. No
  heuristic", and `cost_tracking.py:12` that the estimate "is not exercised in production"). The
  estimates count against the ceiling and are not bounded by it. `OvershootBounded` is about one
  batch at a time: of two triage runs at once, each posting counts in each.

Onboarding:
- `InterviewBeginsOnce`: two tabs begin one session twice (`onboarding_interview.py:440`), and
  the whole-history rewrite loses one tab's turn.
- `NextTurnUsesSavedKey`: an open session goes on with the key it was created with
  (`onboarding.py:382`).
- `RerunIsEnforced`: `inject` of a re-run removes the sentinel, but the guard has cached that
  it was there, so the board stays reachable until a restart (`injector.py:500`).
- Two finalizations in one second share a backup directory, named by the second: the later
  one copies the earlier one's half-committed files over the originals (`Finalizers` of two
  breaks `OverwrittenIsBackedUp`).
- `inject` drops its backup whenever it raises (`injector.py:550`), also after a replace that failed
  half way, when the files replaced so far are already new, and when the sentinel's unlink or
  the reading of `active_sources.txt` raises after all were replaced (lines 502-539): the old
  files are then nowhere. `OverwrittenIsBackedUp` excepts the files of such an attempt.
- inject merges `data/.env` from what it read at staging: a key written since is overwritten.

Schema, export:
- An export during which the stack writes may be accepted although it is torn: a commit between
  the hash and the file count, and a checkpoint between the tar of the database and that of its
  log, give an archive without the commit, whose manifest agrees with it.
- `import_to_fly` unpacks over a stack that runs: a file it has already stays beside the archive's
  and the verification rejects the result; so does a commit in its log, unless the archive
  brings a log that replaces it.
- Two runners at once can move the stamp backwards, each writing the version it has reached.
- `LostStampBoots`: a stack that lost its stamp is taken for an older schema and fails to boot
  (`migrate.py:33`).

Settings:
- An unquoted reject reason that YAML reads as another type (`No`, `123`, `a: b`) makes
  `load_reject_reasons` raise: the editor and every board page answer 500, and the file is
  not on the `/config/` allowlist. What follows ` #` is cut off.
- A pattern with inline flags compiles alone and not in the joined alternation.
- A ceiling that rounds to 0.00 is written and read as no ceiling.
- The active-sources page shows the defaults where the file is absent, and triage then uses
  none.
- `OtherCategoriesKept` ("Preserves other categories", `config_loader.py:648`): an exclusion beside a
  category with an empty list writes that category without a value, which reads as null; the
  loader refuses the file, and every row of the prefilter then fails (line 131).
- A triage whose fetch brings nothing does not look for drift, and one whose scan raises goes on
  without (`triage/orchestrator.py:231`, 238): no `config_changes` row says what it scored with.
  The raw editor swallows such a failure too, which the model leaves out.
- Two exclusions at once, or one beside a form, lose one of the two.
- `settings_gemini.py:34` promises an atomic write; line 54 is a `write_text`.

Board views:
- Clearing the last filter in its popover saves nothing (an empty state is a no-op,
  `board.py:74`), so the next bare load brings it back; a rows request answered after a reset
  does the same. Sort links drop filters that were applied since the page was loaded.

Log:
- A rotation hides events: a dead feed goes unreported, a finished run is reported as not
  finished, a running triage is not seen and a second one starts.
- The scheduled triage does not look at the panel's runs, and two racing clicks both pass. Where
  the two do overlap, the one that ends first writes the newest event and hides the other.
- A triage started from the panel has no timeout (`web/cron_dispatch.py:73`), and a start older than
  120 minutes no longer counts as running (`web/cron_registry.py:159`): a later click, racing
  nobody, starts a second one beside it (circumstance `slow` breaks `OneTriage`). The
  scheduled one is stopped after two hours unless `FINDAJOB_TRIAGE_TIMEOUT` says otherwise.
- A gem board's 404 leaves no slug line, so it is never reported; a source whose key is gone
  counts as switched off and is silent.

## 7. Plan

Done: the components of section 2, each with the property that matters most to it, and the
proofs of section 5. Next:
1. Proofs: one run per job and the materials for jobs that no route regenerates, beside others
   that are regenerated (`GateScope` now excludes the route); a bound on the jobs in
   preparation with `un_apply`, the cap and one for each application taken back.
2. The archive's paging, which skips a row when another leaves the page before it.
3. The walk from a rejected application through the critique aggregator, once it writes.

Runs are kept few: one per question, with components that share nothing side by side.

## 8. What is left out, and why

Money, scores, texts, reasons and file contents inside the modelled components: no
property is about them. Synthetic rows (`synthetic = 1`), notes and reason changes:
they touch no state the properties read. Parsing of feeds and mails, prompts and role
files, rendering: their outcomes are choices in the models. The adapters other than
greenhouse's leave the same trace in the log. Company discovery, statistics and metrics:
read-only, or one script alone. Staging, walkthrough and loose-ends tools: not part of the
running system. The streamed backup page reads what `StateExport` reads, without a
manifest to compare with.

Checked with one actor where the code has no protection against two (section 6): the
onboarding chat (one request), finalization (one request), the migration runner (one
runner), the job history's folders and feedback rows (one request). The theorems ask less:
any number of actors whose appends to one session, finalizations, runs or moves of one job do
not overlap (section 5).

## 9. Running

`tlc -workers 2 -config <run>.cfg <module>` for each run of `PROJECT.json`;
`tlapm <module>Proofs.tla` for each of the eight proof modules. `StackEdge` takes
about a minute and a half with two workers, the others less.
