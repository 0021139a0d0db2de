------------------------------- MODULE Intake -------------------------------
(***************************************************************************)
(* How postings become jobs rows: the daily triage run (deduplicate,       *)
(* insert, enrich, score, retry), the manual ingest form beside it, and    *)
(* the operator, who decides on the rows that are on the board.            *)
(***************************************************************************)
EXTENDS Naturals, FiniteSets

CONSTANTS
  Roles,         \* (title, company) pairs, normalized
  Blurred,       \* the key of a posting whose title or company is missing
  MaxRows,       \* bound: jobs rows
  MaxKills,      \* bound: triage runs that die
  Forms,         \* concurrent manual submissions
  IntakeFaults,  \* the sets of circumstances an execution may meet
  NoRow          \* no row

AllIntakeFaults == {"kill", "race", "score_error"}

ASSUME IntakeAssumption ==
  /\ MaxRows \in Nat /\ MaxKills \in Nat
  /\ IntakeFaults \subseteq SUBSET AllIntakeFaults
  /\ Blurred \notin Roles /\ NoRow \notin Nat

RowIds == 1..MaxRows
Locations == {"coarse", "city", "town"}
Key == [role : Roles \cup {Blurred}, loc : Locations]
Visible == {"scored", "manual_review"}
Decided == {"rejected", "waitlisted", "applied"}
TriagePcs == {"fetching", "fetch", "insert", "resolve", "enrich", "advanced", "score", "retry"}

VARIABLES
  jobs,      \* the jobs table
  triage,    \* the triage run: where it is, the posting and row in its hands,
             \* the rows it collected
  form,      \* the manual submissions
  surfaced,  \* history: the rows the last submission was told are on the board
  kills, intakeFaults

intakeVars == <<jobs, triage, form, surfaced, kills, intakeFaults>>

IdleTriage(key) == [pc |-> "idle", real |-> key, key |-> key, row |-> NoRow, todo |-> {}]
AnyKey == CHOOSE k \in Key : k.role = Blurred /\ k.loc = "coarse"
Free == [stage |-> "free", key |-> AnyKey, dupe |-> FALSE, score |-> "null"]
IdleForm == [pc |-> "idle", key |-> AnyKey, row |-> NoRow]

IntakeTypeOK ==
  /\ jobs \in [RowIds -> [stage : {"free", "discovered", "enriched"} \cup Visible \cup Decided,
                          key : Key, dupe : BOOLEAN, score : {"null", "llm", "eight"}]]
  /\ triage \in [pc : {"idle"} \cup TriagePcs, real : Key, key : Key,
                 row : RowIds \cup {NoRow}, todo : SUBSET RowIds]
  /\ form \in [Forms -> [pc : {"idle", "insert", "resurface"}, key : Key,
                         row : RowIds \cup {NoRow}]]
  /\ surfaced \subseteq RowIds
  /\ kills \in 0..MaxKills /\ intakeFaults \in IntakeFaults

IntakeInit ==
  /\ jobs = [r \in RowIds |-> Free]
  /\ triage = IdleTriage(AnyKey)
  /\ form = [f \in Forms |-> IdleForm]
  /\ surfaced = {}
  /\ kills = 0 /\ intakeFaults \in IntakeFaults

-----------------------------------------------------------------------------
(* Deduplication.  The strict fingerprint has the location in it, the      *)
(* loose one has not and counts when either location is coarse.            *)

Used == { r \in RowIds : jobs[r].stage # "free" }
Same(k1, k2) == k1 = k2 \/ (k1.role = k2.role /\ "coarse" \in {k1.loc, k2.loc})
\* mutant: the strict fingerprint alone
StrictTwins(k, others) == { r \in others : jobs[r].key = k }
Twins(k, others) == { r \in others : Same(jobs[r].key, k) }
Collides(k, others) == \E r \in others : jobs[r].key = k   \* UNIQUE(fingerprint)
Next1 == Cardinality(Used) + 1

\* without "race", nobody inserts between another's lookup and insert
MayWrite == "race" \in intakeFaults \/ \A f \in Forms : form[f].pc # "insert"
MayLookUp == MayWrite /\ ("race" \in intakeFaults \/ triage.pc # "insert")

-----------------------------------------------------------------------------
(* The triage run.                                                         *)

StartTriage ==
  /\ triage.pc = "idle"
  /\ triage' = [triage EXCEPT !.pc = "fetching"]
  /\ UNCHANGED <<jobs, form, surfaced, kills, intakeFaults>>

\* the sources bring nothing, after the retries: the run ends there, and rows
\* an earlier one left enriched are not looked at
FetchNothing ==
  /\ triage.pc = "fetching"
  /\ triage' = IdleTriage(AnyKey)
  /\ UNCHANGED <<jobs, form, surfaced, kills, intakeFaults>>

FetchSome ==
  /\ triage.pc = "fetching"
  /\ triage' = [triage EXCEPT !.pc = "fetch"]
  /\ UNCHANGED <<jobs, form, surfaced, kills, intakeFaults>>

\* the next fetched posting: noise and aggregators are passed over, a known
\* one is noted in duplicate_groups
TakePosting(real, key) ==
  /\ triage.pc = "fetch" /\ Next1 \in RowIds /\ MayLookUp
  /\ Twins(key, Used) = {}
  /\ triage' = [triage EXCEPT !.pc = "insert", !.real = real, !.key = key]
  /\ UNCHANGED <<jobs, form, surfaced, kills, intakeFaults>>

NextPosting == triage' = [triage EXCEPT !.pc = "fetch", !.row = NoRow]

\* a fingerprint taken meanwhile raises, and ends the run; at the bound the
\* posting is let go
InsertDiscovered ==
  /\ triage.pc = "insert" /\ MayWrite
  /\ IF Next1 \notin RowIds THEN NextPosting /\ UNCHANGED jobs
     ELSE IF Collides(triage.key, Used)
     THEN triage' = IdleTriage(AnyKey) /\ UNCHANGED jobs
     ELSE /\ jobs' = [jobs EXCEPT ![Next1] = [Free EXCEPT !.stage = "discovered",
                                                          !.key = triage.key]]
          /\ triage' = [triage EXCEPT !.pc = "resolve", !.row = Next1]
  /\ UNCHANGED <<form, surfaced, kills, intakeFaults>>

Others == Used \ {triage.row}
\* mutant: the pointer is set, the stage is not
MarkPointerOnly == jobs' = [jobs EXCEPT ![triage.row].dupe = TRUE]
MarkDupe == jobs' = [jobs EXCEPT ![triage.row].stage = "rejected", ![triage.row].dupe = TRUE]

\* after fetch_jd: a blurred company or title is replaced by the one LinkedIn
\* returned and deduplicated once more.  Where LinkedIn returned none, a title
\* stays as it is, and a row without a company is rejected
Resolve ==
  /\ triage.pc = "resolve" /\ MayWrite
  /\ \/ triage' = [triage EXCEPT !.pc = "enrich"] /\ UNCHANGED jobs
     \/ /\ triage.key # triage.real
        /\ \/ Twins(triage.real, Others) # {} /\ MarkDupe /\ NextPosting
           \/ /\ Twins(triage.real, Others) = {}
              /\ jobs' = [jobs EXCEPT ![triage.row].key = triage.real]
              /\ triage' = [triage EXCEPT !.pc = "enrich"]
           \/ /\ jobs' = [jobs EXCEPT ![triage.row].stage = "rejected"]
              /\ NextPosting
  /\ UNCHANGED <<form, surfaced, kills, intakeFaults>>

\* the UPDATE names the row by id alone
EnrichRow ==
  /\ triage.pc = "enrich"
  /\ jobs' = [jobs EXCEPT ![triage.row].stage = "enriched"]
  /\ triage' = [triage EXCEPT !.pc = "advanced"]
  /\ UNCHANGED <<form, surfaced, kills, intakeFaults>>

\* a repost, in another city, of something already applied for
DedupeAdvanced ==
  /\ triage.pc = "advanced"
  /\ IF \E r \in Others : jobs[r].stage = "applied" /\ ~jobs[r].dupe
                          /\ jobs[r].key.role = jobs[triage.row].key.role
     THEN MarkDupe ELSE UNCHANGED jobs
  /\ NextPosting
  /\ UNCHANGED <<form, surfaced, kills, intakeFaults>>

\* mutant: whatever has no score yet
CollectUnscored ==
  /\ triage.pc = "fetch"
  /\ triage' = [triage EXCEPT !.pc = "score",
       !.todo = { r \in Used : jobs[r].score = "null" /\ ~jobs[r].dupe }]
  /\ UNCHANGED <<jobs, form, surfaced, kills, intakeFaults>>

\* every enriched row, those of runs that died included
CollectEnriched ==
  /\ triage.pc = "fetch"
  /\ triage' = [triage EXCEPT !.pc = "score",
       !.todo = { r \in RowIds : jobs[r].stage = "enriched" /\ ~jobs[r].dupe }]
  /\ UNCHANGED <<jobs, form, surfaced, kills, intakeFaults>>

Scored(r, stage) ==
  jobs' = [jobs EXCEPT ![r].stage = stage,
                       ![r].score = IF stage = "scored" THEN "llm" ELSE "null"]

\* one worker's result, in completion order; score_job turns its failures into
\* manual_review, what it raises leaves the row enriched
ScoreRow(r) ==
  /\ triage.pc = "score" /\ r \in triage.todo
  /\ \/ \E stage \in Visible : Scored(r, stage)
     \/ "score_error" \in intakeFaults /\ UNCHANGED jobs
  /\ triage' = [triage EXCEPT !.todo = @ \ {r}]
  /\ UNCHANGED <<form, surfaced, kills, intakeFaults>>

CollectNullScores ==
  /\ triage.pc = "score" /\ triage.todo = {}
  /\ triage' = [triage EXCEPT !.pc = "retry",
       !.todo = { r \in RowIds : jobs[r].stage = "manual_review" /\ jobs[r].score = "null"
                                 /\ ~jobs[r].dupe }]
  /\ UNCHANGED <<jobs, form, surfaced, kills, intakeFaults>>

\* the UPDATE names the row by id alone, seconds after it was collected
RetryRow(r) ==
  /\ triage.pc = "retry" /\ r \in triage.todo
  /\ \/ \E stage \in Visible : Scored(r, stage)
     \/ UNCHANGED jobs
  /\ triage' = [triage EXCEPT !.todo = @ \ {r}]
  /\ UNCHANGED <<form, surfaced, kills, intakeFaults>>

EndTriage ==
  /\ triage.pc = "retry" /\ triage.todo = {}
  /\ triage' = IdleTriage(AnyKey)
  /\ UNCHANGED <<jobs, form, surfaced, kills, intakeFaults>>

KillTriage ==
  /\ "kill" \in intakeFaults /\ kills < MaxKills /\ triage.pc # "idle"
  /\ triage' = IdleTriage(AnyKey) /\ kills' = kills + 1
  /\ UNCHANGED <<jobs, form, surfaced, intakeFaults>>

-----------------------------------------------------------------------------
(* The manual form: look up, then insert or resurface.                     *)

FormLookup(f, key) ==
  /\ form[f].pc = "idle" /\ MayLookUp
  /\ \/ \E r \in Twins(key, Used) :
          form' = [form EXCEPT ![f] = [pc |-> "resurface", key |-> key, row |-> r]]
     \/ /\ Twins(key, Used) = {} /\ Next1 \in RowIds
        /\ form' = [form EXCEPT ![f] = [pc |-> "insert", key |-> key, row |-> NoRow]]
  /\ UNCHANGED <<jobs, triage, surfaced, kills, intakeFaults>>

\* mutant: the source's label is written for the stage
FormInsertAsManual(f) ==
  /\ form[f].pc = "insert" /\ Next1 \in RowIds
  /\ jobs' = [jobs EXCEPT ![Next1] = [stage |-> "manual", key |-> form[f].key,
                                      dupe |-> FALSE, score |-> "eight"]]
  /\ form' = [form EXCEPT ![f] = IdleForm]
  /\ UNCHANGED <<triage, surfaced, kills, intakeFaults>>

FormInsert(f) ==
  /\ form[f].pc = "insert"
  /\ IF Next1 \notin RowIds \/ Collides(form[f].key, Used) THEN UNCHANGED jobs
     ELSE jobs' = [jobs EXCEPT ![Next1] = [stage |-> "scored", key |-> form[f].key,
                                           dupe |-> FALSE, score |-> "eight"]]
  /\ form' = [form EXCEPT ![f] = IdleForm]
  /\ UNCHANGED <<triage, surfaced, kills, intakeFaults>>

\* _handle_duplicate: a closed row comes back, an open one is refreshed, one
\* applied for is left alone
Resurfaced(row) ==
  CASE row.stage = "applied" -> row
    [] row.stage \in {"rejected", "waitlisted", "manual_review"} ->
         [row EXCEPT !.stage = "scored", !.score = "eight"]
    [] OTHER -> [row EXCEPT !.score = "eight"]

FormResurface(f) ==
  /\ form[f].pc = "resurface"
  /\ LET r == form[f].row IN
       /\ jobs' = [jobs EXCEPT ![r] = Resurfaced(@)]
       /\ surfaced' = IF jobs[r].stage = "applied" THEN {} ELSE {r}
  /\ form' = [form EXCEPT ![f] = IdleForm]
  /\ UNCHANGED <<triage, kills, intakeFaults>>

\* the operator rejects, waitlists or applies for what the board shows
Decide(r, stage) ==
  /\ jobs[r].stage \in Visible /\ ~jobs[r].dupe
  /\ jobs' = [jobs EXCEPT ![r].stage = stage]
  /\ surfaced' = surfaced \ {r}
  /\ UNCHANGED <<triage, form, kills, intakeFaults>>

-----------------------------------------------------------------------------
Fetch == FetchNothing \/ FetchSome
InsertPosting == InsertDiscovered \/ Resolve \/ EnrichRow \/ DedupeAdvanced
ScorePostings == \/ CollectEnriched \/ CollectNullScores \/ EndTriage
                 \/ \E r \in RowIds : ScoreRow(r) \/ RetryRow(r)

IntakeNext ==
  \/ StartTriage \/ Fetch \/ InsertPosting \/ ScorePostings \/ KillTriage
  \/ \E real \in {k \in Key : k.role \in Roles} :
       \/ TakePosting(real, real) \/ TakePosting(real, [real EXCEPT !.role = Blurred])
  \/ \E f \in Forms : \/ \E key \in {k \in Key : k.role \in Roles} : FormLookup(f, key)
                      \/ FormInsert(f) \/ FormResurface(f)
  \/ \E r \in RowIds, stage \in Decided : Decide(r, stage)

\* the daily schedule, a run that is scheduled and whose calls time out, and
\* request handlers that run to their end
IntakeFairness ==
  /\ WF_intakeVars(StartTriage)
  /\ WF_intakeVars(Fetch)
  /\ WF_intakeVars(InsertPosting)
  /\ WF_intakeVars(ScorePostings)
  /\ \A f \in Forms : WF_intakeVars(FormInsert(f) \/ FormResurface(f))

IntakeSpec == IntakeInit /\ [][IntakeNext]_intakeVars /\ IntakeFairness

-----------------------------------------------------------------------------
(* Properties.                                                             *)

\* No opening is on the books twice: two rows that are not marked as
\* duplicates differ in role, or name two different cities.  A submission in
\* the middle of triage's own lookup and insert is left out.
NoLiveTwins ==
  "race" \notin intakeFaults =>
    \A r1, r2 \in Used : r1 # r2 /\ Same(jobs[r1].key, jobs[r2].key)
                           => jobs[r1].dupe \/ jobs[r2].dupe

\* Enriching and scoring, which write by id, never undo what the operator
\* decided: nothing they hold is on the board yet.  The null-score retry is
\* the exception.
TriageSparesDecisions ==
  [][triage.pc # "retry" /\ triage' # triage =>
       \A r \in RowIds : jobs[r].stage \in Decided => jobs'[r].stage = jobs[r].stage]_intakeVars

\* A row left enriched by a run that died is scored by a later one, as long as
\* there keep being runs whose fetch brings something: a run that fetched
\* nothing leaves it waiting.
EnrichedIsScored ==
  "score_error" \notin intakeFaults /\ []<>(triage.pc = "fetch") =>
    \A r \in RowIds : jobs[r].stage = "enriched" ~> jobs[r].stage # "enriched"

\* ingest.py:47 says of a resurfaced row "job is now on the Dashboard".
ResurfacedIsVisible == \A r \in surfaced : jobs[r].stage \in Visible
=============================================================================
