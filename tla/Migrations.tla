------------------------------- MODULE Migrations -------------------------------
(***************************************************************************)
(* The schema migration runner (src/findajob/db/migrate.py), which          *)
(* scripts/init_db.py runs at every container start and web/restore.py     *)
(* after a restore: the baseline guess for a database without a stamp, the *)
(* numbered scripts, each in one transaction with its stamp, and the       *)
(* helpers that rebuild a table whose CHECK lacks a value.                 *)
(*                                                                         *)
(* A database is what its committed pages say: db.has is the set of its    *)
(* tables and columns that some script or helper looks at, db.lacks the    *)
(* CHECK values it does not have yet (or, "needs_info", still has). A      *)
(* transaction works on a copy, which its COMMIT makes the database.       *)
(***************************************************************************)
EXTENDS Integers, Sequences, FiniteSets, SequencesExt

CONSTANTS
    Runners,        \* processes that may run apply_pending
    NoRunner,       \* nobody holds SQLite's write lock
    NoVersion,      \* no readable schema_version row
    MaxStops,       \* bound: runs that are killed or fail
    MaxBoots        \* bound: runs started

ASSUME MigrationsAssumption ==
    NoRunner \notin Runners /\ NoVersion \notin Nat /\ {MaxStops, MaxBoots} \subseteq Nat

VARIABLES
    db,             \* the committed database
    work,           \* the copy of the open write transaction
    writer,         \* who holds the write lock
    runner,         \* each runner's progress
    stops,          \* runs killed or failed (bound)
    boots           \* runs started (bound)

migVars == <<db, work, writer, runner, stops, boots>>

\* A statement, and the tables or columns it is about. CREATE TABLE IF NOT
\* EXISTS brings its columns only when it creates the table.
Create(table, columns) == [op |-> "create", thing |-> table, also |-> columns]
AddColumn(column) == [op |-> "add", thing |-> column, also |-> {}]
DropColumn(column) == [op |-> "drop", thing |-> column, also |-> {}]
RenameColumn(old, new) == [op |-> "rename", thing |-> old, also |-> {new}]

JobsDDL == {"loose_fingerprint", "network_depth", "gdrive_folder_url"}

Initial == <<Create("jobs", JobsDDL), Create("onboarding_sessions", {"tester_keys"}),
             Create("notifications", {})>>
BackgroundTasks == <<Create("background_tasks", {})>>
RejectionSuggestions == <<Create("rejection_suggestions", {})>>
NotesHistory == <<Create("notes_history", {})>>
ViewPrefs == <<Create("view_prefs", {})>>
RenameKeys == <<RenameColumn("tester_keys", "user_keys")>>
TuningLoop == <<Create("config_changes", {}), AddColumn("company_tier")>>
GeminiKey == <<AddColumn("gemini_key")>>
DropGdrive == <<DropColumn("gdrive_folder_url")>>
DropDepth == <<DropColumn("network_depth")>>

Script == <<Initial, BackgroundTasks, RejectionSuggestions, NotesHistory, ViewPrefs,
            RenameKeys, TuningLoop, GeminiKey, DropGdrive, DropDepth>>
HeadVersion == Len(Script)

Fails(st, has) ==
    \/ st.op = "add" /\ st.thing \in has
    \/ st.op \in {"drop", "rename"} /\ st.thing \notin has
    \/ st.op = "rename" /\ st.also \subseteq has
Brings(st) == IF st.op = "add" THEN {st.thing} ELSE st.also \cup (IF st.op = "create" THEN {st.thing} ELSE {})
Takes(st) == IF st.op \in {"drop", "rename"} THEN {st.thing} ELSE {}
Effect(st, has) ==
    IF st.op = "create" /\ st.thing \in has THEN has ELSE (has \ Takes(st)) \cup Brings(st)

\* The schema the scripts up to v leave on an empty database; none of them
\* brings back what an earlier one took.
UpTo(v) == UNION {ToSet(Script[w]) : w \in 1 .. v}
Shape[v \in 0 .. HeadVersion] ==
    (UNION {Brings(st) : st \in UpTo(v)}) \ (UNION {Takes(st) : st \in UpTo(v)})

\* The table and the CHECK value of each helper, in the order of apply_pending.
Helpers == << <<"jobs", "needs_info">>, <<"jobs", "briefing_ready">>,
              <<"background_tasks", "prep_phase_b">>, <<"background_tasks", "podcast">>,
              <<"background_tasks", "study_guide">>, <<"jobs", "withdrawn_fallback">>,
              <<"view_prefs", "fallback">> >>
ValuesOf(table) == {h[2] : h \in {g \in ToSet(Helpers) : g[1] = table}}
                     \cup (IF table = "jobs" THEN {"not_selected"} ELSE {})
AllValues == UNION {ValuesOf(h[1]) : h \in ToSet(Helpers)}

\* Databases of earlier releases: none yet; v0.10, which knew no stamp; and a
\* stamped one, whose CHECKs miss the values that releases after it brought.
Fresh == [version |-> NoVersion, has |-> {}, lacks |-> {}, tiers |-> FALSE,
          rows |-> "jobs", needsInfo |-> FALSE, lostStamp |-> FALSE]
Legacy == [Fresh EXCEPT !.has = {"jobs", "network_depth", "gdrive_folder_url",
                                 "onboarding_sessions", "cost_calibration"},
                        !.lacks = ValuesOf("jobs")]
Before(v) ==   \* sets of values that a release with schema v may lack
    IF v <= 1 THEN {{"needs_info", "briefing_ready", "withdrawn_fallback"}}
    ELSE IF v <= 5 THEN {AllValues \ {"not_selected"}}
    ELSE IF v <= 7 THEN {{"podcast", "study_guide", "withdrawn_fallback", "fallback"}}
    ELSE IF v = 8 THEN {{"podcast", "study_guide"}, {"study_guide"}}
    ELSE {{}}
Lacking(v) == {{x \in old : \A h \in ToSet(Helpers) : h[2] = x => h[1] \in Shape[v]} : old \in Before(v)}
WithNeedsInfo(v) == IF v <= 5 THEN BOOLEAN ELSE {FALSE}
Stamped(v) == {[version |-> v, has |-> Shape[v], lacks |-> lacks, tiers |-> v \in 7 .. HeadVersion,
                rows |-> "jobs", needsInfo |-> needsInfo, lostStamp |-> FALSE] :
                  lacks \in Lacking(v), needsInfo \in WithNeedsInfo(v)}
\* The schema of the head, whose stamp is gone or is not a number.
LostStamp == [Fresh EXCEPT !.has = Shape[HeadVersion], !.lostStamp = TRUE]

Idle == [pc |-> "off", version |-> 0, stmt |-> 1, helper |-> 1]

MigTypeOK ==
    /\ \A d \in {db, work} :
          /\ d.version \in 0 .. HeadVersion \cup {NoVersion}
          /\ d.lacks \subseteq AllValues /\ d.rows \in {"jobs", "legacy"}
          /\ {d.tiers, d.needsInfo, d.lostStamp} \subseteq BOOLEAN
    /\ writer \in Runners \cup {NoRunner}
    /\ \A r \in Runners :
          /\ runner[r].pc \in {"off", "read", "infer", "stamp", "next", "script", "helper", "renamed"}
          /\ runner[r].version \in 0 .. HeadVersion /\ runner[r].helper \in 1 .. Len(Helpers) + 1
    /\ stops \in 0 .. MaxStops /\ boots \in 0 .. MaxBoots

MigInit ==
    /\ db \in {Fresh, Legacy, LostStamp} \cup UNION {Stamped(v) : v \in 1 .. HeadVersion}
    /\ work = db /\ writer = NoRunner
    /\ runner = [r \in Runners |-> Idle]
    /\ stops = 0 /\ boots = 0

In(r, pc) == runner[r].pc = pc
Go(r, pc) == runner' = [runner EXCEPT ![r].pc = pc]
Bounds == <<stops, boots>>
NoTransaction == <<work, writer>>

-----------------------------------------------------------------------------
Boot(r) ==
    /\ In(r, "off") /\ boots < MaxBoots
    /\ boots' = boots + 1 /\ Go(r, "read")
    /\ UNCHANGED <<db, NoTransaction, stops>>

ReadVersion(r) ==
    /\ In(r, "read")
    /\ runner' = [runner EXCEPT ![r].pc = IF db.version = NoVersion THEN "infer" ELSE "next",
                                ![r].version = IF db.version = NoVersion THEN 0 ELSE db.version]
    /\ UNCHANGED <<db, NoTransaction, Bounds>>

\* _is_equilibrium: nothing is missing that it looks for.
Equilibrium == {"jobs", "loose_fingerprint", "user_keys", "gemini_key"} \subseteq db.has
                 /\ "tester_keys" \notin db.has

\* _bridge_legacy_to_v1, each statement on its own: DDL outside a transaction.
Bridge(has) ==
    IF "loose_fingerprint" \notin has THEN has \cup {"loose_fingerprint"}
    ELSE IF "cost_calibration" \in has THEN has \ {"cost_calibration"}
    ELSE IF "tester_keys" \notin has THEN has \cup {"tester_keys"}
    ELSE has
Drifted == /\ "jobs" \in db.has /\ ~Equilibrium
           /\ Bridge(db.has) # db.has \/ "not_selected" \in db.lacks

BridgeStep(r) ==
    /\ In(r, "infer") /\ Drifted /\ writer = NoRunner
    /\ IF "loose_fingerprint" \in db.has /\ "not_selected" \in db.lacks
       THEN Go(r, "helper") /\ work' = db /\ writer' = r /\ UNCHANGED db
       ELSE db' = [db EXCEPT !.has = Bridge(@)] /\ UNCHANGED <<runner, NoTransaction>>
    /\ UNCHANGED Bounds

Baseline == IF Equilibrium THEN 1 ELSE 0

StampBaseline(r) ==
    /\ In(r, "infer") /\ ~Drifted /\ writer = NoRunner
    /\ db' = [db EXCEPT !.version = Baseline]
    /\ runner' = [runner EXCEPT ![r].pc = "next", ![r].version = Baseline]
    /\ UNCHANGED <<NoTransaction, Bounds>>

\* The next script with a version above what this runner has read or applied.
BeginScript(r) ==
    /\ In(r, "next") /\ runner[r].version < HeadVersion /\ writer = NoRunner
    /\ writer' = r /\ work' = db
    /\ runner' = [runner EXCEPT ![r].pc = "script", ![r].stmt = 1]
    /\ UNCHANGED <<db, Bounds>>

ScriptOf(r) == Script[runner[r].version + 1]
Written(d) == work' = d /\ UNCHANGED db     \* inside the transaction

Statement(r) ==
    /\ In(r, "script") /\ runner[r].stmt <= Len(ScriptOf(r))
    /\ LET st == ScriptOf(r)[runner[r].stmt]
       IN ~Fails(st, work.has) /\ Written([work EXCEPT !.has = Effect(st, @)])
    /\ runner' = [runner EXCEPT ![r].stmt = @ + 1]
    /\ UNCHANGED <<writer, Bounds>>

\* The stamp is the last statement of the script, then COMMIT.
CommitScript(r) ==
    /\ In(r, "script") /\ runner[r].stmt > Len(ScriptOf(r))
    /\ db' = [work EXCEPT !.version = runner[r].version + 1]
    /\ writer' = NoRunner
    /\ runner' = [runner EXCEPT ![r].pc = "next", ![r].version = @ + 1]
    /\ UNCHANGED <<work, Bounds>>

\* A failed statement rolls the transaction back; the boot fails.
ScriptFails(r) ==
    /\ In(r, "script") /\ runner[r].stmt <= Len(ScriptOf(r)) /\ stops < MaxStops
    /\ Fails(ScriptOf(r)[runner[r].stmt], work.has)
    /\ runner' = [runner EXCEPT ![r] = Idle] /\ writer' = NoRunner
    /\ stops' = stops + 1
    /\ UNCHANGED <<db, work, boots>>

ScriptsDone(r) ==
    /\ In(r, "next") /\ runner[r].version = HeadVersion
    /\ runner' = [runner EXCEPT ![r].pc = "helper", ![r].helper = 1]
    /\ UNCHANGED <<db, NoTransaction, Bounds>>

-----------------------------------------------------------------------------
\* The helpers. Each probes the CHECK in sqlite_master and rebuilds the table.
Helper(r) == Helpers[runner[r].helper]
Table(r) == IF runner[r].version < HeadVersion THEN "jobs" ELSE Helper(r)[1]
InHelpers(r) == In(r, "helper") /\ writer # r /\ runner[r].helper <= Len(Helpers)

HelperSkips(r) ==
    /\ InHelpers(r) /\ Helper(r)[2] \notin db.lacks
    /\ runner' = [runner EXCEPT ![r].helper = @ + 1]
    /\ UNCHANGED <<db, NoTransaction, Bounds>>

\* Rows with the retired value: the tightening refuses, at every boot.
TightenRefuses(r) ==
    /\ InHelpers(r) /\ Helper(r)[2] = "needs_info" /\ "needs_info" \in db.lacks /\ db.needsInfo
    /\ stops < MaxStops /\ stops' = stops + 1
    /\ runner' = [runner EXCEPT ![r] = Idle]
    /\ UNCHANGED <<db, NoTransaction, boots>>

BeginRebuild(r) ==
    /\ InHelpers(r) /\ Helper(r)[2] \in db.lacks
    /\ ~(Helper(r)[2] = "needs_info" /\ db.needsInfo)
    /\ writer = NoRunner /\ writer' = r /\ work' = db
    /\ UNCHANGED <<db, runner, Bounds>>

\* The old table becomes the legacy shell, with its rows.
RenameTable(r) ==
    /\ In(r, "helper") /\ writer = r
    /\ Written(IF Table(r) = "jobs" THEN [work EXCEPT !.rows = "legacy"] ELSE work)
    /\ Go(r, "renamed")
    /\ UNCHANGED <<writer, Bounds>>

\* mutant: the rebuilt table has the columns of the first script alone
NoLaterColumns(table) == {}

\* Columns that later scripts, up to the stamp, have added to the table.
LaterColumns(table) ==
    IF table # "jobs" THEN {}
    ELSE {st.thing : st \in UNION {ToSet(Script[v]) : v \in
            {w \in 1 .. HeadVersion : work.version # NoVersion /\ w <= work.version}}}
         \cap {"company_tier"}

\* The head's DDL is run, the rows are copied over the columns both have, and
\* the columns of later scripts are added anew, with their default.
Rebuilt(table) ==
    [work EXCEPT !.rows = "jobs",
                 !.lacks = @ \ ValuesOf(table),
                 !.has = IF table = "jobs"
                         THEN (@ \ {"company_tier"}) \cup JobsDDL \cup LaterColumns(table) ELSE @,
                 !.tiers = IF table = "jobs" THEN FALSE ELSE @]

CommitRebuild(r) ==
    /\ In(r, "renamed") /\ writer = r
    /\ db' = Rebuilt(Table(r))
    /\ writer' = NoRunner
    /\ Go(r, IF runner[r].version < HeadVersion THEN "infer" ELSE "helper")
    /\ UNCHANGED <<work, Bounds>>

HelpersDone(r) ==
    /\ In(r, "helper") /\ writer # r /\ runner[r].helper > Len(Helpers)
    /\ runner' = [runner EXCEPT ![r] = Idle]
    /\ UNCHANGED <<db, NoTransaction, Bounds>>

\* The container is stopped: an open transaction is lost.
MigKill(r) ==
    /\ ~In(r, "off") /\ stops < MaxStops
    /\ stops' = stops + 1
    /\ runner' = [runner EXCEPT ![r] = Idle]
    /\ writer' = IF writer = r THEN NoRunner ELSE writer
    /\ UNCHANGED <<db, work, boots>>

Runs(r) ==
    \/ ReadVersion(r) \/ BridgeStep(r) \/ StampBaseline(r)
    \/ BeginScript(r) \/ Statement(r) \/ CommitScript(r) \/ ScriptFails(r) \/ ScriptsDone(r)
    \/ HelperSkips(r) \/ TightenRefuses(r) \/ BeginRebuild(r) \/ RenameTable(r)
    \/ CommitRebuild(r) \/ HelpersDone(r)

MigNext == \E r \in Runners : Boot(r) \/ Runs(r) \/ MigKill(r)

\* A container that is not up is started again, and a started run goes on.
MigFairness == \A r \in Runners : WF_migVars(Runs(r)) /\ WF_migVars(Boot(r))
MigSpec == MigInit /\ [][MigNext]_migVars /\ MigFairness

-----------------------------------------------------------------------------
(* migrate.py:21-28: a half-applied script never leaves the database stamped
   at the later version. What a stamp promises is in the schema, and nothing
   else but the two retired columns, wherever a run was stopped. One runner. *)
StampMeansSchema ==
    db.version \in 1 .. HeadVersion /\ ~db.lostStamp =>
       /\ Shape[db.version] \subseteq db.has
       /\ db.has \ Shape[db.version] \subseteq {"gdrive_folder_url", "network_depth"}

(* A rebuild that is cut off leaves the rows in the table, not in the renamed
   shell beside an empty new one (migrate.py:276-287, #723). *)
RowsStayInTable == db.rows = "jobs"

(* Every database of an earlier release gets to the head, crash or no crash,
   unless it carries rows the tightening refuses (migrate.py:446-493) or
   comes without its stamp. *)
SchemaReachesHead == <>[](db.needsInfo \/ db.lostStamp \/ (db.version = HeadVersion /\ db.lacks = {}))

(* migrate.py:253: the rebuild preserves rows; a company tier that was
   backfilled before the upgrade is there after it. *)
RebuildKeepsValues == [][db.tiers => db'.tiers]_migVars

(* migrate.py:33-34: a stack without a stamp is recognised at its first boot
   and starts. *)
LostStampBoots == <>(db.lostStamp => db.version = HeadVersion)
=============================================================================
