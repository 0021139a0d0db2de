------------------------------- MODULE StateExport -------------------------------
(***************************************************************************)
(* Moving a stack: findajob.migrate export, import-fly and verify.         *)
(* The export flushes the write-ahead log, counts rows, hashes pipeline.db *)
(* and counts files, then tars the directories; the import unpacks on the  *)
(* target and verifies the tree against the manifest. The source is to be  *)
(* stopped, and nothing enforces that: a process of the stack may commit   *)
(* between any two of these steps.                                         *)
(*                                                                         *)
(* A database is the number of commits it holds, main in the file and log  *)
(* in the write-ahead log; a commit adds a row to one of the four tables   *)
(* whose rows the manifest counts, or writes elsewhere.                    *)
(***************************************************************************)
EXTENDS Integers, Sequences, FiniteSets

CONSTANTS
    MaxCommits,     \* bound: commits to the source's database
    MaxFiles        \* bound: files under companies/ and candidate_context/

ASSUME ExportAssumption == {MaxCommits, MaxFiles} \subseteq Nat \ {0}

VARIABLES
    source,         \* the source stack: main, log, companies, context
    counted,        \* for each commit: does it add a row to a tracked table
    export,         \* the export's step and the manifest so far
    tarball,        \* what has been added to the tarball
    target,         \* the unpacked tree, what is the target's own, what verify said
    before          \* commits when the export was started

exportVars == <<source, counted, export, tarball, target, before>>

Manifest == [rows : 0 .. MaxCommits, sha : 0 .. MaxCommits,
             companies : 0 .. MaxFiles, context : 0 .. MaxFiles]
NoManifest == [rows |-> 0, sha |-> 0, companies |-> 0, context |-> 0]
NoTree == [main |-> 0, log |-> 0, companies |-> 0, context |-> 0]
ExportSteps == {"checkpoint", "wal", "rows", "sha", "files", "tar_companies", "tar_context",
                "tar_db", "tar_wal", "done", "dirty"}

Commits == Len(counted)
Vacant == [log |-> 0, companies |-> 0, context |-> 0]
TrackedRows(n) == Cardinality({i \in 1 .. n : counted[i]})

ExportTypeOK ==
    /\ counted \in Seq(BOOLEAN) /\ Commits <= MaxCommits /\ before \in 0 .. Commits
    /\ source.main + source.log = Commits
    /\ export.step \in ExportSteps /\ export.manifest \in Manifest
    /\ {tarball.main, tarball.log} \subseteq 0 .. MaxCommits
    /\ target.step \in {"none", "unpacked", "verified", "rejected"}
    /\ \A part \in DOMAIN target.own : target.own[part] \in 0 .. 1

ExportInit ==
    /\ counted \in {<<>>, <<TRUE>>} /\ before = Commits
    /\ \E n \in 0 .. MaxFiles, flushed \in BOOLEAN :
          source = [main |-> IF flushed THEN Commits ELSE 0,
                    log |-> IF flushed THEN 0 ELSE Commits,
                    companies |-> n, context |-> IF n = 0 THEN 0 ELSE 1]
    /\ export = [step |-> "checkpoint", manifest |-> NoManifest]
    /\ tarball = NoTree
    /\ target = [step |-> "none", tree |-> NoTree, own |-> Vacant]

XStep(step) == export.step = step
XGoes(step) == export' = [export EXCEPT !.step = step]
Records(step, field, value) ==
    export' = [export EXCEPT !.step = step, !.manifest[field] = value]
Flushed == [source EXCEPT !.main = Commits, !.log = 0]
Left == <<counted, before>>

-----------------------------------------------------------------------------
\* A process of the stack that has not been stopped: a triage run, the web
\* application, the watchdog. SQLite may move the log into the file any time.
Write ==
    /\ Commits < MaxCommits
    /\ \E row, file \in BOOLEAN :
          /\ counted' = Append(counted, row)
          /\ source' = [source EXCEPT !.log = @ + 1,
                            !.companies = IF file /\ @ < MaxFiles THEN @ + 1 ELSE @]
    /\ UNCHANGED <<export, tarball, target, before>>

Checkpoint ==
    /\ source.log > 0 /\ source' = Flushed
    /\ UNCHANGED <<export, tarball, target, Left>>

\* mutant: the log is left as it is and nobody looks
SkipCheckpoint ==
    /\ XStep("checkpoint") /\ XGoes("rows")
    /\ UNCHANGED <<source, tarball, target, Left>>

CheckpointWal ==
    /\ XStep("checkpoint") /\ source' = Flushed /\ XGoes("wal")
    /\ UNCHANGED <<tarball, target, Left>>

\* DirtyWalError ends the export.
VerifyWalEmpty ==
    /\ XStep("wal")
    /\ XGoes(IF source.log = 0 THEN "rows" ELSE "dirty")
    /\ UNCHANGED <<source, tarball, target, Left>>

RowCounts ==
    /\ XStep("rows") /\ Records("sha", "rows", TrackedRows(Commits))
    /\ UNCHANGED <<source, tarball, target, Left>>

Sha256 ==
    /\ XStep("sha") /\ Records("files", "sha", source.main)
    /\ UNCHANGED <<source, tarball, target, Left>>

CountAndSize ==
    /\ XStep("files")
    /\ export' = [step |-> "tar_db",
                  manifest |-> [export.manifest EXCEPT !.companies = source.companies,
                                                       !.context = source.context]]
    /\ UNCHANGED <<source, tarball, target, Left>>

\* data/ first, by name: pipeline.db, then pipeline.db-wal; data/.env is left out.
TarDb ==
    /\ XStep("tar_db")
    /\ tarball' = [tarball EXCEPT !.main = source.main]
    /\ XGoes("tar_wal")
    /\ UNCHANGED <<source, target, Left>>

\* A log that has been started anew since belongs to the file as it is now.
TarWal ==
    /\ XStep("tar_wal")
    /\ tarball' = [tarball EXCEPT !.log = IF source.main = tarball.main THEN source.log ELSE 0]
    /\ XGoes("tar_companies")
    /\ UNCHANGED <<source, target, Left>>

TarCompanies ==
    /\ XStep("tar_companies")
    /\ tarball' = [tarball EXCEPT !.companies = source.companies]
    /\ XGoes("tar_context")
    /\ UNCHANGED <<source, target, Left>>

TarContext ==
    /\ XStep("tar_context")
    /\ tarball' = [tarball EXCEPT !.context = source.context]
    /\ XGoes("done")
    /\ UNCHANGED <<source, target, Left>>

\* The target is a deployed stack that runs: onboarding or a scheduled run leaves
\* a commit in its log, or a file under companies/ or candidate_context/ that the
\* source has not (bound: one of each).
TargetWorks(part) ==
    /\ target.own[part] = 0
    /\ target' = [target EXCEPT !.own[part] = 1]
    /\ UNCHANGED <<source, export, tarball, Left>>

\* import_to_fly: a target that has a manifest is refused, unless forced. The
\* archive is unpacked over what is there; a log stays unless the archive has one,
\* or the verification of an earlier import took it in.
Import(force) ==
    /\ XStep("done")
    /\ target.step = "none" \/ (force /\ target.step # "unpacked")
    /\ target' = [step |-> "unpacked", tree |-> tarball,
                  own |-> IF tarball.log > 0 \/ target.step # "none"
                          THEN [target.own EXCEPT !.log = 0] ELSE target.own]
    /\ UNCHANGED <<source, export, tarball, Left>>

\* verify: counting the rows opens the database, which takes a log in, whose ever
\* it is.
Observed ==
    LET tree == target.tree IN
    [rows |-> TrackedRows(tree.main + tree.log), sha |-> tree.main + tree.log + target.own.log,
     companies |-> tree.companies + target.own.companies,
     context |-> tree.context + target.own.context]

Compare(m, o) ==
    /\ o.rows = m.rows /\ o.sha = m.sha
    /\ o.companies = m.companies
    /\ o.context = m.context /\ o.context # 0

Verify ==
    /\ target.step = "unpacked"
    /\ target' = [target EXCEPT
                    !.step = IF Compare(export.manifest, Observed) THEN "verified" ELSE "rejected"]
    /\ UNCHANGED <<source, export, tarball, Left>>

ExportNext ==
    \/ Write \/ Checkpoint
    \/ CheckpointWal \/ VerifyWalEmpty \/ RowCounts \/ Sha256 \/ CountAndSize
    \/ TarDb \/ TarWal \/ TarCompanies \/ TarContext
    \/ \E part \in DOMAIN Vacant : TargetWorks(part)
    \/ \E force \in BOOLEAN : Import(force)
    \/ Verify

ExportSpec == ExportInit /\ [][ExportNext]_exportVars

-----------------------------------------------------------------------------
(* The verification raises no false alarm: a stack that wrote nothing while
   it was exported, and has a candidate context, is accepted on a target that
   has nothing of its own, whatever was in its log when the export began
   (migrate/wal.py:26-60, migrate/importer.py:58-103). *)
QuietExportVerifies ==
    [][target.step = "unpacked" /\ target'.step = "rejected"
          => Commits > before \/ source.context = 0 \/ target.own # Vacant]_exportVars
=============================================================================
