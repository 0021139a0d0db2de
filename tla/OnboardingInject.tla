----------------------------- MODULE OnboardingInject -----------------------------
(***************************************************************************)
(* Finalize: onboarding/injector.inject puts the files of a finished       *)
(* interview in place, and web/onboarding_guard.py decides whether the     *)
(* board is served. inject copies what exists to .backups/<stamp>, stages  *)
(* every new file beside its destination, verifies the OpenRouter key and  *)
(* then replaces the files one by one; an exception, also one after the    *)
(* last replace, removes the staged files and the backup. The gates that follow (feed check, time zone,     *)
(* spend ceiling, feed key, Gmail, connections) end by writing the         *)
(* sentinel, which the guard reads and then caches.                        *)
(*                                                                         *)
(* A file holds the number of the attempt that wrote it, 0 when a user     *)
(* wrote it; a stamp is a second of the clock, as in _utc_stamp.           *)
(***************************************************************************)
EXTENDS Integers, Sequences, FiniteSets, SequencesExt

CONSTANTS
    Finalizers,     \* finalize requests that can be served at once
    Required,       \* the required files, a sequence: the order of the commit
    Voice,          \* voice-samples.md, optional and redacted by a model call
    Env,            \* data/.env: merged, not replaced whole
    Absent,         \* there is no such file
    MaxAttempts,    \* bound: finalize requests
    InjectFaults    \* the fault sets a run may pick

AllInjectFaults == {"kill", "bad_key", "redact", "replace", "late"}

ASSUME InjectAssumption ==
    /\ Voice \notin ToSet(Required) /\ Env \notin ToSet(Required) \cup {Voice}
    /\ Required \in Seq(ToSet(Required)) /\ IsInjective(Required) /\ Absent \notin Nat
    /\ MaxAttempts \in Nat
    /\ InjectFaults \subseteq SUBSET AllInjectFaults

VARIABLES
    file,           \* what each destination holds
    sentinel,       \* data/.onboarding-complete exists
    guardCache,     \* app.state.onboarding_complete
    backups,        \* .backups: second -> file -> content
    second,         \* the clock, in seconds
    fin,            \* each finalize request's progress
    attempts,       \* finalize requests so far
    refusedKeys,    \* attempts whose key failed verification
    torn,           \* attempts whose commit failed, and took the backup with it
    gate,           \* the page of the gate sequence the user has reached
    feedKey,        \* the RapidAPI key in data/.env
    replaced,       \* history: <<file, content, attempt>> overwritten by an attempt
    injectFaults    \* the faults of this run

injectVars == <<file, sentinel, guardCache, backups, second, fin, attempts,
                refusedKeys, torn, gate, feedKey, replaced, injectFaults>>

Destinations == ToSet(Required) \cup {Voice, Env}
Contents == 0 .. MaxAttempts
Seconds == 0 .. MaxAttempts
NoBackup == [d \in Destinations |-> Absent]
Gates == {"interview", "feed_check", "timezone", "spend_ceiling", "feed_config",
          "gmail_config", "connections", "dashboard"}
FinSteps == {"idle", "backup", "stage", "verify", "commit", "mark"}

\* left: what is staged and yet to be replaced; dir: the second of the backup;
\* env: whether the data/.env that was read held the feed key.
NoFin == [step |-> "idle", id |-> 0, left |-> <<>>, dir |-> 0, env |-> FALSE]

InjectTypeOK ==
    /\ file \in [Destinations -> Contents \cup {Absent}]
    /\ sentinel \in BOOLEAN /\ guardCache \in BOOLEAN /\ feedKey \in BOOLEAN
    /\ backups \in [Seconds -> [Destinations -> Contents \cup {Absent}]]
    /\ second \in Seconds /\ attempts \in Contents /\ refusedKeys \cup torn \subseteq Contents
    /\ \A f \in Finalizers :
          /\ fin[f].step \in FinSteps /\ fin[f].id \in Contents /\ fin[f].dir \in Seconds
          /\ ToSet(fin[f].left) \subseteq Destinations /\ fin[f].env \in BOOLEAN
    /\ gate \in Gates /\ replaced \subseteq Destinations \X Contents \X Contents
    /\ injectFaults \in InjectFaults

\* A fresh stack, or one whose files were written by hand or by a release
\* before the onboarding; the second may be complete and serving its board.
InjectInit ==
    /\ \E fresh \in BOOLEAN :
          /\ file = [d \in Destinations |-> IF fresh \/ d = Voice THEN Absent ELSE 0]
          /\ sentinel \in IF fresh THEN {FALSE} ELSE BOOLEAN
    /\ guardCache = FALSE
    /\ backups = [t \in Seconds |-> NoBackup]
    /\ second = 0 /\ attempts = 0 /\ refusedKeys = {} /\ torn = {} /\ gate = "interview"
    /\ fin = [f \in Finalizers |-> NoFin]
    /\ feedKey = FALSE /\ replaced = {} /\ injectFaults \in InjectFaults

FinIn(f, step) == fin[f].step = step
FinGoes(f, step) == fin' = [fin EXCEPT ![f].step = step]
FinEnds(f) == fin' = [fin EXCEPT ![f] = NoFin]
Disk == <<file, backups, replaced>>
Guard == <<sentinel, guardCache>>
Ways == <<gate, feedKey>>
Clock == <<second, attempts, injectFaults>>
Failed == <<refusedKeys, torn>>

-----------------------------------------------------------------------------
\* finalize_interview: the blocks and the key are there (OnboardingChat); inject
\* reads data/.env and merges the keys into what it read. A user who clicks
\* again after an answer, or after a restart, does so in a later second.

FinalizeRequest(f) ==
    /\ FinIn(f, "idle") /\ attempts < MaxAttempts
    /\ gate = "interview"
    /\ attempts' = attempts + 1
    /\ second' \in {second + 1} \cup (IF fin = [g \in Finalizers |-> NoFin] THEN {} ELSE {second})
    /\ fin' = [fin EXCEPT ![f] =
           [NoFin EXCEPT !.step = "backup", !.id = attempts', !.env = feedKey]]
    /\ UNCHANGED <<Disk, Guard, Ways, Failed, injectFaults>>

\* mutant: the optional files and data/.env are not copied
BackupRequired(f) ==
    /\ FinIn(f, "backup")
    /\ backups' = [backups EXCEPT ![second] =
           [d \in Destinations |-> IF d \in ToSet(Required) THEN file[d] ELSE @[d]]]
    /\ fin' = [fin EXCEPT ![f].step = "stage", ![f].dir = second]
    /\ UNCHANGED <<file, replaced, Guard, Ways, Clock, Failed>>

\* backup_existing: the second is the directory's name, and copy2 overwrites
\* what another attempt of that second has put there.
Backup(f) ==
    /\ FinIn(f, "backup")
    /\ backups' = [backups EXCEPT ![second] =
           [d \in Destinations |-> IF file[d] # Absent THEN file[d] ELSE @[d]]]
    /\ fin' = [fin EXCEPT ![f].step = "stage", ![f].dir = second]
    /\ UNCHANGED <<file, replaced, Guard, Ways, Clock, Failed>>

\* The staged files, in the order of the commit. A failed redaction, or voice
\* samples without any prose, leave voice-samples.md as it is.
Stage(f) ==
    /\ FinIn(f, "stage")
    /\ \E voice \in {<<Voice>>} \cup (IF "redact" \in injectFaults THEN {<<>>} ELSE {}) :
          fin' = [fin EXCEPT ![f].step = "verify", ![f].left = Required \o voice \o <<Env>>]
    /\ UNCHANGED <<Disk, Guard, Ways, Clock, Failed>>

\* The except clause: the temporary files go, and the backup with them.
Rollback(f) ==
    /\ backups' = [backups EXCEPT ![fin[f].dir] = NoBackup]
    /\ FinEnds(f)

Verified(f) ==
    /\ FinIn(f, "verify")
    /\ FinGoes(f, "commit")
    /\ UNCHANGED <<Disk, Guard, Ways, Clock, Failed>>

SmokeCheckFails(f) ==
    /\ FinIn(f, "verify") /\ "bad_key" \in injectFaults
    /\ refusedKeys' = refusedKeys \cup {fin[f].id}
    /\ Rollback(f)
    /\ UNCHANGED <<file, replaced, torn, Guard, Ways, Clock>>

\* os.replace of the next staged file; data/.env keeps the other keys it held
\* when the request read it.
Commit(f) ==
    /\ FinIn(f, "commit") /\ fin[f].left # <<>>
    /\ LET d == Head(fin[f].left)
       IN /\ file' = [file EXCEPT ![d] = fin[f].id]
          /\ replaced' = IF file[d] = Absent THEN replaced ELSE replaced \cup {<<d, file[d], fin[f].id>>}
          /\ feedKey' = IF d = Env THEN fin[f].env ELSE feedKey
    /\ fin' = [fin EXCEPT ![f].left = Tail(@)]
    /\ UNCHANGED <<backups, Guard, gate, Clock, Failed>>

\* What has been replaced stays replaced.
CommitEnds(f) ==
    /\ FinIn(f, "commit")
    /\ torn' = torn \cup {fin[f].id}
    /\ Rollback(f)
    /\ UNCHANGED <<file, replaced, guardCache, Ways, Clock, refusedKeys>>

\* os.replace raises.
CommitFails(f) ==
    /\ fin[f].left # <<>> /\ "replace" \in injectFaults
    /\ CommitEnds(f) /\ UNCHANGED sentinel

\* All are replaced, and the unlink of the sentinel raises, or what follows it
\* in the same try: reading active_sources.txt, asking the adapters.
RoutingFails(f) ==
    /\ fin[f].left = <<>> /\ "late" \in injectFaults
    /\ CommitEnds(f) /\ sentinel' \in {sentinel, FALSE}

\* All committed: an older sentinel goes, and the gates begin.
Unlink(f) ==
    /\ FinIn(f, "commit") /\ fin[f].left = <<>>
    /\ sentinel' = FALSE
    /\ FinGoes(f, "mark")
    /\ UNCHANGED <<Disk, guardCache, Ways, Clock, Failed>>

\* The drift record and the discovery run cannot fail the request; the session
\* is marked complete and the browser is sent to the first gate.
MarkComplete(f) ==
    /\ FinIn(f, "mark")
    /\ FinEnds(f)
    /\ gate' = "feed_check"
    /\ UNCHANGED <<Disk, Guard, feedKey, Clock, Failed>>

-----------------------------------------------------------------------------
\* The gates. Each Continue, Save or Skip sends the browser to the next one.

FeedCheck ==
    /\ gate = "feed_check" /\ gate' = "timezone"
    /\ UNCHANGED <<Disk, Guard, feedKey, fin, Clock, Failed>>

TimezoneStep ==
    /\ gate = "timezone" /\ gate' = "spend_ceiling"
    /\ UNCHANGED <<Disk, Guard, feedKey, fin, Clock, Failed>>

\* decide_post_interview_redirect: an active adapter that wants a key and has
\* none opens the feed-config gate first.
SpendCeilingStep ==
    /\ gate = "spend_ceiling"
    /\ \E rapidapi \in BOOLEAN :
          gate' = IF rapidapi /\ ~feedKey THEN "feed_config" ELSE "gmail_config"
    /\ UNCHANGED <<Disk, Guard, feedKey, fin, Clock, Failed>>

\* The key that passes the live test is written into data/.env line by line;
\* one that does not, and Skip, leave the file alone.
FeedConfigStep ==
    /\ gate = "feed_config" /\ gate' = "gmail_config"
    /\ feedKey' \in {feedKey, TRUE}
    /\ UNCHANGED <<Disk, Guard, fin, Clock, Failed>>

GmailStep ==
    /\ gate = "gmail_config" /\ gate' = "connections"
    /\ UNCHANGED <<Disk, Guard, feedKey, fin, Clock, Failed>>

\* Skip, or an upload whose header is valid: the only writers of the sentinel.
ConnectionsStep ==
    /\ gate = "connections" /\ gate' = "dashboard"
    /\ sentinel' = TRUE
    /\ UNCHANGED <<Disk, guardCache, feedKey, fin, Clock, Failed>>

\* The user opens the interview again (/onboarding/?mode=rerun).
Rerun ==
    /\ gate # "interview" /\ gate' = "interview"
    /\ UNCHANGED <<Disk, Guard, feedKey, fin, Clock, Failed>>

-----------------------------------------------------------------------------
\* require_onboarding_complete, on a request for the board.
BoardServed == guardCache \/ sentinel

OpenBoard ==
    /\ BoardServed /\ ~guardCache
    /\ guardCache' = TRUE
    /\ UNCHANGED <<Disk, sentinel, Ways, fin, Clock, Failed>>

\* The web process is restarted: requests die, staged files stay behind unused.
InjectRestart ==
    /\ "kill" \in injectFaults
    /\ fin' = [f \in Finalizers |-> NoFin] /\ guardCache' = FALSE
    /\ fin # fin' \/ guardCache
    /\ UNCHANGED <<Disk, sentinel, Ways, Clock, Failed>>

InjectNext ==
    \/ \E f \in Finalizers :
          \/ FinalizeRequest(f) \/ Backup(f) \/ Stage(f) \/ Verified(f) \/ SmokeCheckFails(f)
          \/ Commit(f) \/ CommitFails(f) \/ RoutingFails(f) \/ Unlink(f) \/ MarkComplete(f)
    \/ FeedCheck \/ TimezoneStep \/ SpendCeilingStep \/ FeedConfigStep \/ GmailStep
    \/ ConnectionsStep \/ Rerun
    \/ OpenBoard \/ InjectRestart

InjectSpec == InjectInit /\ [][InjectNext]_injectVars

-----------------------------------------------------------------------------
(* A key that fails its verification has changed no file, so the retry runs
   from a clean state (injector.py:483-500). *)
FailedKeyWritesNothing ==
    \A d \in Destinations : file[d] \notin refusedKeys

(* What an attempt overwrites is in a backup, wherever it is stopped and
   whatever later attempts do: refused, failed or torn, they remove backups of
   their own (injector.py:288-315). The files that a torn attempt had replaced
   are lost with its backup (injector.py:550). One request at a time. *)
OverwrittenIsBackedUp ==
    \A p \in replaced : p[3] \notin torn => \E t \in Seconds : backups[t][p[1]] = p[2]

(* A board is served only on a complete set of required files: a first
   onboarding that was stopped half way stays behind the guard
   (onboarding_guard.py:27-43). *)
BoardMeansConfigured ==
    BoardServed => \A d \in ToSet(Required) : file[d] # Absent

(* injector.py:506-509: a re-run is enforcing, not advisory; until its gates
   are done the board is not reachable. *)
RerunIsEnforced == gate = "feed_check" => ~BoardServed
=============================================================================
