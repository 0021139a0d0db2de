------------------------------ MODULE MailScan ------------------------------
(***************************************************************************)
(* The Gmail integration: the triage run's job-alert fetch, the rejection  *)
(* detector and the settings page.  All three write config/gmail_state.json*)
(* by loading the whole record, working, and saving the whole record.      *)
(***************************************************************************)
EXTENDS Naturals, FiniteSetsExt

CONSTANTS
  MaxUid,     \* bound: messages per mailbox
  Resets,     \* bound: how often the mailbox is renumbered
  MailFaults  \* the sets of circumstances an execution may meet

AllMailFaults == {"kill", "offline", "fetch_error", "mid_scan", "oneshot", "reset",
                  "login_test", "disconnect"}

ASSUME MailAssumption ==
  /\ MaxUid \in Nat /\ Resets \in Nat
  /\ MailFaults \subseteq SUBSET AllMailFaults

Uids == 1..MaxUid
Senders == {"first", "second"}   \* the allowlist, searched in order

VARIABLES
  box,        \* the INBOX: UIDVALIDITY, the messages, and how many of them a
              \* one-shot window is too short for
  mailState,  \* gmail_state.json; a missing file reads as all zeros
  connected,  \* gmail.json exists
  fetcher,    \* the triage run's Gmail adapter
  ingested,   \* alerts handed to the triage run
  detector,   \* detect_rejections
  judged,     \* rejections queued for review or found already handled
  loginTest,  \* the settings page's connection test
  mailFaults  \* the circumstances of this execution

mailVars == <<box, mailState, connected, fetcher, ingested, detector, judged, loginTest,
              mailFaults>>

State == [lastUid : 0..MaxUid, validity : 0..(Resets + 1), rejUid : 0..MaxUid,
          backlogDone : BOOLEAN]
Zero == [lastUid |-> 0, validity |-> 0, rejUid |-> 0, backlogDone |-> FALSE]
IdleFetch == [pc |-> "idle", saw |-> Zero, got |-> {}]
IdleScan == [pc |-> "idle", saw |-> Zero, mode |-> "step", todo |-> {}, upto |-> 0]

MailTypeOK ==
  /\ box \in [validity : 1..(Resets + 1), old : 0..MaxUid, top : 0..MaxUid,
              sender : [Uids -> Senders], alert : [Uids -> BOOLEAN]]
  /\ mailState \in State /\ connected \in BOOLEAN
  /\ fetcher \in [pc : {"idle", "save", "ingest"} \cup Senders, saw : State, got : SUBSET Uids]
  /\ detector \in [pc : {"idle", "judge"} \cup Senders, saw : State,
                   mode : {"step", "backlog", "oneshot"}, todo : SUBSET Uids, upto : 0..MaxUid]
  /\ ingested \subseteq Uids /\ judged \subseteq Uids
  /\ loginTest \in [on : BOOLEAN, saw : State]
  /\ mailFaults \in MailFaults

EmptyBox(v) == [validity |-> v, top |-> 0, old |-> 0,
                sender |-> [u \in Uids |-> "first"], alert |-> [u \in Uids |-> TRUE]]

MailInit ==
  /\ box = EmptyBox(1)
  /\ mailState = Zero /\ connected = TRUE
  /\ fetcher = IdleFetch /\ ingested = {}
  /\ detector = IdleScan /\ judged = {}
  /\ loginTest = [on |-> FALSE, saw |-> Zero]
  /\ mailFaults \in MailFaults

-----------------------------------------------------------------------------
(* The mailbox.                                                            *)

Present == 1..box.top
Searching == "second" \in {fetcher.pc, detector.pc}   \* one search is behind it

Arrive(s, alert) ==
  /\ box.top < MaxUid
  /\ Searching => "mid_scan" \in mailFaults
  /\ box' = [box EXCEPT !.top = @ + 1, !.sender[box.top + 1] = s, !.alert[box.top + 1] = alert]
  /\ UNCHANGED <<mailState, connected, fetcher, ingested, detector, judged, loginTest, mailFaults>>

\* time passes: a message leaves the one-shot window
GrowOld ==
  /\ "oneshot" \in mailFaults /\ box.old < box.top
  /\ box' = [box EXCEPT !.old = @ + 1]
  /\ UNCHANGED <<mailState, connected, fetcher, ingested, detector, judged, loginTest, mailFaults>>

\* a server-side reset, or another account saved: uids start again
ResetMailbox ==
  /\ "reset" \in mailFaults /\ box.validity <= Resets
  /\ fetcher.pc = "idle" /\ detector.pc = "idle"
  /\ box' = EmptyBox(box.validity + 1)
  /\ ingested' = {} /\ judged' = {}
  /\ UNCHANGED <<mailState, connected, fetcher, detector, loginTest, mailFaults>>

\* SEARCH UID n:* answers with the newest message even when it is below n
Beyond(n) == { u \in Present : u > n \/ u = box.top }

\* SEARCH FROM s, then one FETCH each; a FETCH that is not OK is passed over
Found(s, window, alert) ==
  LET found == { u \in window : box.sender[u] = s /\ box.alert[u] = alert }
  IN IF "fetch_error" \in mailFaults THEN SUBSET found ELSE {found}

Highest(start, uids) == Max({start} \cup uids)

-----------------------------------------------------------------------------
(* The Gmail adapter: load, search each sender, save, and only then hand   *)
(* the jobs to the triage run.                                             *)

LoadForAlerts ==
  /\ fetcher.pc = "idle" /\ connected
  /\ fetcher' = [pc |-> "first", saw |-> mailState, got |-> {}]
  /\ UNCHANGED <<box, mailState, connected, ingested, detector, judged, loginTest, mailFaults>>

\* by date when the UIDVALIDITY is not the one on file, else by uid
AlertWindow ==
  IF fetcher.saw.validity # box.validity THEN Present ELSE Beyond(fetcher.saw.lastUid)

SearchAlerts(s, next) ==
  /\ fetcher.pc = s
  /\ \E found \in Found(s, AlertWindow, TRUE) :
       fetcher' = [fetcher EXCEPT !.pc = next, !.got = @ \cup found]
  /\ UNCHANGED <<box, mailState, connected, ingested, detector, judged, loginTest, mailFaults>>

SaveAlerts ==
  /\ fetcher.pc = "save"
  /\ mailState' = [fetcher.saw EXCEPT !.lastUid = Highest(@, fetcher.got),
                                      !.validity = box.validity]
  /\ fetcher' = [IdleFetch EXCEPT !.pc = "ingest", !.got = fetcher.got]
  /\ UNCHANGED <<box, connected, ingested, detector, judged, loginTest, mailFaults>>

IngestAlerts ==
  /\ fetcher.pc = "ingest"
  /\ ingested' = ingested \cup fetcher.got
  /\ fetcher' = IdleFetch
  /\ UNCHANGED <<box, mailState, connected, detector, judged, loginTest, mailFaults>>

\* a refused login saves the failure streak, a lost connection saves nothing
FetchOffline ==
  /\ "offline" \in mailFaults /\ fetcher.pc \in Senders
  /\ mailState' \in {mailState, fetcher.saw}
  /\ fetcher' = IdleFetch
  /\ UNCHANGED <<box, connected, ingested, detector, judged, loginTest, mailFaults>>

-----------------------------------------------------------------------------
(* The rejection detector.                                                 *)

LoadForScan(mode) ==
  /\ detector.pc = "idle" /\ connected
  /\ IF mode = "oneshot" THEN "oneshot" \in mailFaults
     ELSE mode = IF mailState.backlogDone THEN "step" ELSE "backlog"
  /\ detector' = [pc |-> "first", saw |-> mailState, mode |-> mode, todo |-> {},
                  upto |-> mailState.rejUid]
  /\ UNCHANGED <<box, mailState, connected, fetcher, ingested, judged, loginTest, mailFaults>>

\* the backlog window holds every message, a one-shot window the newer ones;
\* here nobody asks whether the UIDVALIDITY is the one on file
ScanWindow ==
  CASE detector.mode = "backlog" -> Present
    [] detector.mode = "oneshot" -> { u \in Present : u > box.old }
    [] OTHER -> Beyond(detector.saw.rejUid)

SearchRejections(s, next) ==
  /\ detector.pc = s
  /\ \E found \in Found(s, ScanWindow, FALSE) :
       detector' = [detector EXCEPT !.pc = next, !.todo = @ \cup found,
                                    !.upto = Highest(@, found)]
  /\ UNCHANGED <<box, mailState, connected, fetcher, ingested, judged, loginTest, mailFaults>>

ScanOffline ==
  /\ "offline" \in mailFaults /\ detector.pc \in Senders
  /\ detector' = IdleScan
  /\ UNCHANGED <<box, mailState, connected, fetcher, ingested, judged, loginTest, mailFaults>>

\* classify, match, and commit a suggestion or log a corroboration, message
\* by message; a message suggested before is ignored
Judge(u) ==
  /\ detector.pc = "judge" /\ u \in detector.todo
  /\ judged' = judged \cup {u}
  /\ detector' = [detector EXCEPT !.todo = @ \ {u}]
  /\ UNCHANGED <<box, mailState, connected, fetcher, ingested, loginTest, mailFaults>>

\* mutant: the checkpoint is saved while messages wait for their judgement
SaveScanEarly ==
  /\ detector.pc = "judge"
  /\ mailState' = [detector.saw EXCEPT !.rejUid = detector.upto, !.backlogDone = TRUE]
  /\ IF detector.todo = {} THEN detector' = IdleScan ELSE UNCHANGED detector
  /\ UNCHANGED <<box, connected, fetcher, ingested, judged, loginTest, mailFaults>>

\* the checkpoint only goes up, and a first scan of any mode is the backlog
\* scan; nothing is written when neither changed
SaveScan ==
  /\ detector.pc = "judge" /\ detector.todo = {}
  /\ mailState' = IF detector.upto > detector.saw.rejUid \/ ~detector.saw.backlogDone
                  THEN [detector.saw EXCEPT !.rejUid = detector.upto, !.backlogDone = TRUE]
                  ELSE mailState
  /\ detector' = IdleScan
  /\ UNCHANGED <<box, connected, fetcher, ingested, judged, loginTest, mailFaults>>

-----------------------------------------------------------------------------
(* The settings page.                                                      *)

\* _run_imap_test changes no checkpoint, but it writes back all of them
LoadForTest ==
  /\ "login_test" \in mailFaults /\ connected /\ ~loginTest.on
  /\ loginTest' = [on |-> TRUE, saw |-> mailState]
  /\ UNCHANGED <<box, mailState, connected, fetcher, ingested, detector, judged, mailFaults>>

SaveTest ==
  /\ loginTest.on
  /\ mailState' = loginTest.saw
  /\ loginTest' = [on |-> FALSE, saw |-> Zero]
  /\ UNCHANGED <<box, connected, fetcher, ingested, detector, judged, mailFaults>>

\* both files go, whoever is at work
Disconnect ==
  /\ "disconnect" \in mailFaults /\ connected /\ connected' = FALSE
  /\ mailState' = Zero
  /\ UNCHANGED <<box, fetcher, ingested, detector, judged, loginTest, mailFaults>>

SaveGmailConfig ==
  /\ ~connected /\ connected' = TRUE
  /\ UNCHANGED <<box, mailState, fetcher, ingested, detector, judged, loginTest, mailFaults>>

\* the container stops
RestartMail ==
  /\ "kill" \in mailFaults
  /\ fetcher' = IdleFetch /\ detector' = IdleScan
  /\ loginTest' = [on |-> FALSE, saw |-> Zero]
  /\ UNCHANGED <<box, mailState, connected, ingested, judged, mailFaults>>

-----------------------------------------------------------------------------
MailNext ==
  \/ \E s \in Senders, alert \in BOOLEAN : Arrive(s, alert)
  \/ GrowOld \/ ResetMailbox
  \/ LoadForAlerts \/ SearchAlerts("first", "second") \/ SearchAlerts("second", "save")
  \/ SaveAlerts \/ IngestAlerts \/ FetchOffline
  \/ \E mode \in {"step", "backlog", "oneshot"} : LoadForScan(mode)
  \/ SearchRejections("first", "second") \/ SearchRejections("second", "judge")
  \/ \E u \in Uids : Judge(u)
  \/ SaveScan \/ ScanOffline
  \/ LoadForTest \/ SaveTest \/ Disconnect \/ SaveGmailConfig \/ RestartMail

MailSpec == MailInit /\ [][MailNext]_mailVars

-----------------------------------------------------------------------------
(* Properties.                                                             *)

\* No mail is left behind a checkpoint: whatever the three writers of
\* gmail_state.json overwrite of each other, and wherever a scan dies, a
\* rejection at or below rejection_last_uid has been judged; and short of a
\* process that dies with the jobs in its hands, an alert at or below last_uid
\* is with its fetcher or ingested.
CheckpointsAreProcessed ==
  \A u \in Present :
    /\ /\ mailFaults \subseteq {"kill", "offline", "login_test", "disconnect"}
       /\ ~box.alert[u] /\ u <= mailState.rejUid
       => u \in judged
    /\ /\ mailFaults \subseteq {"offline", "login_test", "disconnect"}
       /\ box.alert[u] /\ u <= mailState.lastUid
       => u \in ingested \cup fetcher.got

\* gmail_imap.py:342 says "State is still advanced to the highest UID found so
\* the next incremental run picks up only new messages": a checkpoint that
\* carries the mailbox's UIDVALIDITY is one of its uids.
CheckpointInMailbox ==
  mailState.validity = box.validity => mailState.lastUid <= box.top

\* detect_rejections.py:87 says "One-shot mode does NOT mutate
\* rejection_backlog_scan_complete".
OneShotKeepsBacklog ==
  [][detector.mode = "oneshot" /\ detector.pc = "judge" /\ detector'.pc = "idle"
     /\ mailState'.backlogDone => mailState.backlogDone]_mailVars
=============================================================================
