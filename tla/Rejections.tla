----------------------------- MODULE Rejections -----------------------------
(***************************************************************************)
(* What becomes of a rejection mail: classified by its markers, matched to *)
(* an application, suggested for review, and settled by the operator, who  *)
(* may have more than one request under way and a not-selected button of   *)
(* his own.                                                                *)
(***************************************************************************)
EXTENDS Naturals, FiniteSets

CONSTANTS
  Rows,       \* jobs rows
  Mails,      \* messages, by Message-ID
  Reviewers,  \* concurrent review requests
  Firm,       \* [Rows -> firm names]
  Title,      \* [Rows -> titles]
  Fits,       \* pairs of titles at or above the fuzzy threshold
  Level,      \* [titles -> sets of seniority tokens]
  Readings,   \* what a message may say: subsets of Markers
  MayKill,    \* whether the container may stop
  NoText      \* None

Firms == { Firm[j] : j \in Rows }
Titles == DOMAIN Level

Markers == {"skip", "reject", "ack", "pause"}

ASSUME RejectionsAssumption ==
  /\ Readings \subseteq SUBSET Markers
  /\ MayKill \in BOOLEAN
  /\ NoText \notin Rows \cup Firms \cup Titles
  /\ \A j \in Rows : Title[j] \in Titles

Active == {"applied", "interview", "offer"}
Handled == {"not_selected", "rejected"}

-----------------------------------------------------------------------------
(* classifier._classify_parsed.                                            *)

\* a hard skip: a personal domain, a reply, or no body; an acknowledgement
\* outweighs every marker of a rejection
IsRejection(markers) ==
  /\ markers \cap {"skip", "ack"} = {}
  /\ markers \cap {"reject", "pause"} # {}

(* matcher.match_job, over the active rows; aliases are part of the firm.  *)

BySeniority(rows, role) ==
  IF Level[role] = {} THEN rows ELSE { j \in rows : Level[Title[j]] = Level[role] }

MatchJob(rows, firm, role) ==
  LET byFirm == { j \in rows : Firm[j] = firm }
      narrowed == BySeniority({ j \in byFirm : <<Title[j], role>> \in Fits }, role)
      Sole(s) == CHOOSE j \in s : TRUE
  IN IF byFirm = {} THEN [job |-> NoText, status |-> "unmatched"]
     ELSE IF Cardinality(byFirm) = 1 THEN [job |-> Sole(byFirm), status |-> "matched"]
     ELSE IF role # NoText /\ Cardinality(narrowed) = 1
          THEN [job |-> Sole(narrowed), status |-> "matched"]
     ELSE [job |-> NoText, status |-> "ambiguous"]

-----------------------------------------------------------------------------
VARIABLES
  mail,      \* what each message says, once it was read
  queue,     \* rejection_suggestions
  stage,     \* the stage of each row
  moved,     \* history: the rows each suggestion's requests moved
  review     \* the review requests

rejVars == <<mail, queue, stage, moved, review>>

Text == [firm : Firms \cup {NoText}, role : Titles \cup {NoText}, markers : Readings]
Actions == {"pending", "confirmed", "dismissed", "reassigned"}
Absent == [action |-> "none", job |-> NoText, status |-> "unmatched"]
IdleReview == [pc |-> "idle", mail |-> NoText, job |-> NoText, as |-> "dismissed"]

RejectionsTypeOK ==
  /\ mail \in [Mails -> Text]
  /\ queue \in [Mails -> [action : Actions \cup {"none"}, job : Rows \cup {NoText},
                          status : {"matched", "ambiguous", "unmatched"}]]
  /\ stage \in [Rows -> Active \cup Handled]
  /\ moved \in [Mails -> SUBSET Rows]
  /\ review \in [Reviewers -> [pc : {"idle", "opened", "move", "mark"}, as : Actions,
                               mail : Mails \cup {NoText}, job : Rows \cup {NoText}]]

RejectionsInit ==
  /\ mail \in [Mails -> Text]
  /\ queue = [m \in Mails |-> Absent]
  /\ stage = [j \in Rows |-> "applied"]
  /\ moved = [m \in Mails |-> {}]
  /\ review = [r \in Reviewers |-> IdleReview]

ActiveRows == { j \in Rows : stage[j] \in Active }

\* a row of the same firm was closed before: nothing is left to review
Corroborated(m) == \E j \in Rows : stage[j] \in Handled /\ Firm[j] = mail[m].firm

\* main's loop over one message: INSERT OR IGNORE on the Message-ID
Suggest(m) ==
  /\ LET match == MatchJob(ActiveRows, mail[m].firm, mail[m].role)
     IN /\ IsRejection(mail[m].markers)
        /\ match.status = "unmatched" => ~Corroborated(m)
        /\ queue[m] = Absent
        /\ queue' = [queue EXCEPT ![m] =
             [action |-> "pending", job |-> match.job, status |-> match.status]]
  /\ UNCHANGED <<mail, stage, moved, review>>

-----------------------------------------------------------------------------
(* The review requests.  Each reads the suggestion, then the row, and      *)
(* writes them in two commits, both by id alone.                           *)

Open(r, m, as, j) ==
  /\ review[r].pc = "idle" /\ queue[m].action = "pending"
  /\ review' = [review EXCEPT ![r] =
       [pc |-> IF as = "dismissed" THEN "mark" ELSE "opened", mail |-> m, job |-> j, as |-> as]]
  /\ UNCHANGED <<mail, queue, stage, moved>>

Confirm(r, m) == queue[m].job # NoText /\ Open(r, m, "confirmed", queue[m].job)
Dismiss(r, m) == Open(r, m, "dismissed", NoText)
Reattribute(r, m, j) == Open(r, m, "reassigned", j)

\* mutant: a row somebody else has closed counts as moved
LoadJobOrMark(r) ==
  /\ review[r].pc = "opened"
  /\ review' = [review EXCEPT ![r].pc = IF stage[review[r].job] \in Active THEN "move" ELSE "mark"]
  /\ UNCHANGED <<mail, queue, stage, moved>>

\* 409 unless the row is still active
LoadJob(r) ==
  /\ review[r].pc = "opened"
  /\ review' = [review EXCEPT ![r] =
       IF stage[@.job] \in Active THEN [@ EXCEPT !.pc = "move"] ELSE IdleReview]
  /\ UNCHANGED <<mail, queue, stage, moved>>

\* handle_not_selected, with its own commit
MoveJob(r) ==
  /\ review[r].pc = "move"
  /\ stage' = [stage EXCEPT ![review[r].job] = "not_selected"]
  /\ moved' = [moved EXCEPT ![review[r].mail] = @ \cup {review[r].job}]
  /\ review' = [review EXCEPT ![r].pc = "mark"]
  /\ UNCHANGED <<mail, queue>>

MarkSuggestion(r) ==
  /\ review[r].pc = "mark"
  /\ queue' = [queue EXCEPT ![review[r].mail].action = review[r].as]
  /\ review' = [review EXCEPT ![r] = IdleReview]
  /\ UNCHANGED <<mail, stage, moved>>

\* the operator's own buttons: not selected, and its undo
OperatorMoves(j) ==
  /\ stage' = [stage EXCEPT ![j] = IF @ \in Active THEN "not_selected" ELSE "applied"]
  /\ UNCHANGED <<mail, queue, moved, review>>

\* the container stops
StopReview ==
  /\ MayKill
  /\ review' = [r \in Reviewers |-> IdleReview]
  /\ UNCHANGED <<mail, queue, stage, moved>>

ReviewStep(r) ==
  \/ \E m \in Mails : \/ Confirm(r, m) \/ Dismiss(r, m)
                      \/ \E j \in Rows : Reattribute(r, m, j)
  \/ LoadJob(r) \/ MoveJob(r) \/ MarkSuggestion(r)

RejectionsNext ==
  \/ \E m \in Mails : Suggest(m)
  \/ \E r \in Reviewers : ReviewStep(r)
  \/ \E j \in Rows : OperatorMoves(j)
  \/ StopReview

RejectionsSpec == RejectionsInit /\ [][RejectionsNext]_rejVars

-----------------------------------------------------------------------------
(* Properties.                                                             *)

\* A suggestion settled as confirmed or reassigned has moved a row, whoever
\* else settled it at the same time and wherever a request died.
SettledMeansMoved ==
  \A m \in Mails : queue[m].action \in {"confirmed", "reassigned"} => moved[m] # {}
=============================================================================
