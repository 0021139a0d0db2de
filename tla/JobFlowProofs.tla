---------------------------- MODULE JobFlowProofs ----------------------------
(* What holds of the jobs rows moved from outside the board.  The review of     *)
(* rejection mails: no suggestion is settled without a row having been moved.   *)
(* The intake: no opening is on the books twice, no decision is undone.  For    *)
(* any rows, messages, reviewers, forms and faults.                             *)
EXTENDS MCJobFlow, FiniteSetTheorems, TLAPS

(* A request under way names its message, and its row unless it dismisses.      *)
NamesItsMail ==
  \A r \in Reviewers :
    /\ review[r].pc # "idle" => review[r].mail \in Mails
    /\ review[r].pc \in {"opened", "move"} => review[r].job \in Rows

ReviewTypes == RejectionsTypeOK /\ NamesItsMail

(* A request that is to settle a suggestion other than by dismissing it has      *)
(* moved a row for it.                                                           *)
MovedFirst ==
  \A r \in Reviewers : review[r].pc = "mark" /\ review[r].as # "dismissed"
                         => moved[review[r].mail] # {}

ReviewInv == ReviewTypes /\ MovedFirst /\ SettledMeansMoved

Request == [pc : {"idle", "opened", "move", "mark"}, as : Actions,
                mail : Mails \cup {NoText}, job : Rows \cup {NoText}]
Entry == [action : Actions \cup {"none"}, job : Rows \cup {NoText},
          status : {"matched", "ambiguous", "unmatched"}]

-----------------------------------------------------------------------------
\* Whatever the firm, the role and the rows, a match is one of the rows or none.
LEMMA MatchIsTyped ==
  ASSUME NEW rows \in SUBSET Rows, NEW firm, NEW role
  PROVE  /\ MatchJob(rows, firm, role).job \in Rows \cup {NoText}
         /\ MatchJob(rows, firm, role).status \in {"matched", "ambiguous", "unmatched"}
<1> DEFINE byFirm == { j \in rows : Firm[j] = firm }
           narrowed == BySeniority({ j \in byFirm : <<Title[j], role>> \in Fits }, role)
           Sole(s) == CHOOSE j \in s : TRUE
<1>1. byFirm # {} => Sole(byFirm) \in Rows
  OBVIOUS
<1>2. narrowed \subseteq Rows
  BY DEF BySeniority
<1>3. Cardinality(narrowed) = 1 => Sole(narrowed) \in Rows
  <2> HIDE DEF narrowed
  <2>1. Cardinality(narrowed) = 1 => narrowed # {}
    BY FS_EmptySet
  <2> QED BY <1>2, <2>1
<1>4. MatchJob(rows, firm, role) \in
        {[job |-> NoText, status |-> "unmatched"], [job |-> NoText, status |-> "ambiguous"]}
        \cup (IF byFirm # {} THEN {[job |-> Sole(byFirm), status |-> "matched"]} ELSE {})
        \cup (IF Cardinality(narrowed) = 1 THEN {[job |-> Sole(narrowed), status |-> "matched"]}
              ELSE {})
  BY DEF MatchJob
<1> HIDE DEF byFirm, narrowed, Sole
<1> QED BY <1>1, <1>3, <1>4

-----------------------------------------------------------------------------
\* The types hold at first.
LEMMA InitIsTyped ==
  ASSUME RejectionsInit PROVE ReviewTypes
BY DEF RejectionsInit, ReviewTypes, RejectionsTypeOK, NamesItsMail, Absent, IdleReview, Actions,
       Active

\* A reviewer who takes another step, typed, keeps the requests typed.
LEMMA RequestIsTyped ==
  ASSUME ReviewTypes, NEW r \in Reviewers, NEW next \in Request,
         next.pc # "idle" => next.mail \in Mails,
         next.pc \in {"opened", "move"} => next.job \in Rows,
         review' = [review EXCEPT ![r] = next]
  PROVE  review' \in [Reviewers -> Request] /\ NamesItsMail'
BY DEF ReviewTypes, RejectionsTypeOK, NamesItsMail, Request

\* Every action preserves the types.
LEMMA NextIsTyped ==
  ASSUME ReviewTypes, [RejectionsNext]_rejVars
  PROVE  ReviewTypes'
<1> IdleReview \in Request
  BY DEF IdleReview, Request, Actions
<1> review \in [Reviewers -> Request] /\ queue \in [Mails -> Entry]
  BY DEF ReviewTypes, RejectionsTypeOK, Request, Entry
<1>1. ASSUME NEW m \in Mails, Suggest(m)
      PROVE  ReviewTypes'
  <2> DEFINE match == MatchJob(ActiveRows, mail[m].firm, mail[m].role)
             entry == [action |-> "pending", job |-> match.job, status |-> match.status]
  <2>1. entry \in Entry
    BY MatchIsTyped DEF ActiveRows, Entry, Actions
  <2>2. queue' = [queue EXCEPT ![m] = entry] /\ UNCHANGED <<mail, stage, moved, review>>
    BY <1>1 DEF Suggest
  <2> HIDE DEF entry
  <2>3. queue' \in [Mails -> Entry]
    BY <2>1, <2>2
  <2> QED BY <2>2, <2>3 DEF ReviewTypes, RejectionsTypeOK, NamesItsMail, Entry
<1>2. ASSUME NEW r \in Reviewers, NEW m \in Mails,
             NEW as \in Actions, NEW j \in Rows \cup {NoText},
             as # "dismissed" => j \in Rows, Open(r, m, as, j)
      PROVE  ReviewTypes'
  <2> DEFINE next == [pc |-> IF as = "dismissed" THEN "mark" ELSE "opened",
                      mail |-> m, job |-> j, as |-> as]
  <2>1. next \in Request
    BY DEF Request
  <2>2. next.pc \in {"opened", "move"} => next.job \in Rows
    BY <1>2
  <2>3. review' = [review EXCEPT ![r] = next] /\ UNCHANGED <<mail, queue, stage, moved>>
    BY <1>2 DEF Open
  <2>4. review' \in [Reviewers -> Request] /\ NamesItsMail'
    BY <2>1, <2>2, <2>3, RequestIsTyped
  <2> QED BY <2>3, <2>4 DEF ReviewTypes, RejectionsTypeOK, Request
<1>3. ASSUME NEW r \in Reviewers, LoadJob(r)
      PROVE  ReviewTypes'
  <2> DEFINE next == IF stage[review[r].job] \in Active THEN [review[r] EXCEPT !.pc = "move"]
                     ELSE IdleReview
  <2>1. review[r].pc = "opened" /\ review[r].mail \in Mails /\ review[r].job \in Rows
    BY <1>3 DEF LoadJob, ReviewTypes, NamesItsMail
  <2>2. next \in Request
    BY <2>1 DEF Request
  <2>3. /\ next.pc # "idle" => next.mail \in Mails
        /\ next.pc \in {"opened", "move"} => next.job \in Rows
    BY <2>1 DEF IdleReview, Request
  <2>4. review' = [review EXCEPT ![r] = next] /\ UNCHANGED <<mail, queue, stage, moved>>
    BY <1>3 DEF LoadJob
  <2> HIDE DEF next
  <2>5. review' \in [Reviewers -> Request] /\ NamesItsMail'
    BY <2>2, <2>3, <2>4, RequestIsTyped
  <2> QED BY <2>4, <2>5 DEF ReviewTypes, RejectionsTypeOK, Request
<1>4. ASSUME NEW r \in Reviewers, MoveJob(r)
      PROVE  ReviewTypes'
  <2> DEFINE next == [review[r] EXCEPT !.pc = "mark"]
  <2>1. review[r].pc = "move" /\ review[r].mail \in Mails /\ review[r].job \in Rows
    BY <1>4 DEF MoveJob, ReviewTypes, NamesItsMail
  <2>2. next \in Request /\ next.pc = "mark" /\ next.mail \in Mails
    BY <2>1 DEF Request
  <2>3. review' = [review EXCEPT ![r] = next]
    BY <1>4 DEF MoveJob
  <2> HIDE DEF next
  <2>4. review' \in [Reviewers -> Request] /\ NamesItsMail'
    BY <2>2, <2>3, RequestIsTyped
  <2>5. stage' \in [Rows -> Active \cup Handled] /\ moved' \in [Mails -> SUBSET Rows]
    BY <1>4, <2>1 DEF MoveJob, ReviewTypes, RejectionsTypeOK, Handled
  <2> QED BY <1>4, <2>4, <2>5 DEF MoveJob, ReviewTypes, RejectionsTypeOK, Request
<1>5. ASSUME NEW r \in Reviewers, MarkSuggestion(r)
      PROVE  ReviewTypes'
  <2> DEFINE m == review[r].mail
             entry == [queue[m] EXCEPT !.action = review[r].as]
  <2>1. m \in Mails
    BY <1>5 DEF MarkSuggestion, ReviewTypes, NamesItsMail
  <2>2. entry \in Entry
    BY <2>1 DEF Entry, Request
  <2>3. queue' = [queue EXCEPT ![m] = entry]
    BY <1>5 DEF MarkSuggestion
  <2>4. queue' \in [Mails -> Entry]
    BY <2>1, <2>2, <2>3
  <2>5. review' \in [Reviewers -> Request] /\ NamesItsMail'
    BY <1>5, RequestIsTyped DEF MarkSuggestion, IdleReview
  <2> QED BY <1>5, <2>4, <2>5 DEF MarkSuggestion, ReviewTypes, RejectionsTypeOK, Request, Entry
<1>6. ASSUME NEW j \in Rows, OperatorMoves(j)
      PROVE  ReviewTypes'
  BY <1>6 DEF OperatorMoves, ReviewTypes, RejectionsTypeOK, NamesItsMail, Active, Handled
<1>7. CASE StopReview
  BY <1>7 DEF StopReview, ReviewTypes, RejectionsTypeOK, NamesItsMail, IdleReview, Request
<1>8. CASE UNCHANGED rejVars
  BY <1>8 DEF rejVars, ReviewTypes, RejectionsTypeOK, NamesItsMail
<1>9. ASSUME NEW r \in Reviewers, NEW m \in Mails, Confirm(r, m)
      PROVE  ReviewTypes'
  <2>1. queue[m].job \in Rows
    BY <1>9 DEF Confirm, Entry
  <2> QED BY <1>2, <1>9, <2>1 DEF Confirm, Actions
<1>10. ASSUME NEW r \in Reviewers, NEW m \in Mails, Dismiss(r, m)
       PROVE  ReviewTypes'
  BY <1>2, <1>10 DEF Dismiss, Actions
<1>11. ASSUME NEW r \in Reviewers, NEW m \in Mails, NEW j \in Rows, Reattribute(r, m, j)
       PROVE  ReviewTypes'
  BY <1>2, <1>11 DEF Reattribute, Actions
<1> QED
  BY <1>1, <1>3, <1>4, <1>5, <1>6, <1>7, <1>8, <1>9, <1>10, <1>11
     DEF RejectionsNext, ReviewStep

-----------------------------------------------------------------------------
\* Every action preserves that rows are moved first.
LEMMA NextMovesFirst ==
  ASSUME ReviewInv, ReviewTypes', [RejectionsNext]_rejVars
  PROVE  MovedFirst' /\ SettledMeansMoved'
<1> ReviewTypes /\ MovedFirst /\ SettledMeansMoved
  BY DEF ReviewInv
<1> review \in [Reviewers -> Request] /\ queue \in [Mails -> Entry]
  BY DEF ReviewTypes, RejectionsTypeOK, Request, Entry
<1>1. ASSUME NEW m \in Mails, Suggest(m)
      PROVE  MovedFirst' /\ SettledMeansMoved'
  BY <1>1 DEF Suggest, MovedFirst, SettledMeansMoved
<1>2. ASSUME NEW r \in Reviewers, NEW m \in Mails, NEW as, NEW j, Open(r, m, as, j)
      PROVE  MovedFirst' /\ SettledMeansMoved'
  BY <1>2 DEF Open, MovedFirst, SettledMeansMoved
<1>3. ASSUME NEW r \in Reviewers, LoadJob(r)
      PROVE  MovedFirst' /\ SettledMeansMoved'
  <2>1. \A s \in Reviewers : review'[s].pc = "mark" => review'[s] = review[s]
    BY <1>3 DEF LoadJob, IdleReview, Request
  <2> QED BY <1>3, <2>1 DEF LoadJob, MovedFirst, SettledMeansMoved
<1>4. ASSUME NEW r \in Reviewers, MoveJob(r)
      PROVE  MovedFirst' /\ SettledMeansMoved'
  <2>1. \A m \in Mails : moved[m] # {} => moved'[m] # {}
    BY <1>4 DEF MoveJob, ReviewTypes, RejectionsTypeOK
  <2>2. review[r].mail \in Mails /\ moved'[review[r].mail] # {}
    BY <1>4 DEF MoveJob, ReviewTypes, RejectionsTypeOK, NamesItsMail
  <2>3. \A s \in Reviewers : s # r => review'[s] = review[s]
    BY <1>4 DEF MoveJob
  <2>4. review'[r].mail = review[r].mail
    BY <1>4 DEF MoveJob, Request
  <2>5. MovedFirst'
    BY <2>1, <2>2, <2>3, <2>4 DEF MovedFirst, ReviewTypes, NamesItsMail
  <2> QED BY <1>4, <2>1, <2>5 DEF MoveJob, SettledMeansMoved
<1>5. ASSUME NEW r \in Reviewers, MarkSuggestion(r)
      PROVE  MovedFirst' /\ SettledMeansMoved'
  <2>1. \A m \in Mails : m # review[r].mail => queue'[m] = queue[m]
    BY <1>5 DEF MarkSuggestion
  <2>2. review[r].as # "dismissed" => moved[review[r].mail] # {}
    BY <1>5 DEF MarkSuggestion, MovedFirst
  <2>3. review[r].mail \in Mails => queue'[review[r].mail].action = review[r].as
    BY <1>5 DEF MarkSuggestion, Entry
  <2>4. SettledMeansMoved'
    BY <1>5, <2>1, <2>2, <2>3 DEF MarkSuggestion, SettledMeansMoved
  <2> QED BY <1>5, <2>4 DEF MarkSuggestion, MovedFirst, IdleReview
<1>6. ASSUME NEW j \in Rows, OperatorMoves(j)
      PROVE  MovedFirst' /\ SettledMeansMoved'
  BY <1>6 DEF OperatorMoves, MovedFirst, SettledMeansMoved
<1>7. CASE StopReview
  BY <1>7 DEF StopReview, MovedFirst, SettledMeansMoved, IdleReview
<1>8. CASE UNCHANGED rejVars
  BY <1>8 DEF rejVars, MovedFirst, SettledMeansMoved
<1> QED
  BY <1>1, <1>2, <1>3, <1>4, <1>5, <1>6, <1>7, <1>8
     DEF RejectionsNext, ReviewStep, Confirm, Dismiss, Reattribute

-----------------------------------------------------------------------------
\* Every reachable state has the declared types, for any rows and messages.
THEOREM ReviewTypeCorrect == RejectionsSpec => []RejectionsTypeOK
<1>1. RejectionsInit => ReviewTypes
  BY InitIsTyped
<1>2. ReviewTypes /\ [RejectionsNext]_rejVars => ReviewTypes'
  BY NextIsTyped
<1>3. ReviewTypes => RejectionsTypeOK
  BY DEF ReviewTypes
<1> QED BY <1>1, <1>2, <1>3, PTL DEF RejectionsSpec

\* A suggestion settled as confirmed or reassigned has moved a row, whoever else
\* settled it meanwhile and wherever requests were cut off
\* (web/routes/rejections_review.py:160-200).
THEOREM SettledIsMoved == RejectionsSpec => []SettledMeansMoved
<1>1. RejectionsInit => ReviewInv
  BY InitIsTyped
     DEF RejectionsInit, ReviewInv, MovedFirst, SettledMeansMoved, IdleReview, Absent
<1>2. ReviewInv /\ [RejectionsNext]_rejVars => ReviewInv'
  BY NextIsTyped, NextMovesFirst DEF ReviewInv
<1>3. ReviewInv => SettledMeansMoved
  BY DEF ReviewInv
<1> QED BY <1>1, <1>2, <1>3, PTL DEF RejectionsSpec

(***************************************************************************)
(* The intake of postings: one live row per opening, and no decision of    *)
(* the operator undone by what works on rows the board does not show yet.  *)
(***************************************************************************)

Posting == [stage : {"free", "discovered", "enriched"} \cup Visible \cup Decided,
            key : Key, dupe : BOOLEAN, score : {"null", "llm", "eight"}]
Run == [pc : {"idle"} \cup TriagePcs, real : Key, key : Key,
        row : RowIds \cup {NoRow}, todo : SUBSET RowIds]
Submission == [pc : {"idle", "insert", "resurface"}, key : Key, row : RowIds \cup {NoRow}]

\* where the run has a row in its hands
InHand == {"resolve", "enrich", "advanced"}

(* Rows are filled in order; what a run or a form holds is a row, and what the  *)
(* run is about to enrich or to score is not on the board.                      *)
RowsInHand ==
  /\ \E n \in 0..MaxRows : Used = 1..n
  /\ triage.todo \subseteq Used
  /\ triage.pc \in InHand => triage.row \in Used
  /\ triage.pc \in {"resolve", "enrich"} => jobs[triage.row].stage = "discovered"
  /\ triage.pc = "advanced" => jobs[triage.row].stage = "enriched"
  /\ triage.pc = "score" => \A r \in triage.todo : jobs[r].stage = "enriched"
  /\ \A f \in Forms : form[f].pc = "resurface" => form[f].row \in Used

(* Who has looked a posting up and is about to insert it is alone, and still    *)
(* right that it is new.                                                        *)
OneInserts ==
  /\ \A f \in Forms : form[f].pc = "insert" =>
       /\ Twins(form[f].key, Used) = {} /\ triage.pc # "insert"
       /\ \A g \in Forms : form[g].pc = "insert" => g = f
  /\ triage.pc = "insert" => Twins(triage.key, Used) = {}

TwinFree ==
  \A r1, r2 \in Used : r1 # r2 /\ Same(jobs[r1].key, jobs[r2].key) => jobs[r1].dupe \/ jobs[r2].dupe

IntakeInv ==
  /\ IntakeTypeOK /\ RowsInHand
  /\ "race" \notin intakeFaults => OneInserts /\ TwinFree

-----------------------------------------------------------------------------
\* The shapes, by name, before and after a step.
LEMMA IntakeShapes ==
  /\ IntakeTypeOK <=> /\ jobs \in [RowIds -> Posting] /\ triage \in Run
                      /\ form \in [Forms -> Submission] /\ surfaced \subseteq RowIds
                      /\ kills \in 0..MaxKills /\ intakeFaults \in IntakeFaults
  /\ IntakeTypeOK' <=> /\ jobs' \in [RowIds -> Posting] /\ triage' \in Run
                       /\ form' \in [Forms -> Submission] /\ surfaced' \subseteq RowIds
                       /\ kills' \in 0..MaxKills /\ intakeFaults' \in IntakeFaults
BY DEF IntakeTypeOK, Posting, Run, Submission

\* Some key stands for none.
LEMMA SomeKey == AnyKey \in Key
<1>1. [role |-> Blurred, loc |-> "coarse"] \in Key
  BY DEF Key, Locations
<1> QED BY <1>1 DEF AnyKey

\* A run that rests, and a form that does, have their shapes.
LEMMA RestingShapes == IdleTriage(AnyKey) \in Run /\ IdleForm \in Submission /\ Free \in Posting
BY SomeKey DEF IdleTriage, IdleForm, Free, Run, Submission, Posting, TriagePcs

\* The next free row, if there is one, comes after the last.
LEMMA NextRowIsFree ==
  ASSUME NEW n \in 0..MaxRows, Used = 1..n
  PROVE  Next1 = n + 1
<1>1. n \in Nat /\ MaxRows \in Nat
  BY IntakeAssumption
<1>2. Cardinality(1..n) = n
  <2>1. 1 \in Int /\ n \in Int
    BY <1>1
  <2>2. Cardinality(1..n) = IF 1 > n THEN 0 ELSE n - 1 + 1
    BY <2>1, FS_Interval
  <2> QED BY <1>1, <2>2
<1> QED BY <1>2 DEF Next1

\* A row in use is rewritten: if it keeps its key and its mark, so do the twins.
LEMMA RowIsRewritten ==
  ASSUME IntakeInv, NEW r \in Used, NEW row \in Posting, row.stage # "free",
         jobs' = [jobs EXCEPT ![r] = row]
  PROVE  /\ jobs' \in [RowIds -> Posting] /\ Used' = Used /\ r \in RowIds
         /\ jobs'[r] = row /\ \A q \in RowIds \ {r} : jobs'[q] = jobs[q]
         /\ row.key = jobs[r].key /\ (jobs[r].dupe => row.dupe) =>
              /\ TwinFree => TwinFree'
              /\ \A k : Twins(k, Used) = {} => Twins(k, Used)' = {}
<1>1. jobs \in [RowIds -> Posting] /\ r \in RowIds
  BY IntakeShapes DEF IntakeInv, Used
<1>2. /\ jobs' \in [RowIds -> Posting]
      /\ jobs'[r] = row /\ \A q \in RowIds \ {r} : jobs'[q] = jobs[q]
  BY <1>1
<1>3. Used' = Used
  BY <1>1, <1>2 DEF Used
<1>4. ASSUME row.key = jobs[r].key, jobs[r].dupe => row.dupe
      PROVE  /\ TwinFree => TwinFree'
             /\ \A k : Twins(k, Used) = {} => Twins(k, Used)' = {}
  <2>1. \A q \in RowIds : jobs'[q].key = jobs[q].key /\ (jobs[q].dupe => jobs'[q].dupe)
    BY <1>2, <1>4
  <2>2. Used \subseteq RowIds
    BY DEF Used
  <2>3. TwinFree => TwinFree'
    BY <1>3, <2>1, <2>2 DEF TwinFree
  <2>4. ASSUME NEW k, Twins(k, Used) = {} PROVE Twins(k, Used)' = {}
    BY <1>3, <2>1, <2>2, <2>4 DEF Twins
  <2> QED BY <2>3, <2>4
<1> QED BY <1>1, <1>2, <1>3, <1>4

\* A free row is filled with an opening none of the others is.
LEMMA RowIsAdded ==
  ASSUME IntakeInv, Next1 \in RowIds, NEW row \in Posting, row.stage # "free",
         jobs' = [jobs EXCEPT ![Next1] = row]
  PROVE  /\ jobs' \in [RowIds -> Posting] /\ Used' = Used \cup {Next1} /\ Next1 \notin Used
         /\ \E n \in 0..MaxRows : Used' = 1..n
         /\ jobs'[Next1] = row /\ \A q \in Used : jobs'[q] = jobs[q]
         /\ TwinFree /\ Twins(row.key, Used) = {} => TwinFree'
<1> DEFINE next == Next1
<1>1. jobs \in [RowIds -> Posting] /\ Used \subseteq RowIds
  BY IntakeShapes DEF IntakeInv, Used
<1>2. PICK n \in 0..MaxRows : Used = 1..n
  BY DEF IntakeInv, RowsInHand
<1>3. next = n + 1 /\ next \in 1..MaxRows /\ n \in Nat /\ MaxRows \in Nat
  BY <1>2, NextRowIsFree, IntakeAssumption DEF RowIds
<1> HIDE DEF next
<1>4. next \notin Used /\ Used \cup {next} = 1..next /\ next \in 0..MaxRows
  BY <1>2, <1>3
<1>5. /\ jobs' \in [RowIds -> Posting]
      /\ jobs'[next] = row /\ \A q \in RowIds \ {next} : jobs'[q] = jobs[q]
  BY <1>1 DEF next
<1>6. Used' = Used \cup {next}
  <2>1. next \in RowIds
    BY DEF next
  <2> QED BY <1>1, <1>5, <2>1 DEF Used
<1>7. \A q \in Used : jobs'[q] = jobs[q]
  BY <1>1, <1>4, <1>5
<1>8. ASSUME TwinFree, Twins(row.key, Used) = {} PROVE TwinFree'
  <2>1. \A q \in Used : ~Same(jobs[q].key, row.key)
    BY <1>8 DEF Twins
  <2>2. \A q \in Used : ~Same(row.key, jobs[q].key)
    BY <2>1 DEF Same
  <2> SUFFICES ASSUME NEW r1 \in Used', NEW r2 \in Used', r1 # r2, Same(jobs'[r1].key, jobs'[r2].key)
               PROVE  jobs'[r1].dupe \/ jobs'[r2].dupe
    BY DEF TwinFree, Same
  <2>3. CASE r1 \in Used /\ r2 \in Used
    BY <1>7, <1>8, <2>3 DEF TwinFree
  <2>4. CASE r1 = next \/ r2 = next
    BY <1>5, <1>6, <1>7, <2>1, <2>2, <2>4
  <2> QED BY <1>6, <2>3, <2>4
<1> QED BY <1>4, <1>5, <1>6, <1>7, <1>8 DEF next

-----------------------------------------------------------------------------
\* The run goes on, with the table as it is.
LEMMA RunGoesOn ==
  ASSUME IntakeInv, NEW next \in Run, triage' = next, UNCHANGED <<jobs, form, intakeFaults>>,
         kills' \in 0..MaxKills, surfaced' \subseteq RowIds,
         next.todo \subseteq Used, next.pc \notin InHand,
         next.pc = "score" => \A r \in next.todo : jobs[r].stage = "enriched",
         next.pc = "insert" /\ "race" \notin intakeFaults =>
           Twins(next.key, Used) = {} /\ \A f \in Forms : form[f].pc # "insert"
  PROVE  IntakeInv'
<1>1. IntakeTypeOK'
  BY IntakeShapes DEF IntakeInv
<1>2. Used' = Used
  BY DEF Used
<1>3. RowsInHand'
  BY <1>2 DEF IntakeInv, RowsInHand, InHand
<1>4. ASSUME "race" \notin intakeFaults PROVE (OneInserts /\ TwinFree)'
  BY <1>2, <1>4 DEF IntakeInv, OneInserts, TwinFree, Twins, Same
<1> QED BY <1>1, <1>3, <1>4 DEF IntakeInv

\* The run goes on and has rewritten a row, whose key and mark stay.
LEMMA RunRewritesRow ==
  ASSUME IntakeInv, NEW r \in Used, NEW row \in Posting, row.stage # "free",
         row.key = jobs[r].key, jobs[r].dupe => row.dupe,
         jobs' = [jobs EXCEPT ![r] = row], NEW next \in Run, triage' = next,
         UNCHANGED <<form, surfaced, kills, intakeFaults>>,
         next.todo \subseteq Used, next.pc # "insert",
         next.pc \in InHand => next.pc = "advanced" /\ next.row = r /\ row.stage = "enriched",
         next.pc = "score" => \A q \in next.todo : q # r /\ jobs[q].stage = "enriched"
  PROVE  IntakeInv'
<1>1. /\ jobs' \in [RowIds -> Posting] /\ Used' = Used /\ r \in RowIds
      /\ jobs'[r] = row /\ \A q \in RowIds \ {r} : jobs'[q] = jobs[q]
      /\ TwinFree => TwinFree'
      /\ \A k : Twins(k, Used) = {} => Twins(k, Used)' = {}
  BY RowIsRewritten
<1>2. IntakeTypeOK'
  BY <1>1, IntakeShapes DEF IntakeInv
<1>3. Used \subseteq RowIds
  BY DEF Used
<1>4. RowsInHand'
  BY <1>1, <1>3 DEF IntakeInv, RowsInHand, InHand
<1>5. ASSUME "race" \notin intakeFaults PROVE (OneInserts /\ TwinFree)'
  <2>1. OneInserts'
    BY <1>1, <1>5 DEF IntakeInv, OneInserts
  <2> QED BY <1>1, <1>5, <2>1 DEF IntakeInv
<1> QED BY <1>2, <1>4, <1>5 DEF IntakeInv

-----------------------------------------------------------------------------
\* The postings are taken and inserted.
LEMMA InsertKeeps ==
  ASSUME IntakeInv, InsertDiscovered
  PROVE  IntakeInv'
<1>1. /\ triage.pc = "insert" /\ MayWrite /\ UNCHANGED <<form, surfaced, kills, intakeFaults>>
      /\ triage \in Run /\ kills \in 0..MaxKills /\ surfaced \subseteq RowIds
      /\ triage.todo \subseteq Used
  BY IntakeShapes DEF InsertDiscovered, IntakeInv, RowsInHand
<1>2. CASE UNCHANGED jobs
  <2>1. triage' \in {[triage EXCEPT !.pc = "fetch", !.row = NoRow], IdleTriage(AnyKey)}
    <3>1. ASSUME jobs' = [jobs EXCEPT ![Next1] = [Free EXCEPT !.stage = "discovered",
                                                              !.key = triage.key]],
                 Next1 \in RowIds
          PROVE  FALSE
      <4>1. jobs \in [RowIds -> Posting]
        BY IntakeShapes DEF IntakeInv
      <4>2. jobs'[Next1].stage = "discovered"
        BY <3>1, <4>1 DEF Free
      <4>3. PICK n \in 0..MaxRows : Used = 1..n
        BY DEF IntakeInv, RowsInHand
      <4>4. Next1 = n + 1 /\ n \in Nat
        BY <4>3, NextRowIsFree
      <4>5. Next1 \notin Used
        BY <4>3, <4>4
      <4> QED BY <1>2, <3>1, <4>2, <4>5 DEF Used
    <3> QED BY <3>1 DEF InsertDiscovered, NextPosting
  <2>2. ASSUME triage' = [triage EXCEPT !.pc = "fetch", !.row = NoRow] PROVE IntakeInv'
    <3> DEFINE next == [triage EXCEPT !.pc = "fetch", !.row = NoRow]
    <3>1. next \in Run /\ next.pc = "fetch" /\ next.todo = triage.todo
      BY <1>1 DEF Run, TriagePcs
    <3> HIDE DEF next
    <3>2. triage' = next
      BY <2>2 DEF next
    <3> QED BY <1>1, <1>2, <3>1, <3>2, RunGoesOn DEF InHand
  <2>3. ASSUME triage' = IdleTriage(AnyKey) PROVE IntakeInv'
    <3> DEFINE next == IdleTriage(AnyKey)
    <3>1. next \in Run /\ next.pc = "idle" /\ next.todo = {}
      BY RestingShapes DEF IdleTriage
    <3> HIDE DEF next
    <3>2. triage' = next
      BY <2>3 DEF next
    <3> QED BY <1>1, <1>2, <3>1, <3>2, RunGoesOn DEF InHand
  <2> QED BY <2>1, <2>2, <2>3
<1>3. CASE ~UNCHANGED jobs
  <2> DEFINE row == [Free EXCEPT !.stage = "discovered", !.key = triage.key]
             next == [triage EXCEPT !.pc = "resolve", !.row = Next1]
  <2>1. /\ Next1 \in RowIds /\ jobs' = [jobs EXCEPT ![Next1] = row] /\ triage' = next
    BY <1>3 DEF InsertDiscovered, NextPosting
  <2>2. row \in Posting /\ row.stage = "discovered" /\ row.key = triage.key
    BY <1>1, RestingShapes DEF Posting, Run, Free
  <2>3. next \in Run /\ next.pc = "resolve" /\ next.row = Next1 /\ next.todo = triage.todo
    BY <1>1, <2>1 DEF Run, TriagePcs
  <2> HIDE DEF row, next
  <2>4. /\ jobs' \in [RowIds -> Posting] /\ Used' = Used \cup {Next1} /\ Next1 \notin Used
        /\ \E n \in 0..MaxRows : Used' = 1..n
        /\ jobs'[Next1] = row /\ \A q \in Used : jobs'[q] = jobs[q]
        /\ TwinFree /\ Twins(row.key, Used) = {} => TwinFree'
    BY <2>1, <2>2, RowIsAdded
  <2>5. IntakeTypeOK'
    BY <1>1, <2>1, <2>3, <2>4, IntakeShapes DEF IntakeInv
  <2>6. RowsInHand'
    BY <1>1, <2>1, <2>2, <2>3, <2>4 DEF IntakeInv, RowsInHand, InHand
  <2>7. ASSUME "race" \notin intakeFaults PROVE (OneInserts /\ TwinFree)'
    <3>1. \A f \in Forms : form[f].pc # "insert"
      BY <1>1, <2>7 DEF MayWrite
    <3>2. OneInserts'
      BY <1>1, <2>1, <2>3, <3>1 DEF OneInserts
    <3>3. Twins(row.key, Used) = {} /\ TwinFree
      BY <1>1, <2>2, <2>7 DEF IntakeInv, OneInserts
    <3> QED BY <2>4, <3>2, <3>3
  <2> QED BY <1>1, <2>5, <2>6, <2>7 DEF IntakeInv
<1> QED BY <1>2, <1>3

\* A posting seen through is named, or found to be known.
LEMMA ResolveKeeps ==
  ASSUME IntakeInv, Resolve
  PROVE  IntakeInv'
<1> DEFINE r == triage.row
<1>1. /\ triage.pc = "resolve" /\ MayWrite /\ UNCHANGED <<form, surfaced, kills, intakeFaults>>
      /\ triage \in Run /\ kills \in 0..MaxKills /\ surfaced \subseteq RowIds
      /\ triage.todo \subseteq Used /\ r \in Used /\ jobs[r].stage = "discovered"
      /\ jobs \in [RowIds -> Posting] /\ r \in RowIds
  BY IntakeShapes DEF Resolve, IntakeInv, RowsInHand, InHand, Used
<1>2. jobs[r] \in Posting /\ triage.real \in Key
  BY <1>1 DEF Run
<1> DEFINE onward == [triage EXCEPT !.pc = "enrich"]
           rest == [triage EXCEPT !.pc = "fetch", !.row = NoRow]
<1>3. /\ onward \in Run /\ onward.pc = "enrich" /\ onward.row = r /\ onward.todo = triage.todo
      /\ rest \in Run /\ rest.pc = "fetch" /\ rest.todo = triage.todo
  BY <1>1 DEF Run, TriagePcs
<1>4. \/ triage' = onward /\ UNCHANGED jobs
      \/ triage' = rest /\ MarkDupe
      \/ /\ Twins(triage.real, Others) = {} /\ triage' = onward
         /\ jobs' = [jobs EXCEPT ![r].key = triage.real]
      \/ triage' = rest /\ jobs' = [jobs EXCEPT ![r].stage = "rejected"]
  BY DEF Resolve, NextPosting
<1> HIDE DEF onward, rest
<1>5. ASSUME triage' = onward, UNCHANGED jobs PROVE IntakeInv'
  <2>1. Used' = Used
    BY <1>5 DEF Used
  <2>2. IntakeTypeOK'
    BY <1>1, <1>3, <1>5, IntakeShapes DEF IntakeInv
  <2>3. RowsInHand'
    BY <1>1, <1>3, <1>5, <2>1 DEF IntakeInv, RowsInHand, InHand
  <2>4. ASSUME "race" \notin intakeFaults PROVE (OneInserts /\ TwinFree)'
    BY <1>1, <1>3, <1>5, <2>1, <2>4 DEF IntakeInv, OneInserts, TwinFree, Twins, Same
  <2> QED BY <1>1, <2>2, <2>3, <2>4 DEF IntakeInv
<1>6. ASSUME triage' = rest, MarkDupe PROVE IntakeInv'
  <2> DEFINE row == [jobs[r] EXCEPT !.stage = "rejected", !.dupe = TRUE]
  <2>1. jobs' = [jobs EXCEPT ![r] = row]
    BY <1>1, <1>6 DEF MarkDupe
  <2>2. row \in Posting /\ row.stage = "rejected" /\ row.key = jobs[r].key /\ row.dupe
    BY <1>2 DEF Posting, Decided
  <2> HIDE DEF row, r
  <2> QED BY <1>1, <1>3, <1>6, <2>1, <2>2, RunRewritesRow DEF InHand
<1>7. ASSUME triage' = rest, jobs' = [jobs EXCEPT ![r].stage = "rejected"] PROVE IntakeInv'
  <2> DEFINE row == [jobs[r] EXCEPT !.stage = "rejected"]
  <2>1. jobs' = [jobs EXCEPT ![r] = row]
    BY <1>1, <1>7
  <2>2. row \in Posting /\ row.stage = "rejected" /\ row.key = jobs[r].key /\ row.dupe = jobs[r].dupe
    BY <1>2 DEF Posting, Decided
  <2>3. /\ rest.todo \subseteq Used /\ rest.pc # "insert" /\ rest.pc # "score"
        /\ rest.pc \notin InHand /\ UNCHANGED <<form, surfaced, kills, intakeFaults>>
    BY <1>1, <1>3 DEF InHand
  <2> HIDE DEF row, r
  <2> QED BY <1>1, <1>3, <1>7, <2>1, <2>2, <2>3, RunRewritesRow
<1>8. ASSUME Twins(triage.real, Others) = {}, triage' = onward,
             jobs' = [jobs EXCEPT ![r].key = triage.real]
      PROVE  IntakeInv'
  <2> DEFINE row == [jobs[r] EXCEPT !.key = triage.real]
  <2>1. jobs' = [jobs EXCEPT ![r] = row]
    BY <1>1, <1>8
  <2>2. row \in Posting /\ row.stage = "discovered" /\ row.key = triage.real
    BY <1>1, <1>2 DEF Posting
  <2> HIDE DEF row
  <2>3. /\ jobs' \in [RowIds -> Posting] /\ Used' = Used
        /\ jobs'[r] = row /\ \A q \in RowIds \ {r} : jobs'[q] = jobs[q]
    BY <1>1, <2>1, <2>2, RowIsRewritten
  <2>4. Used \subseteq RowIds
    BY DEF Used
  <2>5. IntakeTypeOK'
    BY <1>1, <1>3, <1>8, <2>3, IntakeShapes DEF IntakeInv
  <2>6. RowsInHand'
    BY <1>1, <1>3, <1>8, <2>2, <2>3, <2>4 DEF IntakeInv, RowsInHand, InHand
  <2>7. ASSUME "race" \notin intakeFaults PROVE (OneInserts /\ TwinFree)'
    <3>1. \A f \in Forms : form[f].pc # "insert"
      BY <1>1, <2>7 DEF MayWrite
    <3>2. OneInserts'
      BY <1>1, <1>3, <1>8, <3>1 DEF OneInserts
    <3>3. \A q \in Used \ {r} : ~Same(jobs[q].key, row.key)
      BY <1>8, <2>2 DEF Twins, Others
    <3>4. \A q \in Used \ {r} : ~Same(row.key, jobs[q].key)
      BY <3>3 DEF Same
    <3>5. TwinFree
      BY <2>7 DEF IntakeInv
    <3>6. ASSUME NEW r1 \in Used, NEW r2 \in Used, r1 # r2, Same(jobs'[r1].key, jobs'[r2].key)
          PROVE  jobs'[r1].dupe \/ jobs'[r2].dupe
      <4>1. CASE r1 # r /\ r2 # r
        BY <2>3, <2>4, <3>5, <3>6, <4>1 DEF TwinFree
      <4>2. CASE r1 = r \/ r2 = r
        BY <2>3, <2>4, <3>3, <3>4, <3>6, <4>2
      <4> QED BY <4>1, <4>2
    <3>7. TwinFree'
      BY <2>3, <3>6 DEF TwinFree, Same
    <3> QED BY <3>2, <3>7
  <2> QED BY <1>1, <2>5, <2>6, <2>7 DEF IntakeInv
<1> QED BY <1>4, <1>5, <1>6, <1>7, <1>8

\* The row in hand is enriched, and marked if it repeats an application.
LEMMA EnrichKeeps ==
  ASSUME IntakeInv, EnrichRow \/ DedupeAdvanced
  PROVE  IntakeInv'
<1> DEFINE r == triage.row
           advanced == [triage EXCEPT !.pc = "advanced"]
           rest == [triage EXCEPT !.pc = "fetch", !.row = NoRow]
<1>1. /\ triage.pc \in {"enrich", "advanced"} /\ UNCHANGED <<form, surfaced, kills, intakeFaults>>
      /\ triage \in Run /\ kills \in 0..MaxKills /\ surfaced \subseteq RowIds
      /\ triage.todo \subseteq Used /\ r \in Used /\ jobs \in [RowIds -> Posting] /\ r \in RowIds
  BY IntakeShapes DEF EnrichRow, DedupeAdvanced, IntakeInv, RowsInHand, InHand, Used
<1>2. jobs[r] \in Posting
  BY <1>1
<1>3. /\ advanced \in Run /\ advanced.pc = "advanced" /\ advanced.row = r
      /\ advanced.todo = triage.todo
      /\ rest \in Run /\ rest.pc = "fetch" /\ rest.todo = triage.todo
  BY <1>1 DEF Run, TriagePcs
<1>4. \/ triage' = advanced /\ jobs' = [jobs EXCEPT ![r].stage = "enriched"]
      \/ triage' = rest /\ (MarkDupe \/ UNCHANGED jobs)
  BY DEF EnrichRow, DedupeAdvanced, NextPosting
<1> HIDE DEF advanced, rest
<1>5. ASSUME triage' = advanced, jobs' = [jobs EXCEPT ![r].stage = "enriched"] PROVE IntakeInv'
  <2> DEFINE row == [jobs[r] EXCEPT !.stage = "enriched"]
  <2>1. jobs' = [jobs EXCEPT ![r] = row]
    BY <1>1, <1>5
  <2>2. row \in Posting /\ row.stage = "enriched" /\ row.key = jobs[r].key /\ row.dupe = jobs[r].dupe
    BY <1>2 DEF Posting
  <2>3. /\ advanced.todo \subseteq Used /\ advanced.pc # "insert" /\ advanced.pc # "score"
        /\ triage' = advanced /\ UNCHANGED <<form, surfaced, kills, intakeFaults>>
    BY <1>1, <1>3, <1>5
  <2> HIDE DEF row, r
  <2> QED BY <1>1, <1>3, <2>1, <2>2, <2>3, RunRewritesRow
<1>6. ASSUME triage' = rest, MarkDupe PROVE IntakeInv'
  <2> DEFINE row == [jobs[r] EXCEPT !.stage = "rejected", !.dupe = TRUE]
  <2>1. jobs' = [jobs EXCEPT ![r] = row]
    BY <1>1, <1>6 DEF MarkDupe
  <2>2. row \in Posting /\ row.stage = "rejected" /\ row.key = jobs[r].key /\ row.dupe
    BY <1>2 DEF Posting, Decided
  <2> HIDE DEF row, r
  <2> QED BY <1>1, <1>3, <1>6, <2>1, <2>2, RunRewritesRow DEF InHand
<1>7. ASSUME triage' = rest, UNCHANGED jobs PROVE IntakeInv'
  BY <1>1, <1>3, <1>7, RunGoesOn DEF InHand
<1> QED BY <1>4, <1>5, <1>6, <1>7

\* The scorer and the retry write rows they have collected.
LEMMA ScoringKeeps ==
  ASSUME IntakeInv, NEW r \in RowIds, ScoreRow(r) \/ RetryRow(r)
  PROVE  IntakeInv'
<1> DEFINE next == [triage EXCEPT !.todo = @ \ {r}]
<1>1. /\ triage.pc \in {"score", "retry"} /\ r \in triage.todo
      /\ UNCHANGED <<form, surfaced, kills, intakeFaults>>
      /\ triage \in Run /\ kills \in 0..MaxKills /\ surfaced \subseteq RowIds
      /\ triage.todo \subseteq Used /\ r \in Used /\ jobs \in [RowIds -> Posting]
      /\ triage.pc = "score" => \A q \in triage.todo : jobs[q].stage = "enriched"
  BY IntakeShapes DEF ScoreRow, RetryRow, IntakeInv, RowsInHand
<1>2. jobs[r] \in Posting
  BY <1>1
<1>3. next \in Run /\ next.pc = triage.pc /\ next.todo = triage.todo \ {r} /\ triage' = next
  BY <1>1 DEF ScoreRow, RetryRow, Run
<1> HIDE DEF next
<1>4. CASE UNCHANGED jobs
  BY <1>1, <1>3, <1>4, RunGoesOn DEF InHand
<1>5. ASSUME NEW to \in Visible, Scored(r, to) PROVE IntakeInv'
  <2> DEFINE row == [jobs[r] EXCEPT !.stage = to, !.score = IF to = "scored" THEN "llm" ELSE "null"]
  <2>1. jobs' = [jobs EXCEPT ![r] = row]
    BY <1>1, <1>5 DEF Scored
  <2>2. row \in Posting /\ row.stage # "free" /\ row.key = jobs[r].key /\ row.dupe = jobs[r].dupe
    BY <1>2 DEF Posting, Visible
  <2> HIDE DEF row
  <2> QED BY <1>1, <1>3, <2>1, <2>2, RunRewritesRow DEF InHand
<1> QED BY <1>4, <1>5 DEF ScoreRow, RetryRow

\* The run begins, takes a posting, collects its rows and ends.
LEMMA ScheduleKeeps ==
  ASSUME IntakeInv,
         \/ StartTriage \/ Fetch \/ CollectEnriched \/ CollectNullScores \/ EndTriage \/ KillTriage
         \/ \E real \in {k \in Key : k.role \in Roles} :
              TakePosting(real, real) \/ TakePosting(real, [real EXCEPT !.role = Blurred])
  PROVE  IntakeInv'
<1>1. /\ triage \in Run /\ kills \in 0..MaxKills /\ surfaced \subseteq RowIds
      /\ triage.todo \subseteq Used /\ jobs \in [RowIds -> Posting]
      /\ UNCHANGED <<jobs, form, surfaced, intakeFaults>>
  BY IntakeShapes DEF StartTriage, Fetch, FetchNothing, FetchSome, CollectEnriched,
                      CollectNullScores, EndTriage, KillTriage, TakePosting, IntakeInv, RowsInHand
<1>2. ASSUME NEW pc \in {"fetching", "fetch"}, triage' = [triage EXCEPT !.pc = pc], UNCHANGED kills
      PROVE  IntakeInv'
  <2> DEFINE next == [triage EXCEPT !.pc = pc]
  <2>1. next \in Run /\ next.pc = pc /\ next.todo = triage.todo
    BY <1>1 DEF Run, TriagePcs
  <2>2. triage' = next
    BY <1>2
  <2> HIDE DEF next
  <2> QED BY <1>1, <1>2, <2>1, <2>2, RunGoesOn DEF InHand
<1>3. CASE CollectEnriched
  <2> DEFINE rows == { r \in RowIds : jobs[r].stage = "enriched" /\ ~jobs[r].dupe }
             next == [triage EXCEPT !.pc = "score", !.todo = rows]
  <2>1. rows \subseteq Used /\ rows \subseteq RowIds /\ \A r \in rows : jobs[r].stage = "enriched"
    BY DEF Used
  <2>2. triage' = next /\ UNCHANGED kills
    BY <1>3 DEF CollectEnriched
  <2> HIDE DEF rows
  <2>3. next \in Run /\ next.pc = "score" /\ next.todo = rows
    BY <1>1, <2>1 DEF Run, TriagePcs
  <2> HIDE DEF next
  <2> QED BY <1>1, <2>1, <2>2, <2>3, RunGoesOn DEF InHand
<1>4. CASE CollectNullScores
  <2> DEFINE rows == { r \in RowIds : jobs[r].stage = "manual_review" /\ jobs[r].score = "null"
                                      /\ ~jobs[r].dupe }
             next == [triage EXCEPT !.pc = "retry", !.todo = rows]
  <2>1. rows \subseteq Used /\ rows \subseteq RowIds
    BY DEF Used
  <2>2. triage' = next /\ UNCHANGED kills
    BY <1>4 DEF CollectNullScores
  <2> HIDE DEF rows
  <2>3. next \in Run /\ next.pc = "retry" /\ next.todo = rows
    BY <1>1, <2>1 DEF Run, TriagePcs
  <2> HIDE DEF next
  <2> QED BY <1>1, <2>1, <2>2, <2>3, RunGoesOn DEF InHand
<1>5. CASE FetchNothing \/ EndTriage \/ KillTriage
  <2> DEFINE next == IdleTriage(AnyKey)
  <2>1. next \in Run /\ next.pc = "idle" /\ next.todo = {}
    BY RestingShapes DEF IdleTriage
  <2>2. triage' = next
    BY <1>5 DEF FetchNothing, EndTriage, KillTriage
  <2>3. kills' \in 0..MaxKills
    BY <1>1, <1>5, IntakeAssumption DEF FetchNothing, EndTriage, KillTriage
  <2> HIDE DEF next
  <2> QED BY <1>1, <2>1, <2>2, <2>3, RunGoesOn DEF InHand
<1>6. ASSUME NEW real \in {k \in Key : k.role \in Roles}, NEW key \in Key, TakePosting(real, key)
      PROVE  IntakeInv'
  <2> DEFINE next == [triage EXCEPT !.pc = "insert", !.real = real, !.key = key]
  <2>1. next \in Run /\ next.pc = "insert" /\ next.key = key /\ next.todo = triage.todo
    BY <1>1 DEF Run, TriagePcs
  <2>2. triage' = next /\ UNCHANGED kills /\ Twins(key, Used) = {} /\ MayLookUp
    BY <1>6 DEF TakePosting
  <2> HIDE DEF next
  <2> QED BY <1>1, <2>1, <2>2, RunGoesOn DEF InHand, MayLookUp, MayWrite
<1>7. ASSUME NEW real \in Key PROVE [real EXCEPT !.role = Blurred] \in Key
  BY DEF Key
<1>8. StartTriage \/ FetchSome => IntakeInv'
  BY <1>2 DEF StartTriage, FetchSome
<1> QED BY <1>3, <1>4, <1>5, <1>6, <1>7, <1>8 DEF Fetch

\* A form that takes another step while the table stays as it is.
LEMMA FormKeeps ==
  ASSUME IntakeInv, NEW f \in Forms, NEW next \in Submission, form' = [form EXCEPT ![f] = next],
         UNCHANGED <<jobs, triage, kills, intakeFaults>>, surfaced' \subseteq RowIds,
         next.pc = "resurface" => next.row \in Used,
         next.pc = "insert" /\ "race" \notin intakeFaults =>
           Twins(next.key, Used) = {} /\ MayLookUp
  PROVE  IntakeInv'
<1>1. form \in [Forms -> Submission] /\ Used' = Used
  BY IntakeShapes DEF IntakeInv, Used
<1>2. form' \in [Forms -> Submission] /\ form'[f] = next /\ \A g \in Forms \ {f} : form'[g] = form[g]
  BY <1>1
<1>3. IntakeTypeOK'
  BY <1>2, IntakeShapes DEF IntakeInv
<1>4. RowsInHand'
  BY <1>1, <1>2 DEF IntakeInv, RowsInHand
<1>5. ASSUME "race" \notin intakeFaults PROVE (OneInserts /\ TwinFree)'
  <2>1. TwinFree'
    BY <1>1, <1>5 DEF IntakeInv, TwinFree, Same
  <2>2. \A k : Twins(k, Used)' = Twins(k, Used)
    BY <1>1 DEF Twins, Same
  <2>3. next.pc = "insert" => triage.pc # "insert" /\ \A g \in Forms : form[g].pc # "insert"
    BY <1>5 DEF MayLookUp, MayWrite
  <2>4. OneInserts
    BY <1>5 DEF IntakeInv
  <2>5. OneInserts'
    BY <1>1, <1>2, <1>5, <2>2, <2>3, <2>4 DEF OneInserts
  <2> QED BY <2>1, <2>5
<1> QED BY <1>3, <1>4, <1>5 DEF IntakeInv

\* A submission is looked up.
LEMMA LookupKeeps ==
  ASSUME IntakeInv, NEW f \in Forms, NEW key \in Key, FormLookup(f, key)
  PROVE  IntakeInv'
<1>1. surfaced \subseteq RowIds /\ UNCHANGED <<jobs, triage, surfaced, kills, intakeFaults>>
  BY IntakeShapes DEF FormLookup, IntakeInv
<1>2. ASSUME NEW r \in Twins(key, Used),
             form' = [form EXCEPT ![f] = [pc |-> "resurface", key |-> key, row |-> r]]
      PROVE  IntakeInv'
  <2> DEFINE next == [pc |-> "resurface", key |-> key, row |-> r]
  <2>1. r \in Used /\ r \in RowIds
    BY <1>2 DEF Twins, Used
  <2>2. next \in Submission /\ next.pc = "resurface" /\ next.row = r
    BY <2>1 DEF Submission
  <2>3. form' = [form EXCEPT ![f] = next]
    BY <1>2
  <2> HIDE DEF next
  <2> QED BY <1>1, <2>1, <2>2, <2>3, FormKeeps
<1>3. ASSUME Twins(key, Used) = {},
             form' = [form EXCEPT ![f] = [pc |-> "insert", key |-> key, row |-> NoRow]]
      PROVE  IntakeInv'
  <2> DEFINE next == [pc |-> "insert", key |-> key, row |-> NoRow]
  <2>1. next \in Submission /\ next.pc = "insert" /\ next.key = key
    BY DEF Submission
  <2>2. form' = [form EXCEPT ![f] = next] /\ MayLookUp
    BY <1>3 DEF FormLookup
  <2> HIDE DEF next
  <2> QED BY <1>1, <1>3, <2>1, <2>2, FormKeeps
<1> QED BY <1>2, <1>3 DEF FormLookup

\* A submission that is new is inserted.
LEMMA FormInsertKeeps ==
  ASSUME IntakeInv, NEW f \in Forms, FormInsert(f)
  PROVE  IntakeInv'
<1>1. /\ form[f].pc = "insert" /\ form' = [form EXCEPT ![f] = IdleForm]
      /\ UNCHANGED <<triage, surfaced, kills, intakeFaults>>
      /\ form \in [Forms -> Submission] /\ surfaced \subseteq RowIds
      /\ IdleForm \in Submission /\ IdleForm.pc = "idle"
  BY IntakeShapes, RestingShapes DEF FormInsert, IntakeInv, IdleForm
<1>2. CASE UNCHANGED jobs
  BY <1>1, <1>2, FormKeeps
<1>3. CASE ~UNCHANGED jobs
  <2> DEFINE row == [stage |-> "scored", key |-> form[f].key, dupe |-> FALSE, score |-> "eight"]
  <2>1. Next1 \in RowIds /\ jobs' = [jobs EXCEPT ![Next1] = row]
    BY <1>3 DEF FormInsert
  <2>2. row \in Posting /\ row.stage = "scored" /\ row.key = form[f].key
    BY <1>1 DEF Posting, Submission, Visible
  <2> HIDE DEF row
  <2>3. /\ jobs' \in [RowIds -> Posting] /\ Used' = Used \cup {Next1} /\ Next1 \notin Used
        /\ \E n \in 0..MaxRows : Used' = 1..n
        /\ \A q \in Used : jobs'[q] = jobs[q]
        /\ TwinFree /\ Twins(row.key, Used) = {} => TwinFree'
    BY <2>1, <2>2, RowIsAdded
  <2>4. form' \in [Forms -> Submission] /\ form'[f] = IdleForm
        /\ \A g \in Forms \ {f} : form'[g] = form[g]
    BY <1>1
  <2>5. IntakeTypeOK'
    BY <1>1, <2>3, <2>4, IntakeShapes DEF IntakeInv
  <2>6. RowsInHand'
    <3>1. /\ triage.todo \subseteq Used
          /\ triage.pc \in InHand => triage.row \in Used
          /\ \A g \in Forms : form[g].pc = "resurface" => form[g].row \in Used
      BY DEF IntakeInv, RowsInHand
    <3>2. triage'.pc \in {"resolve", "enrich"} => jobs'[triage'.row].stage = "discovered"
      BY <1>1, <2>3, <3>1 DEF IntakeInv, RowsInHand, InHand
    <3>3. triage'.pc = "advanced" => jobs'[triage'.row].stage = "enriched"
      BY <1>1, <2>3, <3>1 DEF IntakeInv, RowsInHand, InHand
    <3>4. triage'.pc = "score" => \A r \in triage'.todo : jobs'[r].stage = "enriched"
      BY <1>1, <2>3, <3>1 DEF IntakeInv, RowsInHand
    <3>5. \A g \in Forms : form'[g].pc = "resurface" => form'[g].row \in Used'
      BY <1>1, <2>3, <2>4, <3>1
    <3> QED BY <1>1, <2>3, <3>1, <3>2, <3>3, <3>4, <3>5 DEF RowsInHand
  <2>7. ASSUME "race" \notin intakeFaults PROVE (OneInserts /\ TwinFree)'
    <3>1. OneInserts /\ TwinFree
      BY <2>7 DEF IntakeInv
    <3>2. \A g \in Forms : form'[g].pc # "insert"
      BY <1>1, <2>4, <3>1 DEF OneInserts
    <3>3. triage.pc # "insert" /\ Twins(row.key, Used) = {}
      BY <1>1, <2>2, <3>1 DEF OneInserts
    <3> QED BY <1>1, <2>3, <3>1, <3>2, <3>3 DEF OneInserts
  <2> QED BY <1>1, <2>5, <2>6, <2>7 DEF IntakeInv
<1> QED BY <1>2, <1>3

\* What the board has, the operator or a known submission rewrites: not what the run holds.
LEMMA BoardRewritesRow ==
  ASSUME IntakeInv, NEW r \in Used, NEW row \in Posting, row.stage # "free",
         row.key = jobs[r].key, jobs[r].dupe => row.dupe,
         jobs[r].stage \in {"discovered", "enriched"} => row.stage = jobs[r].stage,
         jobs' = [jobs EXCEPT ![r] = row],
         UNCHANGED <<triage, kills, intakeFaults>>, surfaced' \subseteq RowIds,
         form' \in [Forms -> Submission],
         \A f \in Forms : form'[f].pc = "idle" \/ form'[f] = form[f]
  PROVE  IntakeInv'
<1>1. /\ jobs' \in [RowIds -> Posting] /\ Used' = Used /\ r \in RowIds
      /\ jobs'[r] = row /\ \A q \in RowIds \ {r} : jobs'[q] = jobs[q]
      /\ TwinFree => TwinFree'
      /\ \A k : Twins(k, Used) = {} => Twins(k, Used)' = {}
  BY RowIsRewritten
<1>2. IntakeTypeOK'
  BY <1>1, IntakeShapes DEF IntakeInv
<1>3. Used \subseteq RowIds
  BY DEF Used
<1>4. \A q \in Used : jobs[q].stage \in {"discovered", "enriched"} => jobs'[q].stage = jobs[q].stage
  BY <1>1, <1>3
<1>5. RowsInHand'
  BY <1>1, <1>3, <1>4 DEF IntakeInv, RowsInHand, InHand
<1>6. ASSUME "race" \notin intakeFaults PROVE (OneInserts /\ TwinFree)'
  <2>1. OneInserts /\ TwinFree
    BY <1>6 DEF IntakeInv
  <2>2. OneInserts'
    BY <1>1, <2>1 DEF OneInserts
  <2> QED BY <1>1, <2>1, <2>2
<1> QED BY <1>2, <1>5, <1>6 DEF IntakeInv

\* A known opening comes back, and the operator decides.
LEMMA BoardKeeps ==
  ASSUME IntakeInv,
         \/ \E f \in Forms : FormResurface(f)
         \/ \E r \in RowIds, to \in Decided : Decide(r, to)
  PROVE  IntakeInv'
<1>1. /\ jobs \in [RowIds -> Posting] /\ form \in [Forms -> Submission]
      /\ surfaced \subseteq RowIds
  BY IntakeShapes DEF IntakeInv
<1>2. ASSUME NEW f \in Forms, FormResurface(f) PROVE IntakeInv'
  <2> DEFINE r == form[f].row
             row == Resurfaced(jobs[r])
  <2>1. r \in Used /\ r \in RowIds /\ jobs[r].stage # "free"
    BY <1>2 DEF FormResurface, IntakeInv, RowsInHand, Used
  <2>2. /\ jobs' = [jobs EXCEPT ![r] = row] /\ form' = [form EXCEPT ![f] = IdleForm]
        /\ surfaced' \subseteq RowIds /\ UNCHANGED <<triage, kills, intakeFaults>>
    BY <1>2, <2>1 DEF FormResurface
  <2>3. ASSUME NEW old \in Posting, old.stage # "free"
        PROVE  /\ Resurfaced(old) \in Posting /\ Resurfaced(old).stage # "free"
               /\ Resurfaced(old).key = old.key /\ Resurfaced(old).dupe = old.dupe
               /\ old.stage \in {"discovered", "enriched"} => Resurfaced(old).stage = old.stage
    <3>1. CASE old.stage = "applied"
      BY <2>3, <3>1 DEF Resurfaced
    <3>2. CASE old.stage \in {"rejected", "waitlisted", "manual_review"}
      BY <2>3, <3>2 DEF Resurfaced, Posting, Visible
    <3>3. CASE old.stage \in {"discovered", "enriched", "scored"}
      BY <2>3, <3>3 DEF Resurfaced, Posting
    <3> QED BY <2>3, <3>1, <3>2, <3>3 DEF Posting, Visible, Decided
  <2>4. /\ row \in Posting /\ row.stage # "free" /\ row.key = jobs[r].key /\ row.dupe = jobs[r].dupe
        /\ jobs[r].stage \in {"discovered", "enriched"} => row.stage = jobs[r].stage
    BY <1>1, <2>1, <2>3
  <2>5. /\ form' \in [Forms -> Submission]
        /\ \A g \in Forms : form'[g].pc = "idle" \/ form'[g] = form[g]
    BY <1>1, <2>2, RestingShapes DEF IdleForm
  <2> HIDE DEF row, r
  <2> QED BY <2>1, <2>2, <2>4, <2>5, BoardRewritesRow
<1>3. ASSUME NEW r \in RowIds, NEW to \in Decided, Decide(r, to) PROVE IntakeInv'
  <2> DEFINE row == [jobs[r] EXCEPT !.stage = to]
  <2>1. r \in Used /\ jobs[r].stage \in Visible
    BY <1>3 DEF Decide, Used, Visible
  <2>2. /\ jobs' = [jobs EXCEPT ![r] = row] /\ surfaced' \subseteq RowIds
        /\ UNCHANGED <<triage, form, kills, intakeFaults>>
    BY <1>1, <1>3 DEF Decide
  <2>3. /\ row \in Posting /\ row.stage # "free" /\ row.key = jobs[r].key /\ row.dupe = jobs[r].dupe
    BY <1>1 DEF Posting, Decided
  <2> HIDE DEF row
  <2> QED BY <1>1, <2>1, <2>2, <2>3, BoardRewritesRow DEF Visible
<1> QED BY <1>2, <1>3

\* Every action preserves the invariant.
LEMMA IntakeNextKeeps ==
  ASSUME IntakeInv, [IntakeNext]_intakeVars
  PROVE  IntakeInv'
<1>1. CASE UNCHANGED intakeVars
  <2>1. UNCHANGED <<jobs, triage, form, surfaced, kills, intakeFaults>>
    BY <1>1 DEF intakeVars
  <2>2. Used' = Used
    BY <2>1 DEF Used
  <2>3. IntakeTypeOK' /\ RowsInHand'
    BY <2>1, <2>2, IntakeShapes DEF IntakeInv, RowsInHand
  <2>4. ("race" \notin intakeFaults => OneInserts /\ TwinFree)'
    BY <2>1, <2>2 DEF IntakeInv, OneInserts, TwinFree, Twins, Same
  <2> QED BY <2>3, <2>4 DEF IntakeInv
<1>2. CASE InsertPosting
  BY <1>2, InsertKeeps, ResolveKeeps, EnrichKeeps DEF InsertPosting
<1>3. CASE \E r \in RowIds : ScoreRow(r) \/ RetryRow(r)
  BY <1>3, ScoringKeeps
<1>4. CASE \E f \in Forms : \E key \in {k \in Key : k.role \in Roles} : FormLookup(f, key)
  BY <1>4, LookupKeeps
<1>5. CASE \E f \in Forms : FormInsert(f)
  BY <1>5, FormInsertKeeps
<1> QED
  BY <1>1, <1>2, <1>3, <1>4, <1>5, ScheduleKeeps, BoardKeeps DEF IntakeNext, ScorePostings

\* An empty table has no twins.
LEMMA IntakeInitKeeps == IntakeInit => IntakeInv
<1> SUFFICES ASSUME IntakeInit PROVE IntakeInv
  OBVIOUS
<1>1. /\ jobs = [r \in RowIds |-> Free] /\ triage = IdleTriage(AnyKey)
      /\ form = [f \in Forms |-> IdleForm] /\ surfaced = {} /\ kills = 0
      /\ intakeFaults \in IntakeFaults
  BY DEF IntakeInit
<1>2. IntakeTypeOK
  BY <1>1, RestingShapes, IntakeShapes, IntakeAssumption
<1>3. Used = {} /\ 0 \in 0..MaxRows
  BY <1>1, IntakeAssumption DEF Used, Free
<1>4. Used = 1..0
  BY <1>3
<1>5. RowsInHand
  BY <1>1, <1>3, <1>4 DEF RowsInHand, IdleTriage, IdleForm, InHand
<1> QED BY <1>1, <1>2, <1>3, <1>5 DEF IntakeInv, OneInserts, TwinFree, IdleTriage, IdleForm

\* The invariant holds of every reachable state.
LEMMA IntakeIsInvariant == IntakeSpec => []IntakeInv
<1>1. IntakeInv /\ [IntakeNext]_intakeVars => IntakeInv'
  BY IntakeNextKeeps
<1> QED BY <1>1, IntakeInitKeeps, PTL DEF IntakeSpec

-----------------------------------------------------------------------------
\* Rows, runs and submissions keep their types, for any roles, rows, forms and
\* faults (triage/orchestrator.py, ingest.py).
THEOREM IntakeTypeCorrect == IntakeSpec => []IntakeTypeOK
<1>1. IntakeInv => IntakeTypeOK
  BY DEF IntakeInv
<1> QED BY <1>1, IntakeIsInvariant, PTL

\* No opening is on the books twice unless marked, for any number of rows and
\* submissions, wherever runs are killed: triage and the form look up what they
\* insert, and what the enrichment renames is looked up once more
\* (triage/orchestrator.py, ingest.py:113).
THEOREM OpeningsAreSingle == IntakeSpec => []NoLiveTwins
<1>1. IntakeInv => NoLiveTwins
  BY DEF IntakeInv, TwinFree, NoLiveTwins
<1> QED BY <1>1, IntakeIsInvariant, PTL

\* Enriching and scoring, which write by id, undo no decision, for any number of
\* rows, in any race and with any kills: what they hold was never on the board
\* (triage/orchestrator.py, scoring.py).
THEOREM DecisionsStand == IntakeSpec => TriageSparesDecisions
<1>1. ASSUME IntakeInv, IntakeNext, triage.pc # "retry", triage' # triage,
             NEW r \in RowIds, jobs[r].stage \in Decided
      PROVE  jobs'[r].stage = jobs[r].stage
  <2>1. /\ jobs \in [RowIds -> Posting] /\ RowsInHand
        /\ jobs[r].stage \notin {"free", "discovered", "enriched"}
    BY <1>1, IntakeShapes DEF IntakeInv, Decided
  <2>2. r \in Used /\ r # Next1
    <3>1. PICK n \in 0..MaxRows : Used = 1..n
      BY <2>1 DEF RowsInHand
    <3>2. Next1 = n + 1 /\ n \in Nat
      BY <3>1, NextRowIsFree
    <3>3. r \in Used
      BY <2>1 DEF Used
    <3> QED BY <3>1, <3>2, <3>3
  <2>3. CASE InsertDiscovered
    BY <2>1, <2>2, <2>3 DEF InsertDiscovered, NextPosting
  <2>4. CASE Resolve \/ EnrichRow \/ DedupeAdvanced
    <3>1. triage.row # r
      BY <2>1, <2>4 DEF Resolve, EnrichRow, DedupeAdvanced, RowsInHand
    <3> QED BY <2>1, <2>4, <3>1 DEF Resolve, EnrichRow, DedupeAdvanced, MarkDupe
  <2>5. ASSUME NEW q \in RowIds, ScoreRow(q) \/ RetryRow(q) PROVE jobs'[r] = jobs[r]
    <3>1. triage.pc = "score" /\ q # r
      BY <1>1, <2>1, <2>5 DEF ScoreRow, RetryRow, RowsInHand
    <3> QED BY <2>1, <2>5, <3>1 DEF ScoreRow, RetryRow, Scored
  <2>6. CASE UNCHANGED jobs
    BY <2>6
  <2> QED
    BY <1>1, <2>3, <2>4, <2>5, <2>6
       DEF IntakeNext, InsertPosting, ScorePostings, StartTriage, Fetch, FetchNothing,
           FetchSome, CollectEnriched, CollectNullScores, EndTriage, KillTriage, TakePosting,
           FormLookup, FormInsert, FormResurface, Decide
<1>2. IntakeInv /\ [IntakeNext]_intakeVars
        => [triage.pc # "retry" /\ triage' # triage =>
              \A r \in RowIds : jobs[r].stage \in Decided => jobs'[r].stage = jobs[r].stage]_intakeVars
  BY <1>1
<1> QED BY <1>2, IntakeIsInvariant, PTL DEF IntakeSpec, TriageSparesDecisions

-----------------------------------------------------------------------------
\* Side by side, both components keep their types: what one does, the other's
\* invariant does not see (rejections_review.py, triage/orchestrator.py).
THEOREM FlowTypeCorrect == FlowSpec => []FlowTypeOK
<1>1. FlowInit => ReviewTypes /\ IntakeInv
  BY InitIsTyped, IntakeInitKeeps DEF FlowInit
<1>2. ReviewTypes /\ IntakeInv /\ [FlowNext]_flowVars => (ReviewTypes /\ IntakeInv)'
  BY NextIsTyped, IntakeNextKeeps DEF FlowNext, flowVars
<1>3. ReviewTypes /\ IntakeInv => FlowTypeOK
  BY DEF ReviewTypes, IntakeInv, FlowTypeOK
<1> QED BY <1>1, <1>2, <1>3, PTL DEF FlowSpec
================================================================================
