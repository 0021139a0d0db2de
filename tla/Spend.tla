---------------------------------- MODULE Spend ----------------------------------
(***************************************************************************)
(* The monthly spend ceiling (src/findajob/spend_ceiling.py) and the model *)
(* calls it gates: llm/openrouter.complete and complete_stream, the cost   *)
(* row that llm/role_runner.run_role writes when the answer is in, and the *)
(* alerts at 80% and 100%.                                                 *)
(*                                                                         *)
(* A caller is a thread or a subprocess that makes one call at a time and  *)
(* logs it itself, or a posting of the batch that a triage run scores: a   *)
(* worker thread takes it, returns the answer and takes the next, and the  *)
(* main thread logs the answers when it comes to them.  The gate compares  *)
(* the ceiling with what cost_log holds already, and a call's cost gets    *)
(* there after the provider has billed it, so what matters is what several *)
(* callers may do between the two.  Amounts are small integers; costLog[m] *)
(* is the sum of the cost_log rows of month m that carry a billed cost,    *)
(* guessLog[m] of those with an estimate from the text's length.           *)
(***************************************************************************)
EXTENDS Integers, Sequences, FiniteSets, SequencesExt, FiniteSetsExt

CONSTANTS
    Callers,        \* threads, subprocesses and postings that make model calls
    ToScore,       \* the callers that are postings of a triage batch
    Batches,        \* bound: the batches a triage run may find
    SCORE_WORKERS,  \* the worker threads of a batch
    Processes,      \* operating-system processes: each has its _alerts_fired
    ProcessOf,      \* the process a caller runs in
    Ceilings,       \* the ceilings a run may be configured with, NoCeiling too
    NoCeiling,      \* load_spend_ceiling() is None
    Costs,          \* what one answered call may cost
    MaxMonth,       \* bound: months 1 .. MaxMonth
    MaxCalls,       \* bound: calls started
    SpendFaults     \* the fault sets a run may pick

AllSpendFaults == {"kill", "lost_answer", "log_error", "row_lost", "send_error", "stream"}

ASSUME SpendAssumption ==
    /\ IsFiniteSet(Callers) /\ ProcessOf \in [Callers -> Processes]
    /\ ToScore \subseteq Callers /\ Batches \subseteq SUBSET ToScore \ {{}}
    /\ SCORE_WORKERS \in Nat \ {0}
    /\ Ceilings \subseteq (Nat \ {0}) \cup {NoCeiling} /\ NoCeiling \notin Nat
    /\ Costs \subseteq Nat \ {0} /\ (\E most \in Costs : \A cost \in Costs : cost <= most)
    /\ MaxMonth \in Nat \ {0} /\ MaxCalls \in Nat
    /\ SpendFaults \subseteq SUBSET AllSpendFaults

VARIABLES
    ceiling,        \* config: the monthly ceiling
    now,            \* the month on the clock
    costLog,        \* cost_log's billed costs, summed by month
    guessLog,       \* cost_log's estimates, summed by month
    fired,          \* _alerts_fired of each process
    notified,       \* notifications rows, counted by kind and month
    refused,        \* the months in which a call or a launch was refused
    call,           \* each caller's progress
    batch,          \* the postings no worker has taken yet
    started,        \* calls started (bound)
    spendFaults     \* the faults of this run

spendVars == <<ceiling, now, costLog, guessLog, fired, notified, refused,
               call, batch, started, spendFaults>>

Months == 1 .. MaxMonth
AlertKinds == {"spend_ceiling_reached", "spend_ceiling_warning"}
Alerts == AlertKinds \X Months
DEFAULT_MAX_ATTEMPTS == 3
\* "retry" is the null-score retry, which calls the scorer and logs nothing
Surfaces == {"launch", "complete", "retry", "stream"}
\* in "log" and "guess" the answer is in and its row is not
Steps == {"idle", "read", "alerts", "send", "http", "reading", "log", "guess"}

NoCall == [at |-> "idle", surface |-> "complete", sum |-> 0, month |-> 1,
           todo |-> <<>>, attempt |-> 0, cost |-> 0]

SpendTypeOK ==
    /\ ceiling \in Ceilings /\ now \in Months
    /\ costLog \in [Months -> Nat] /\ guessLog \in [Months -> Nat]
    /\ fired \in [Processes -> SUBSET Alerts]
    /\ notified \in [Alerts -> Nat] /\ refused \subseteq Months
    /\ \A c \in Callers :
          /\ call[c].at \in Steps /\ call[c].surface \in Surfaces
          /\ call[c].sum \in Nat /\ call[c].month \in Months
          /\ ToSet(call[c].todo) \subseteq AlertKinds
          /\ call[c].attempt \in 0 .. DEFAULT_MAX_ATTEMPTS
          /\ call[c].cost \in Costs \cup {0}
    /\ batch \subseteq ToScore
    /\ started \in 0 .. MaxCalls /\ spendFaults \in SpendFaults

SpendInit ==
    /\ ceiling \in Ceilings /\ now = 1
    /\ costLog = [m \in Months |-> 0] /\ guessLog = [m \in Months |-> 0]
    /\ fired = [p \in Processes |-> {}]
    /\ notified = [a \in Alerts |-> 0] /\ refused = {}
    /\ call = [c \in Callers |-> NoCall] /\ batch = {}
    /\ started = 0 /\ spendFaults \in SpendFaults

At(c, step) == call[c].at = step
GoesOn(c, step, s) == call' = [call EXCEPT ![c] = [NoCall EXCEPT !.at = step, !.surface = s]]
Goes(c, step) == call' = [call EXCEPT ![c].at = step]
Ends(c) == call' = [call EXCEPT ![c] = NoCall]
Money == <<ceiling, costLog, guessLog>>
Notices == <<fired, notified, refused>>
Rest == <<now, batch, started, spendFaults>>

-----------------------------------------------------------------------------
\* A triage run scores its enriched rows in one batch, with SCORE_WORKERS
\* threads, and begins the next after the last row of this one.

Busy(c) == call[c].at \notin {"idle", "log", "guess"}

BeginBatch(postings) ==
    /\ batch = {} /\ \A c \in ToScore : At(c, "idle")
    /\ batch' = postings
    /\ UNCHANGED <<Money, Notices, now, call, started, spendFaults>>

\* A worker that is free takes the first of the postings left, whichever that is,
\* and other callers start when they like.
Starts(c) ==
    /\ At(c, "idle") /\ started < MaxCalls /\ started' = started + 1
    /\ c \in ToScore => /\ c \in batch /\ c = CHOOSE d \in batch : TRUE
                       /\ Cardinality({d \in ToScore : Busy(d)}) < SCORE_WORKERS
    /\ batch' = batch \ {c}
    /\ UNCHANGED <<Money, Notices, now, spendFaults>>

\* A posting the prefilter decides calls nobody and is logged with an estimate.
PrefilterHit(c) ==
    /\ c \in ToScore /\ Starts(c)
    /\ \E estimate \in Costs :
          call' = [call EXCEPT ![c] = [NoCall EXCEPT !.at = "guess", !.cost = estimate]]

-----------------------------------------------------------------------------
\* The gate. A launching route (check_launch_gate), complete() and
\* complete_stream() pass the same test; the launch starts a call of its own.

StartCall(c, s) ==
    /\ Starts(c) /\ (c \in ToScore => s = "complete")
    /\ GoesOn(c, "read", s)

\* Thresholds met, the reached one first; the warning is 80% of the ceiling.
Thresholds(sum) ==
    (IF sum >= ceiling THEN <<"spend_ceiling_reached">> ELSE <<>>)
    \o (IF 10 * sum >= 8 * ceiling THEN <<"spend_ceiling_warning">> ELSE <<>>)

SpendThisMonth == costLog[now] + guessLog[now]

PastTheGate(c) ==
    IF call[c].surface = "launch" THEN GoesOn(c, "read", "complete")
                                  ELSE GoesOn(c, "http", call[c].surface)

Ungated(c) ==
    /\ At(c, "read") /\ ceiling = NoCeiling
    /\ PastTheGate(c)
    /\ UNCHANGED <<Money, Notices, Rest>>

ReadSpend(c) ==
    /\ At(c, "read") /\ ceiling # NoCeiling
    /\ call' = [call EXCEPT ![c].at = "alerts", ![c].sum = SpendThisMonth,
                            ![c].month = now, ![c].todo = Thresholds(SpendThisMonth)]
    /\ UNCHANGED <<Money, Notices, Rest>>

\* mutant: one flag per threshold, for as long as the process lives
CacheKeyForGood(kind, month) == <<kind, 1>>

CacheKey(kind, month) == <<kind, month>>
AlreadySent(kind, month) == notified[<<kind, month>>] > 0

\* The head of the thresholds: cached, found in the table, or to be sent.
CheckAlert(c) ==
    /\ At(c, "alerts") /\ call[c].todo # <<>>
    /\ LET kind == Head(call[c].todo)
           key == CacheKey(kind, call[c].month)
           p == ProcessOf[c]
       IN IF key \in fired[p] \/ AlreadySent(kind, call[c].month)
          THEN /\ fired' = [fired EXCEPT ![p] = @ \cup {key}]
               /\ call' = [call EXCEPT ![c].todo = Tail(@)]
          ELSE Goes(c, "send") /\ UNCHANGED fired
    /\ UNCHANGED <<Money, notified, refused, Rest>>

\* send() pushes, for as long as curl takes, and writes the notifications row
\* with the time it is then; the key cached is the call's. An insert that fails
\* is swallowed.
SendAlert(c) ==
    /\ At(c, "send")
    /\ LET kind == Head(call[c].todo)
       IN /\ \/ notified' = [notified EXCEPT ![<<kind, now>>] = @ + 1]
             \/ "row_lost" \in spendFaults /\ UNCHANGED notified
          /\ fired' = [fired EXCEPT ![ProcessOf[c]] = @ \cup {CacheKey(kind, call[c].month)}]
    /\ call' = [call EXCEPT ![c].todo = Tail(@), ![c].at = "alerts"]
    /\ UNCHANGED <<Money, refused, Rest>>

\* An exception in the alert code is logged; the gate goes on without it.
AlertFails(c) ==
    /\ At(c, "send") /\ "send_error" \in spendFaults
    /\ call' = [call EXCEPT ![c].todo = <<>>, ![c].at = "alerts"]
    /\ UNCHANGED <<Money, Notices, Rest>>

\* mutant: the ceiling itself may be spent once more
ExceededOnlyBeyond(c) == call[c].sum > ceiling

Exceeded(c) == call[c].sum >= ceiling

Refuse(c) ==
    /\ At(c, "alerts") /\ call[c].todo = <<>> /\ Exceeded(c)
    /\ refused' = refused \cup {call[c].month}
    /\ Ends(c)
    /\ UNCHANGED <<Money, fired, notified, Rest>>

Pass(c) ==
    /\ At(c, "alerts") /\ call[c].todo = <<>> /\ ~Exceeded(c)
    /\ PastTheGate(c)
    /\ UNCHANGED <<Money, Notices, Rest>>

-----------------------------------------------------------------------------
\* The request. Rate limits, 5xx answers and unreachable hosts are retried up
\* to DEFAULT_MAX_ATTEMPTS times; other errors end the call at once.

\* mutant: the attempts are counted and never compared
RetryForever(c) ==
    /\ At(c, "http")
    /\ call' = [call EXCEPT ![c].attempt = @ + 1]
    /\ UNCHANGED <<Money, Notices, Rest>>

\* A scorer that failed leaves its posting to manual review, logged with an
\* estimate; the others' calls end.
FailsToScore(c) ==
    IF c \in ToScore
    THEN \E estimate \in Costs :
            call' = [call EXCEPT ![c].at = "guess", ![c].cost = estimate]
    ELSE Ends(c)

RetryLater(c) ==
    /\ At(c, "http")
    /\ LET n == call[c].attempt + 1
       IN IF n < DEFAULT_MAX_ATTEMPTS THEN call' = [call EXCEPT ![c].attempt = n]
                                      ELSE FailsToScore(c)
    /\ UNCHANGED <<Money, Notices, Rest>>

FailAtOnce(c) ==
    /\ At(c, "http") /\ FailsToScore(c)
    /\ UNCHANGED <<Money, Notices, Rest>>

\* The provider answers and bills. The text may be usable, empty after the
\* think block is cut out, or null with a usage record: run_role logs all three.
Answered(c) ==
    /\ At(c, "http") /\ call[c].surface = "complete"
    /\ \E cost \in Costs : call' = [call EXCEPT ![c].at = "log", ![c].cost = cost]
    /\ UNCHANGED <<Money, Notices, Rest>>

\* The scorer's null text is an error to score_job, its usage dropped.
AnsweredNull(c) ==
    /\ At(c, "http") /\ c \in ToScore
    /\ FailsToScore(c)
    /\ UNCHANGED <<Money, Notices, Rest>>

\* The retry of a posting without a score writes the score and no row.
AnsweredRetry(c) ==
    /\ At(c, "http") /\ call[c].surface = "retry"
    /\ Ends(c)
    /\ UNCHANGED <<Money, Notices, Rest>>

\* A body that is no JSON, or a read that times out: billed, usage unknown.
AnswerLost(c) ==
    /\ At(c, "http") /\ call[c].surface # "stream" /\ "lost_answer" \in spendFaults
    /\ FailsToScore(c)
    /\ UNCHANGED <<Money, Notices, Rest>>

StreamOpens(c) ==
    /\ At(c, "http") /\ call[c].surface = "stream"
    /\ Goes(c, "reading")
    /\ UNCHANGED <<Money, Notices, Rest>>

StreamFinishes(c) ==
    /\ At(c, "reading")
    /\ \E cost \in Costs : call' = [call EXCEPT ![c].at = "log", ![c].cost = cost]
    /\ UNCHANGED <<Money, Notices, Rest>>

\* A disconnected client, an error after the first chunk and a reply cut off
\* by max_tokens end the stream without a cost_log row, whatever was billed.
StreamBreaksOff(c) ==
    /\ At(c, "reading") /\ "stream" \in spendFaults
    /\ Ends(c)
    /\ UNCHANGED <<Money, Notices, Rest>>

LogCall(c) ==
    /\ At(c, "log")
    /\ costLog' = [costLog EXCEPT ![now] = @ + call[c].cost]
    /\ Ends(c)
    /\ UNCHANGED <<ceiling, guessLog, Notices, Rest>>

LogGuess(c) ==
    /\ At(c, "guess")
    /\ guessLog' = [guessLog EXCEPT ![now] = @ + call[c].cost]
    /\ Ends(c)
    /\ UNCHANGED <<ceiling, costLog, Notices, Rest>>

\* run_role swallows the error. A triage run dies of it when the workers have
\* taken the rest of the batch: none of those answers is logged.
LogCallFails(c) ==
    /\ call[c].at \in {"log", "guess"} /\ "log_error" \in spendFaults
    /\ Ends(c)
    /\ UNCHANGED <<Money, Notices, Rest>>

-----------------------------------------------------------------------------
MonthEnds ==
    /\ now < MaxMonth /\ now' = now + 1
    /\ UNCHANGED <<Money, Notices, call, batch, started, spendFaults>>

\* The process of c is restarted: its calls and its cached alerts are gone.
Restart(p) ==
    /\ "kill" \in spendFaults
    /\ \E c \in Callers : ProcessOf[c] = p /\ ~At(c, "idle")
    /\ batch' = {c \in batch : ProcessOf[c] # p}
    /\ call' = [c \in Callers |-> IF ProcessOf[c] = p THEN NoCall ELSE call[c]]
    /\ fired' = [fired EXCEPT ![p] = {}]
    /\ UNCHANGED <<Money, notified, refused, now, started, spendFaults>>

SpendNext ==
    \/ \E postings \in Batches : BeginBatch(postings)
    \/ \E c \in Callers :
          \/ PrefilterHit(c) \/ \E s \in Surfaces : StartCall(c, s)
          \/ Ungated(c) \/ ReadSpend(c) \/ CheckAlert(c) \/ SendAlert(c) \/ AlertFails(c)
          \/ Refuse(c) \/ Pass(c)
          \/ RetryLater(c) \/ FailAtOnce(c) \/ Answered(c) \/ AnsweredNull(c)
          \/ AnsweredRetry(c) \/ AnswerLost(c)
          \/ StreamOpens(c) \/ StreamFinishes(c) \/ StreamBreaksOff(c)
          \/ LogCall(c) \/ LogGuess(c) \/ LogCallFails(c)
    \/ MonthEnds
    \/ \E p \in Processes : Restart(p)

Advances(c) ==
    \/ Ungated(c) \/ ReadSpend(c) \/ CheckAlert(c) \/ SendAlert(c)
    \/ Refuse(c) \/ Pass(c)
    \/ RetryLater(c) \/ StreamOpens(c) \/ StreamFinishes(c) \/ LogCall(c) \/ LogGuess(c)

\* A thread that can go on does: every wait of a call has a timeout.
SpendFairness == \A c \in Callers : WF_spendVars(Advances(c))

SpendSpec == SpendInit /\ [][SpendNext]_spendVars /\ SpendFairness

-----------------------------------------------------------------------------
(* The gate is a check before the spend (spend_ceiling.py:159), so the
   ceiling is not a hard limit. What it does promise: the billed costs a
   month's rows carry stay below the ceiling plus one call of each caller,
   each posting of a triage batch counted as one. *)
OvershootBounded ==
    ceiling # NoCeiling =>
       \A m \in Months : costLog[m] < ceiling + Cardinality(Callers) * Max(Costs)

(* An operator whose calls are refused finds a row that says why, of that month
   or a later one if the push took that long: the alert caches must not outlive
   the month they are for (spend_ceiling.py:124-141). *)
RefusalIsAnnounced ==
    spendFaults \cap {"send_error", "row_lost"} = {} =>
       \A m \in refused : \E k \in m .. MaxMonth : notified[<<"spend_ceiling_reached", k>>] > 0

(* spend_ceiling.py:22: alerts fire at most once per threshold per calendar
   month. False of two callers that both find no row before either has sent. *)
AlertsFireOnce == \A a \in Alerts : notified[a] <= 1
=============================================================================
