------------------------------ MODULE OnboardingChat ------------------------------
(***************************************************************************)
(* The in-app onboarding interview: the rows of onboarding_sessions        *)
(* (src/findajob/onboarding/session_store.py), the routes that read and    *)
(* write them (web/routes/onboarding_interview.py, the key step of         *)
(* web/routes/onboarding.py), and the streamed turn between them.          *)
(*                                                                         *)
(* A turn is answered from a snapshot of the session that the route takes  *)
(* before the model is called; its results are persisted one commit at a   *)
(* time after the last chunk, and append_turn reads the history again and  *)
(* writes it back whole. Handlers are the requests being served: one       *)
(* browser tab keeps one busy, a second tab or a reload another.           *)
(***************************************************************************)
EXTENDS Integers, Sequences, FiniteSets, SequencesExt

CONSTANTS
    Handlers,       \* requests that can be served at once
    Blocks,         \* the required files the interview emits
    UserKeys,       \* OpenRouter keys the user may paste
    NoKey,          \* user_openrouter_key is NULL
    NoSession,      \* a handler that serves nothing
    MaxSessions,    \* bound: rows created
    MaxTurns,       \* bound: turns sent
    ChatFaults      \* the fault sets a run may pick

AllChatFaults == {"kill", "disconnect", "upstream"}

ASSUME ChatAssumption ==
    /\ NoKey \notin UserKeys /\ NoSession \notin Nat
    /\ MaxSessions \in Nat /\ MaxTurns \in Nat
    /\ ChatFaults \subseteq SUBSET AllChatFaults

VARIABLES
    session,        \* onboarding_sessions, oldest first
    chatClock,      \* the time stamped into last_turn_at (logical)
    serving,        \* what each handler is doing
    saved,          \* the last key Step 1 stored
    chatFaults      \* the faults of this run

chatVars == <<session, chatClock, serving, saved, chatFaults>>

Turn == [role : {"user", "assistant"}, text : {"kickoff", "answer", "reply"},
         blocks : SUBSET Blocks]
UserTurn(message) == [role |-> "user", text |-> message, blocks |-> {}]
AssistantTurn(blocks) == [role |-> "assistant", text |-> "reply", blocks |-> blocks]

Rows == 1 .. Len(session)
ChatSteps == {"idle", "stream", "append_user", "write_user",
              "append_assistant", "write_assistant", "capture"}

\* snap, kept: sess.history and sess.captured_blocks when the request came in;
\* read: the history append_turn has just read; key: the key the call uses.
Nothing == [step |-> "idle", on |-> NoSession, message |-> "answer", snap |-> <<>>,
            kept |-> {}, reply |-> {}, read |-> <<>>, key |-> NoKey]

ChatTypeOK ==
    /\ Len(session) <= MaxSessions
    /\ \A s \in Rows :
          /\ ToSet(session[s].history) \subseteq Turn
          /\ session[s].captured \subseteq Blocks
          /\ session[s].key \in UserKeys \cup {NoKey}
          /\ session[s].completed \in BOOLEAN /\ session[s].error \in BOOLEAN
          /\ session[s].lastTurn \in 0 .. chatClock
    /\ \A h \in Handlers :
          /\ serving[h].step \in ChatSteps
          /\ serving[h].on \in Rows \cup {NoSession}
          /\ serving[h].reply \cup serving[h].kept \subseteq Blocks
          /\ ToSet(serving[h].snap) \cup ToSet(serving[h].read) \subseteq Turn
    /\ saved \in UserKeys \cup {NoKey} /\ chatFaults \in ChatFaults

ChatInit ==
    /\ session = <<>> /\ chatClock = 0
    /\ serving = [h \in Handlers |-> Nothing]
    /\ saved = NoKey /\ chatFaults \in ChatFaults

-----------------------------------------------------------------------------
\* session_store

Newest(rows) == CHOOSE s \in rows : \A r \in rows : session[s].lastTurn >= session[r].lastTurn

Uncompleted == {s \in Rows : ~session[s].completed}
FindActive == Uncompleted          \* the 24 hours of find_active do not pass here
FindCredentialsOnly == {s \in Uncompleted : session[s].history = <<>> /\ session[s].key # NoKey}

\* find_active(conn) or find_credentials_only(conn)
Resolved == IF FindActive # {} THEN {Newest(FindActive)}
            ELSE IF FindCredentialsOnly # {} THEN {Newest(FindCredentialsOnly)} ELSE {}

\* The key of the session itself, else of the newest credentials-only session.
ChatKey(s) ==
    IF session[s].key # NoKey THEN session[s].key
    ELSE IF FindCredentialsOnly # {} THEN session[Newest(FindCredentialsOnly)].key ELSE NoKey

CapturedFromHistory(history) == UNION {history[i].blocks : i \in DOMAIN history}

-----------------------------------------------------------------------------
\* Step 1 of onboarding. A key that fails validation or its smoke test writes
\* nothing; one that passes lands in the credentials-only row, or in a new one.

SaveKeys(k) ==
    /\ IF FindCredentialsOnly # {}
       THEN /\ session' = [session EXCEPT ![Newest(FindCredentialsOnly)].key = k]
            /\ UNCHANGED chatClock
       ELSE /\ Len(session) < MaxSessions
            /\ chatClock' = chatClock + 1
            /\ session' = Append(session, [history |-> <<>>, captured |-> {}, key |-> k,
                   completed |-> FALSE, error |-> FALSE, lastTurn |-> chatClock'])
    /\ saved' = k
    /\ UNCHANGED <<serving, chatFaults>>

ResetKeys ==
    /\ FindCredentialsOnly # {}
    /\ session' = [session EXCEPT ![Newest(FindCredentialsOnly)].key = NoKey]
    /\ saved' = NoKey
    /\ UNCHANGED <<chatClock, serving, chatFaults>>

\* The page opened by /start, or a chat page still open on an older row, posts
\* a turn: the kickoff when the page showed no history, an answer otherwise.
\* A page may be older than the row: it may kick off a chat begun elsewhere.
\* A ceiling that refuses the turn leaves no trace, so it is not a step here.
PostTurn(h, s, message) ==
    /\ serving[h].step = "idle"
    /\ ChatKey(s) # NoKey
    /\ s \in Resolved \/ session[s].history # <<>>
    /\ message = "answer" => session[s].history # <<>>
    /\ chatClock < MaxTurns + MaxSessions /\ chatClock' = chatClock + 1
    /\ serving' = [serving EXCEPT ![h] =
           [Nothing EXCEPT !.step = "stream", !.on = s, !.message = message,
                           !.snap = session[s].history, !.kept = session[s].captured,
                           !.key = ChatKey(s)]]
    /\ UNCHANGED <<session, saved, chatFaults>>

On(h) == serving[h].on
InStep(h, step) == serving[h].step = step
NextStep(h, step) == serving' = [serving EXCEPT ![h].step = step]
Done(h) == serving' = [serving EXCEPT ![h] = Nothing]

\* _stream_turn refuses a kickoff whose snapshot has turns already.
KickoffReplay(h) ==
    /\ InStep(h, "stream") /\ serving[h].message = "kickoff" /\ serving[h].snap # <<>>
    /\ Done(h)
    /\ UNCHANGED <<session, chatClock, saved, chatFaults>>

Live(h) == InStep(h, "stream") /\ ~(serving[h].message = "kickoff" /\ serving[h].snap # <<>>)

\* mutant: the captured blocks are stored ahead of the turns
CaptureFirst(h, blocks) ==
    /\ Live(h)
    /\ session' = [session EXCEPT ![On(h)].error = FALSE, ![On(h)].captured = @ \cup blocks]
    /\ serving' = [serving EXCEPT ![h].step = "append_user", ![h].reply = blocks]
    /\ UNCHANGED <<chatClock, saved, chatFaults>>

\* The finish chunk: the error banner is cleared, the turn's cost is added.
StreamFinish(h, blocks) ==
    /\ Live(h)
    /\ session' = [session EXCEPT ![On(h)].error = FALSE]
    /\ serving' = [serving EXCEPT ![h].step = "append_user", ![h].reply = blocks]
    /\ UNCHANGED <<chatClock, saved, chatFaults>>

\* An error chunk or a reply cut off at max_tokens: only error_state is set.
StreamError(h) ==
    /\ Live(h) /\ "upstream" \in chatFaults
    /\ session' = [session EXCEPT ![On(h)].error = TRUE]
    /\ Done(h)
    /\ UNCHANGED <<chatClock, saved, chatFaults>>

\* The client has gone: complete_stream returns without a terminal chunk.
StreamCancelled(h) ==
    /\ Live(h) /\ "disconnect" \in chatFaults
    /\ Done(h)
    /\ UNCHANGED <<session, chatClock, saved, chatFaults>>

\* append_turn reads the row, appends to its history and writes it back.
AppendRead(h, step, next) ==
    /\ InStep(h, step)
    /\ serving' = [serving EXCEPT ![h].step = next, ![h].read = session[On(h)].history]
    /\ UNCHANGED <<session, chatClock, saved, chatFaults>>

AppendWrite(h, step, turn, next) ==
    /\ InStep(h, step)
    /\ session' = [session EXCEPT ![On(h)].history = Append(serving[h].read, turn),
                                  ![On(h)].lastTurn = chatClock]
    /\ serving' = [serving EXCEPT ![h].step = next, ![h].read = <<>>]
    /\ UNCHANGED <<chatClock, saved, chatFaults>>

ReadForUser(h) == AppendRead(h, "append_user", "write_user")
WriteUser(h) ==
    AppendWrite(h, "write_user", UserTurn(serving[h].message), "append_assistant")
ReadForAssistant(h) == AppendRead(h, "append_assistant", "write_assistant")
WriteAssistant(h) ==
    AppendWrite(h, "write_assistant", AssistantTurn(serving[h].reply), "capture")

\* The transcript is scanned again, from the snapshot and the new reply.
UpdateCaptured(h) ==
    /\ InStep(h, "capture")
    /\ LET captured == CapturedFromHistory(serving[h].snap) \cup serving[h].reply
       IN session' = [session EXCEPT ![On(h)].captured =
                         IF captured # serving[h].kept THEN captured ELSE @]
    /\ Done(h)
    /\ UNCHANGED <<chatClock, saved, chatFaults>>

\* Finalize reads the captured blocks and closes the session once inject()
\* (OnboardingInject) has committed the files.
Finalize(s) ==
    /\ s \in Uncompleted /\ Blocks \subseteq session[s].captured /\ session[s].key # NoKey
    /\ session' = [session EXCEPT ![s].completed = TRUE]
    /\ UNCHANGED <<chatClock, serving, saved, chatFaults>>

\* The web process is restarted: every request dies where it stands.
ChatRestart ==
    /\ "kill" \in chatFaults /\ \E h \in Handlers : ~InStep(h, "idle")
    /\ serving' = [h \in Handlers |-> Nothing]
    /\ UNCHANGED <<session, chatClock, saved, chatFaults>>

ChatNext ==
    \/ \E k \in UserKeys : SaveKeys(k)
    \/ ResetKeys
    \/ \E h \in Handlers :
          \/ \E s \in Rows, message \in {"kickoff", "answer"} : PostTurn(h, s, message)
          \/ \E blocks \in SUBSET Blocks : StreamFinish(h, blocks)
          \/ KickoffReplay(h) \/ StreamError(h) \/ StreamCancelled(h)
          \/ ReadForUser(h) \/ WriteUser(h) \/ ReadForAssistant(h) \/ WriteAssistant(h)
          \/ UpdateCaptured(h)
    \/ \E s \in Rows : Finalize(s)
    \/ ChatRestart

ChatSpec == ChatInit /\ [][ChatNext]_chatVars

-----------------------------------------------------------------------------
(* A block counts as captured only if the transcript holds the turn that
   emitted it, at every point a crash may stop the handler: otherwise the
   next scan of the transcript (onboarding_interview.py:116-125) would take
   a captured file away again. One request at a time. *)
CapturedIsInTranscript ==
    \A s \in Rows : session[s].captured \subseteq CapturedFromHistory(session[s].history)

(* The history that is sent to the model alternates user and assistant:
   errors, disconnects and truncated replies leave no half turn behind
   (onboarding_interview.py:545-546). Only a killed process may. *)
TurnsArePaired ==
    "kill" \notin chatFaults =>
       \A s \in Rows :
          /\ \A i \in DOMAIN session[s].history :
                session[s].history[i].role = IF i % 2 = 1 THEN "user" ELSE "assistant"
          /\ (\A h \in Handlers : On(h) # s) => Len(session[s].history) % 2 = 0

(* onboarding_interview.py:440-447: the history is the canonical lock of the
   kickoff, so a session is begun once. *)
InterviewBeginsOnce ==
    \A s \in Rows :
       Cardinality({i \in DOMAIN session[s].history : session[s].history[i].text = "kickoff"}) <= 1

(* onboarding.py:382-384: the chat session is left intact by a change of
   keys, the next chat turn picks up the key supplied in Step 1. *)
NextTurnUsesSavedKey ==
    [][\A h \in Handlers :
          serving[h].step = "idle" /\ serving'[h].step = "stream" /\ saved # NoKey
             => serving'[h].key = saved]_chatVars
=============================================================================
