---------------------------- MODULE OnboardingProofs ----------------------------
(***************************************************************************)
(* What holds of onboarding for any requests, blocks, keys, files, faults  *)
(* and attempts: of the chat, that what counts as captured is in the       *)
(* transcript; of a finalization, that a served board has its required     *)
(* files and that what is overwritten is in a backup.                      *)
(***************************************************************************)
EXTENDS OnboardingChat, OnboardingInject, FiniteSetTheorems, SequenceTheorems,
        WellFoundedInduction, TLAPS

(***************************************************************************)
(* Smallest and largest numbers of a set, which the components share.      *)
(***************************************************************************)

\* A set of naturals has a smallest element.
LEMMA SmallestOf ==
  ASSUME NEW S \in SUBSET Nat, S # {}
  PROVE  \E x \in S : \A y \in S : x <= y
<1> DEFINE less == OpToRel(<, Nat)
<1>1. IsWellFoundedOn(less, Nat)
  BY NatLessThanWellFounded
<1>2. \A x, y \in Nat : y < x => <<y, x>> \in less
  BY DEF OpToRel
<1> HIDE DEF less
<1>3. PICK x \in S : \A y \in S : ~(<<y, x>> \in less)
  BY <1>1, WFMin
<1>4. \A y \in S : ~(y < x)
  BY <1>2, <1>3
<1>5. \A y \in S : x <= y
  BY <1>4
<1> QED BY <1>5

\* One that is bounded has a largest.
LEMMA LargestOf ==
  ASSUME NEW S \in SUBSET Nat, S # {}, NEW b \in Nat, \A x \in S : x <= b
  PROVE  \E x \in S : \A y \in S : y <= x
<1> DEFINE T == {b - x : x \in S}
<1>1. T \in SUBSET Nat
  OBVIOUS
<1>2. T # {}
  <2>1. PICK x : x \in S
    OBVIOUS
  <2>2. b - x \in T
    BY <2>1
  <2> QED BY <2>2
<1>3. PICK t \in T : \A u \in T : t <= u
  BY <1>1, <1>2, SmallestOf
<1>4. PICK x \in S : t = b - x
  OBVIOUS
<1>5. ASSUME NEW y \in S
      PROVE  y <= x
  <2>1. b - y \in T
    OBVIOUS
  <2> QED BY <1>3, <1>4, <2>1
<1> QED BY <1>5

(***************************************************************************)
(* The onboarding chat.  As long as no two requests are between the read   *)
(* and the write of append_turn on one session, what counts as captured is *)
(* in the transcript: tabs may overlap in every other way.                 *)
(***************************************************************************)

Appending(h) == serving[h].step \in {"write_user", "write_assistant"}

AppendsAlone ==
  \A g, h \in Handlers : Appending(g) /\ Appending(h) /\ On(g) = On(h) => g = h

Session == [history : Seq(Turn), captured : SUBSET Blocks, key : UserKeys \cup {NoKey},
            completed : BOOLEAN, error : BOOLEAN, lastTurn : Nat]
Serving == [step : ChatSteps, on : Int \cup {NoSession}, message : {"kickoff", "answer"},
            snap : Seq(Turn), kept : SUBSET Blocks, reply : SUBSET Blocks, read : Seq(Turn),
            key : UserKeys \cup {NoKey}]

(* The transcript of a request's session has what the request saw of it, is what *)
(* it read of it to append to, and at the end has its own reply.                 *)
InTranscript(h) ==
  LET history == session[On(h)].history IN
  /\ On(h) \in Rows
  /\ CapturedFromHistory(serving[h].snap) \subseteq CapturedFromHistory(history)
  /\ Appending(h) => serving[h].read = history
  /\ serving[h].step = "capture" => serving[h].reply \subseteq CapturedFromHistory(history)

ChatInv ==
  /\ session \in Seq(Session) /\ chatClock \in Nat
  /\ \A s \in Rows : session[s].lastTurn <= chatClock
  /\ serving \in [Handlers -> Serving]
  /\ \A h \in Handlers : serving[h].step # "idle" => InTranscript(h)
  /\ CapturedIsInTranscript

-----------------------------------------------------------------------------
\* A turn that is appended adds its blocks and takes none away.
LEMMA AppendCaptures ==
  ASSUME NEW history \in Seq(Turn), NEW turn \in Turn
  PROVE  /\ CapturedFromHistory(history) \subseteq CapturedFromHistory(Append(history, turn))
         /\ turn.blocks \subseteq CapturedFromHistory(Append(history, turn))
<1> DEFINE longer == Append(history, turn)
<1>1. /\ DOMAIN history = 1 .. Len(history) /\ DOMAIN longer = 1 .. Len(history) + 1
      /\ Len(history) \in Nat
      /\ longer[Len(history) + 1] = turn /\ \A i \in 1 .. Len(history) : longer[i] = history[i]
  OBVIOUS
<1> HIDE DEF longer
<1>2. ASSUME NEW i \in DOMAIN history
      PROVE  history[i].blocks \subseteq CapturedFromHistory(longer)
  <2>1. i \in DOMAIN longer /\ longer[i] = history[i]
    BY <1>1
  <2> QED BY <2>1 DEF CapturedFromHistory
<1>3. turn.blocks \subseteq CapturedFromHistory(longer)
  <2>1. Len(history) + 1 \in DOMAIN longer
    BY <1>1
  <2> QED BY <1>1, <2>1 DEF CapturedFromHistory
<1>4. CapturedFromHistory(history) \subseteq CapturedFromHistory(longer)
  BY <1>2 DEF CapturedFromHistory
<1> QED BY <1>3, <1>4 DEF longer

\* A row has the shape of a row, and was written at some time.
LEMMA RowsHaveShapes ==
  ASSUME ChatInv, NEW s \in Rows
  PROVE  /\ session[s] \in Session /\ session[s].history \in Seq(Turn)
         /\ session[s].captured \in SUBSET Blocks /\ session[s].key \in UserKeys \cup {NoKey}
         /\ session[s].lastTurn \in Nat /\ session[s].lastTurn <= chatClock
<1>1. session[s] \in Session /\ session[s].lastTurn <= chatClock
  BY DEF ChatInv, Rows
<1> QED BY <1>1 DEF Session

\* A row is rewritten in place.
LEMMA RowIsRewritten ==
  ASSUME session \in Seq(Session), NEW s, NEW row, s \in Rows => row \in Session,
         session' = [session EXCEPT ![s] = row]
  PROVE  /\ session' \in Seq(Session) /\ Rows' = Rows
         /\ s \in Rows => session'[s] = row
         /\ \A r \in Rows : r # s => session'[r] = session[r]
<1>1. CASE s \in Rows
  BY <1>1, ExceptSeq DEF Rows
<1>2. CASE s \notin Rows
  <2>1. session' = session
    BY <1>2 DEF Rows
  <2> QED BY <1>2, <2>1 DEF Rows
<1> QED BY <1>1, <1>2

\* Rows keep their turns and blocks, and a new row has no blocks: nothing captured
\* is lost from a transcript, and no request is disturbed.
LEMMA TranscriptsStay ==
  ASSUME ChatInv, session' \in Seq(Session), Rows \subseteq Rows', chatClock' \in Nat,
         \A s \in Rows : /\ session'[s].history = session[s].history
                         /\ session'[s].captured = session[s].captured,
         \A s \in Rows' \ Rows : session'[s].captured = {},
         \A s \in Rows' : session'[s].lastTurn <= chatClock',
         UNCHANGED serving
  PROVE  ChatInv'
<1>1. \A h \in Handlers : InTranscript(h) => InTranscript(h)'
  BY DEF InTranscript, Appending, On, CapturedFromHistory
<1>2. CapturedIsInTranscript'
  BY DEF ChatInv, CapturedIsInTranscript, CapturedFromHistory
<1> QED BY <1>1, <1>2 DEF ChatInv

\* A request stays in the transcript of a session that keeps its history, or that
\* another lengthens while this one is not appending to it.
LEMMA OthersStay ==
  ASSUME NEW g \in Handlers, serving[g].step # "idle" => InTranscript(g),
         serving'[g] = serving[g], Rows' = Rows,
         serving[g].step # "idle" =>
            \/ session'[On(g)].history = session[On(g)].history
            \/ /\ ~Appending(g)
               /\ CapturedFromHistory(session[On(g)].history)
                    \subseteq CapturedFromHistory(session'[On(g)].history)
  PROVE  serving'[g].step # "idle" => InTranscript(g)'
<1> SUFFICES ASSUME serving'[g].step # "idle" PROVE InTranscript(g)'
  OBVIOUS
<1>1. InTranscript(g) /\ On(g)' = On(g) /\ (Appending(g)' <=> Appending(g))
  BY DEF On, Appending
<1>2. CapturedFromHistory(serving[g].snap)' = CapturedFromHistory(serving[g].snap)
  BY DEF CapturedFromHistory
<1>3. CapturedFromHistory(session[On(g)].history)' = CapturedFromHistory(session'[On(g)].history)
  BY <1>1 DEF CapturedFromHistory
<1>4. CapturedFromHistory(session[On(g)].history)
        \subseteq CapturedFromHistory(session'[On(g)].history)
  BY DEF CapturedFromHistory
<1>5. Appending(g) => session'[On(g)].history = session[On(g)].history
  OBVIOUS
<1> QED BY <1>1, <1>2, <1>3, <1>4, <1>5 DEF InTranscript

\* A request moves on, or ends, and no other does.
LEMMA RequestMoves ==
  ASSUME serving \in [Handlers -> Serving], NEW h \in Handlers, NEW next \in Serving,
         serving' = [serving EXCEPT ![h] = next]
  PROVE  /\ serving' \in [Handlers -> Serving] /\ serving'[h] = next
         /\ \A g \in Handlers : g # h => serving'[g] = serving[g]
OBVIOUS

\* A request that has ended serves nothing.
LEMMA NothingIsServed == Nothing \in Serving /\ Nothing.step = "idle"
BY DEF Nothing, Serving, ChatSteps

-----------------------------------------------------------------------------
\* Keys, the end of the interview, and errors touch no turn and no block.
LEMMA RowStepsKeep ==
  ASSUME ChatInv, NEW s, NEW row, s \in Rows => row \in Session,
         s \in Rows => row.history = session[s].history /\ row.captured = session[s].captured,
         s \in Rows => row.lastTurn <= chatClock',
         session' = [session EXCEPT ![s] = row], chatClock' \in Nat, chatClock <= chatClock',
         UNCHANGED serving
  PROVE  ChatInv'
<1>1. session \in Seq(Session)
  BY DEF ChatInv
<1>2. /\ session' \in Seq(Session) /\ Rows' = Rows /\ (s \in Rows => session'[s] = row)
      /\ \A r \in Rows : r # s => session'[r] = session[r]
  BY <1>1, RowIsRewritten
<1>3. \A r \in Rows : /\ session'[r].history = session[r].history
                      /\ session'[r].captured = session[r].captured
  BY <1>2
<1>4. \A r \in Rows : session'[r].lastTurn <= chatClock'
  <2>1. \A r \in Rows : session[r].lastTurn <= chatClock /\ session[r].lastTurn \in Nat
    BY RowsHaveShapes
  <2>2. chatClock \in Nat
    BY DEF ChatInv
  <2> QED BY <1>2, <2>1, <2>2
<1> QED BY <1>2, <1>3, <1>4, TranscriptsStay

\* Of the rows one asks for, the newest is one.
LEMMA NewestIsThere ==
  ASSUME session \in Seq(Session), chatClock \in Nat,
         \A s \in Rows : session[s].lastTurn <= chatClock,
         NEW rows \in SUBSET Rows, rows # {}
  PROVE  Newest(rows) \in rows
<1> DEFINE times == {session[s].lastTurn : s \in rows}
<1>1. \A s \in rows : session[s].lastTurn \in Nat /\ session[s].lastTurn <= chatClock
  <2>1. \A s \in rows : session[s] \in Session
    BY DEF Rows
  <2> QED BY <2>1 DEF Session
<1>2. times \in SUBSET Nat /\ times # {} /\ \A t \in times : t <= chatClock
  <2>1. PICK s : s \in rows
    OBVIOUS
  <2>2. session[s].lastTurn \in times
    BY <2>1
  <2> QED BY <1>1, <2>2
<1>3. PICK t \in times : \A u \in times : u <= t
  BY <1>1, <1>2, LargestOf
<1>4. PICK s \in rows : t = session[s].lastTurn
  OBVIOUS
<1>5. \A r \in rows : session[s].lastTurn >= session[r].lastTurn
  BY <1>1, <1>3, <1>4
<1> QED BY <1>5 DEF Newest

\* The keys are saved or taken back.
LEMMA KeysKeep ==
  ASSUME ChatInv, (\E k \in UserKeys : SaveKeys(k)) \/ ResetKeys
  PROVE  ChatInv'
<1>1. session \in Seq(Session) /\ chatClock \in Nat
  BY DEF ChatInv
<1>2. \A s \in Rows : /\ session[s] \in Session
                      /\ session[s].lastTurn \in Nat /\ session[s].lastTurn <= chatClock
  BY RowsHaveShapes
<1>3. ASSUME NEW s, NEW k \in UserKeys \cup {NoKey}, session' = [session EXCEPT ![s].key = k],
             UNCHANGED <<chatClock, serving>>
      PROVE  ChatInv'
  <2> DEFINE row == [session[s] EXCEPT !.key = k]
  <2>1. s \in Rows => /\ row \in Session /\ row.history = session[s].history
                      /\ row.captured = session[s].captured
                      /\ row.lastTurn = session[s].lastTurn
    BY <1>2 DEF Session
  <2>2. session' = [session EXCEPT ![s] = row]
    BY <1>3
  <2> HIDE DEF row
  <2>3. /\ chatClock' \in Nat /\ chatClock <= chatClock' /\ UNCHANGED serving
        /\ s \in Rows => row.lastTurn <= chatClock'
    BY <1>1, <1>2, <1>3, <2>1
  <2> QED BY <2>1, <2>2, <2>3, RowStepsKeep
<1>4. CASE ResetKeys
  BY <1>3, <1>4 DEF ResetKeys
<1>5. ASSUME NEW k \in UserKeys, SaveKeys(k), FindCredentialsOnly # {}
      PROVE  ChatInv'
  BY <1>3, <1>5 DEF SaveKeys
<1>6. ASSUME NEW k \in UserKeys, SaveKeys(k), FindCredentialsOnly = {}
      PROVE  ChatInv'
  <2> DEFINE row == [history |-> << >>, captured |-> {}, key |-> k, completed |-> FALSE,
                     error |-> FALSE, lastTurn |-> chatClock']
  <2>1. session' = Append(session, row) /\ chatClock' = chatClock + 1 /\ UNCHANGED serving
    BY <1>6 DEF SaveKeys
  <2>2. row \in Session /\ row.captured = {} /\ row.lastTurn = chatClock'
    BY <1>1, <2>1 DEF Session
  <2> HIDE DEF row
  <2>3. /\ session' \in Seq(Session) /\ Rows' = 1 .. Len(session) + 1 /\ Len(session) \in Nat
        /\ \A s \in Rows : session'[s] = session[s]
        /\ session'[Len(session) + 1] = row
    BY <1>1, <2>1, <2>2 DEF Rows
  <2>4. Rows \subseteq Rows' /\ \A s \in Rows' \ Rows : s = Len(session) + 1
    BY <2>3 DEF Rows
  <2>5. \A s \in Rows' : session'[s].lastTurn <= chatClock'
    <3>1. ASSUME NEW s \in Rows
          PROVE  session'[s].lastTurn <= chatClock'
      <4>1. session'[s].lastTurn = session[s].lastTurn
        BY <2>3
      <4>2. session[s].lastTurn \in Nat /\ session[s].lastTurn <= chatClock
        BY <1>2
      <4> QED BY <1>1, <2>1, <4>1, <4>2
    <3>2. chatClock' \in Nat
      BY <1>1, <2>1
    <3> QED BY <2>2, <2>3, <2>4, <3>1, <3>2
  <2> QED BY <1>1, <2>1, <2>2, <2>3, <2>4, <2>5, TranscriptsStay
<1> QED BY <1>4, <1>5, <1>6

\* A turn is posted, with the session as it is.
LEMMA PostKeeps ==
  ASSUME ChatInv, NEW h \in Handlers, NEW s \in Rows,
         NEW message \in {"kickoff", "answer"}, PostTurn(h, s, message)
  PROVE  ChatInv'
<1> DEFINE next == [Nothing EXCEPT !.step = "stream", !.on = s, !.message = message,
                        !.snap = session[s].history, !.kept = session[s].captured,
                        !.key = ChatKey(s)]
<1>1. serving' = [serving EXCEPT ![h] = next]
  BY DEF PostTurn
<1>2. /\ session \in Seq(Session) /\ session[s] \in Session /\ s \in Int
      /\ serving \in [Handlers -> Serving] /\ UNCHANGED session /\ chatClock' \in Nat /\ chatClock <= chatClock'
  BY DEF ChatInv, Rows, PostTurn
<1>3. ChatKey(s) \in UserKeys \cup {NoKey}
  <2>1. \A r \in Rows : session[r].key \in UserKeys \cup {NoKey}
    BY RowsHaveShapes
  <2>2. FindCredentialsOnly \in SUBSET Rows
    BY DEF FindCredentialsOnly, Uncompleted
  <2>3. FindCredentialsOnly # {} => Newest(FindCredentialsOnly) \in Rows
    BY <2>2, NewestIsThere DEF ChatInv
  <2> QED BY <2>1, <2>3 DEF ChatKey
<1>4. /\ next \in Serving /\ next.step = "stream" /\ next.on = s
      /\ next.snap = session[s].history
  <2> DEFINE a == [Nothing EXCEPT !.step = "stream"]
             b == [a EXCEPT !.on = s]
             c == [b EXCEPT !.message = message]
             d == [c EXCEPT !.snap = session[s].history]
             e == [d EXCEPT !.kept = session[s].captured]
             f == [e EXCEPT !.key = ChatKey(s)]
  <2>1. a \in Serving /\ a.step = "stream"
    BY NothingIsServed DEF Serving, ChatSteps
  <2>2. next = f
    OBVIOUS
  <2> HIDE DEF a
  <2>3. b \in Serving /\ b.step = "stream" /\ b.on = s
    BY <1>2, <2>1 DEF Serving
  <2> HIDE DEF b
  <2>4. c \in Serving /\ c.step = "stream" /\ c.on = s
    BY <2>3 DEF Serving
  <2> HIDE DEF c
  <2>5. d \in Serving /\ d.step = "stream" /\ d.on = s /\ d.snap = session[s].history
    BY <1>2, <2>4 DEF Serving, Session
  <2> HIDE DEF d
  <2>6. e \in Serving /\ e.step = "stream" /\ e.on = s /\ e.snap = session[s].history
    BY <1>2, <2>5 DEF Serving, Session
  <2> HIDE DEF e
  <2>7. f \in Serving /\ f.step = "stream" /\ f.on = s /\ f.snap = session[s].history
    BY <1>3, <2>6 DEF Serving
  <2> QED BY <2>2, <2>7
<1> HIDE DEF next
<1>5. /\ serving' \in [Handlers -> Serving] /\ serving'[h] = next
      /\ \A g \in Handlers : g # h => serving'[g] = serving[g]
  BY <1>1, <1>2, <1>4, RequestMoves
<1>6. \A g \in Handlers : serving'[g].step # "idle" => InTranscript(g)'
  <2>1. InTranscript(h)'
    BY <1>2, <1>4, <1>5 DEF InTranscript, Appending, On, Rows
  <2>2. ASSUME NEW g \in Handlers, g # h
        PROVE  serving'[g].step # "idle" => InTranscript(g)'
    <3>1. Rows' = Rows /\ serving'[g] = serving[g]
      BY <1>2, <1>5, <2>2 DEF Rows
    <3> QED BY <1>2, <3>1, OthersStay DEF ChatInv
  <2> QED BY <2>1, <2>2
<1>7. CapturedIsInTranscript'
  BY <1>2 DEF ChatInv, CapturedIsInTranscript, Rows
<1>8. \A r \in Rows' : session'[r].lastTurn <= chatClock'
  <2>1. \A r \in Rows : session[r].lastTurn \in Nat /\ session[r].lastTurn <= chatClock
    BY RowsHaveShapes
  <2> QED BY <1>2, <2>1 DEF Rows, ChatInv
<1> QED BY <1>2, <1>5, <1>6, <1>7, <1>8 DEF ChatInv

\* A reply that ends, in whatever way, before its turns are written.
LEMMA StreamEndsKeep ==
  ASSUME ChatInv, NEW h \in Handlers,
         \/ \E blocks \in SUBSET Blocks : StreamFinish(h, blocks)
         \/ KickoffReplay(h) \/ StreamError(h) \/ StreamCancelled(h)
  PROVE  ChatInv'
<1>1. /\ session \in Seq(Session) /\ chatClock \in Nat /\ serving \in [Handlers -> Serving]
      /\ serving[h] \in Serving /\ serving[h].step = "stream"
      /\ UNCHANGED chatClock
  BY DEF ChatInv, StreamFinish, KickoffReplay, StreamError, StreamCancelled, Live, InStep
<1>2. InTranscript(h) /\ CapturedIsInTranscript
  BY <1>1 DEF ChatInv
<1>3. PICK e \in BOOLEAN : session' = session \/ session' = [session EXCEPT ![On(h)].error = e]
  BY DEF StreamFinish, KickoffReplay, StreamError, StreamCancelled
<1>4. /\ session' \in Seq(Session) /\ Rows' = Rows
      /\ \A s \in Rows : /\ session'[s].history = session[s].history
                         /\ session'[s].captured = session[s].captured
                         /\ session'[s].lastTurn = session[s].lastTurn
  <2> DEFINE row == [session[On(h)] EXCEPT !.error = e]
  <2>1. On(h) \in Rows
    BY <1>2 DEF InTranscript
  <2>2. /\ row \in Session /\ row.history = session[On(h)].history
        /\ row.captured = session[On(h)].captured /\ row.lastTurn = session[On(h)].lastTurn
    BY <2>1, RowsHaveShapes DEF Session
  <2>3. CASE session' = session
    BY <1>1, <2>3 DEF Rows
  <2>4. CASE session' = [session EXCEPT ![On(h)].error = e]
    <3>1. session' = [session EXCEPT ![On(h)] = row]
      BY <2>4
    <3> HIDE DEF row
    <3>2. /\ session' \in Seq(Session) /\ Rows' = Rows /\ session'[On(h)] = row
          /\ \A s \in Rows : s # On(h) => session'[s] = session[s]
      BY <1>1, <2>1, <2>2, <3>1, RowIsRewritten
    <3> QED BY <2>2, <3>2
  <2> QED BY <1>3, <2>3, <2>4
<1>5. PICK next \in Serving : /\ serving' = [serving EXCEPT ![h] = next]
                              /\ \/ next.step = "idle"
                                 \/ /\ next.step = "append_user" /\ next.on = serving[h].on
                                    /\ next.snap = serving[h].snap
  <2>1. CASE \E blocks \in SUBSET Blocks : StreamFinish(h, blocks)
    <3>1. PICK blocks \in SUBSET Blocks :
            serving' = [serving EXCEPT ![h].step = "append_user", ![h].reply = blocks]
      BY <2>1 DEF StreamFinish
    <3> DEFINE at == [serving[h] EXCEPT !.step = "append_user"]
               next == [at EXCEPT !.reply = blocks]
    <3>2. serving' = [serving EXCEPT ![h] = next]
      BY <1>1, <3>1
    <3>3. /\ at \in Serving /\ at.step = "append_user" /\ at.on = serving[h].on
          /\ at.snap = serving[h].snap
      BY <1>1 DEF Serving, ChatSteps
    <3> HIDE DEF at
    <3>4. /\ next \in Serving /\ next.step = "append_user" /\ next.on = serving[h].on
          /\ next.snap = serving[h].snap
      BY <3>3 DEF Serving
    <3> HIDE DEF next
    <3> QED BY <3>2, <3>4
  <2>2. CASE KickoffReplay(h) \/ StreamError(h) \/ StreamCancelled(h)
    BY <2>2, NothingIsServed DEF KickoffReplay, StreamError, StreamCancelled, Done
  <2> QED BY <2>1, <2>2
<1>6. /\ serving' \in [Handlers -> Serving] /\ serving'[h] = next
      /\ \A g \in Handlers : g # h => serving'[g] = serving[g]
  BY <1>1, <1>5, RequestMoves
<1>7. \A g \in Handlers : serving'[g].step # "idle" => InTranscript(g)'
  <2>1. serving'[h].step # "idle" => InTranscript(h)'
    BY <1>2, <1>4, <1>5, <1>6 DEF InTranscript, Appending, On
  <2>2. ASSUME NEW g \in Handlers, g # h
        PROVE  serving'[g].step # "idle" => InTranscript(g)'
    <3>1. serving[g].step # "idle" => InTranscript(g) /\ On(g) \in Rows
      BY DEF ChatInv, InTranscript
    <3>2. serving'[g] = serving[g]
      BY <1>6, <2>2
    <3> QED BY <1>4, <3>1, <3>2, OthersStay
  <2> QED BY <2>1, <2>2
<1>8. CapturedIsInTranscript'
  BY <1>2, <1>4 DEF CapturedIsInTranscript
<1>9. \A s \in Rows' : session'[s].lastTurn <= chatClock'
  BY <1>1, <1>4 DEF ChatInv
<1> QED BY <1>1, <1>4, <1>6, <1>7, <1>8, <1>9 DEF ChatInv

\* append_turn reads the history it will write back.
LEMMA ReadKeeps ==
  ASSUME ChatInv, NEW h \in Handlers, ReadForUser(h) \/ ReadForAssistant(h)
  PROVE  ChatInv'
<1>1. PICK step \in {"write_user", "write_assistant"} :
        serving' = [serving EXCEPT ![h].step = step, ![h].read = session[On(h)].history]
  BY DEF ReadForUser, ReadForAssistant, AppendRead
<1>2. /\ serving[h].step # "idle" /\ UNCHANGED <<session, chatClock>>
      /\ serving \in [Handlers -> Serving] /\ serving[h] \in Serving
  BY DEF ReadForUser, ReadForAssistant, AppendRead, InStep, ChatInv
<1>3. InTranscript(h) /\ On(h) \in Rows
  BY <1>2 DEF ChatInv, InTranscript
<1>4. session[On(h)].history \in Seq(Turn)
  BY <1>3, RowsHaveShapes
<1> DEFINE at == [serving[h] EXCEPT !.step = step]
           next == [at EXCEPT !.read = session[On(h)].history]
<1>5. serving' = [serving EXCEPT ![h] = next]
  BY <1>1, <1>2
<1>6. at \in Serving /\ at.step = step /\ at.on = serving[h].on /\ at.snap = serving[h].snap
  BY <1>2 DEF Serving, ChatSteps
<1> HIDE DEF at
<1>7. /\ next \in Serving /\ next.step = step /\ next.on = serving[h].on
      /\ next.snap = serving[h].snap /\ next.read = session[On(h)].history
  BY <1>4, <1>6 DEF Serving
<1> HIDE DEF next
<1>8. /\ serving' \in [Handlers -> Serving] /\ serving'[h] = next
      /\ \A g \in Handlers : g # h => serving'[g] = serving[g]
  BY <1>2, <1>5, <1>7, RequestMoves
<1>9. \A g \in Handlers : serving'[g].step # "idle" => InTranscript(g)'
  <2>1. InTranscript(h)'
    BY <1>2, <1>3, <1>7, <1>8 DEF InTranscript, Appending, On, Rows
  <2>2. ASSUME NEW g \in Handlers, g # h
        PROVE  serving'[g].step # "idle" => InTranscript(g)'
    <3>1. Rows' = Rows /\ serving'[g] = serving[g]
      BY <1>2, <1>8, <2>2 DEF Rows
    <3> QED BY <1>2, <3>1, OthersStay DEF ChatInv
  <2> QED BY <2>1, <2>2
<1>10. CapturedIsInTranscript' /\ \A s \in Rows' : session'[s].lastTurn <= chatClock'
  BY <1>2 DEF ChatInv, CapturedIsInTranscript, Rows
<1> QED BY <1>2, <1>8, <1>9, <1>10 DEF ChatInv

\* A turn is written behind the history that was read: as long as nobody else is
\* appending, behind the history there is.
LEMMA WriteKeeps ==
  ASSUME ChatInv, AppendsAlone, NEW h \in Handlers, WriteUser(h) \/ WriteAssistant(h)
  PROVE  ChatInv'
<1> DEFINE turn == IF WriteUser(h) THEN UserTurn(serving[h].message)
                                   ELSE AssistantTurn(serving[h].reply)
           step == IF WriteUser(h) THEN "append_assistant" ELSE "capture"
           longer == Append(serving[h].read, turn)
           written == [session[On(h)] EXCEPT !.history = longer]
           row == [written EXCEPT !.lastTurn = chatClock]
           at == [serving[h] EXCEPT !.step = step]
           next == [at EXCEPT !.read = << >>]
<1>1. /\ serving[h].step \in {"write_user", "write_assistant"} /\ UNCHANGED chatClock
      /\ serving \in [Handlers -> Serving] /\ serving[h] \in Serving
      /\ session \in Seq(Session) /\ chatClock \in Nat
      /\ WriteUser(h) \/ serving[h].step = "write_assistant"
  BY DEF WriteUser, WriteAssistant, AppendWrite, InStep, ChatInv
<1>2. InTranscript(h) /\ On(h) \in Rows /\ CapturedIsInTranscript
  BY <1>1 DEF ChatInv, InTranscript
<1>3. /\ session' = [session EXCEPT ![On(h)].history = longer, ![On(h)].lastTurn = chatClock]
      /\ serving' = [serving EXCEPT ![h].step = step, ![h].read = << >>]
  BY <1>1 DEF WriteUser, WriteAssistant, AppendWrite, InStep
<1>4. turn \in Turn
  <2>1. serving[h].message \in {"kickoff", "answer"} /\ serving[h].reply \in SUBSET Blocks
    BY <1>1 DEF Serving
  <2> QED BY <2>1 DEF UserTurn, AssistantTurn, Turn
<1>5. ~WriteUser(h) => turn.blocks = serving[h].reply /\ step = "capture"
  BY DEF AssistantTurn
<1>6. step \in {"append_assistant", "capture"} /\ (step = "capture" => ~WriteUser(h))
  OBVIOUS
<1> HIDE DEF turn, step
<1>7. /\ session[On(h)] \in Session /\ session[On(h)].history \in Seq(Turn)
      /\ session[On(h)].captured \in SUBSET Blocks
  BY <1>2, RowsHaveShapes
<1>8. serving[h].read = session[On(h)].history
  BY <1>1, <1>2 DEF InTranscript, Appending
<1>9. /\ longer \in Seq(Turn)
      /\ CapturedFromHistory(session[On(h)].history) \subseteq CapturedFromHistory(longer)
      /\ turn.blocks \subseteq CapturedFromHistory(longer)
  BY <1>4, <1>7, <1>8, AppendCaptures
<1>10. session' = [session EXCEPT ![On(h)] = row]
  BY <1>1, <1>2, <1>3 DEF Rows
<1>11. serving' = [serving EXCEPT ![h] = next]
  BY <1>1, <1>3
<1> HIDE DEF longer
<1>12. written \in Session /\ written.history = longer /\ written.captured = session[On(h)].captured
  BY <1>7, <1>9 DEF Session
<1> HIDE DEF written
<1>13. /\ row \in Session /\ row.history = longer /\ row.captured = session[On(h)].captured
       /\ row.lastTurn = chatClock
  BY <1>1, <1>12 DEF Session
<1> HIDE DEF row
<1>14. /\ session' \in Seq(Session) /\ Rows' = Rows /\ session'[On(h)] = row
       /\ \A s \in Rows : s # On(h) => session'[s] = session[s]
  BY <1>1, <1>2, <1>10, <1>13, RowIsRewritten
<1>15. at \in Serving /\ at.step = step /\ at.on = On(h) /\ at.snap = serving[h].snap
       /\ at.reply = serving[h].reply
  BY <1>1, <1>6 DEF Serving, ChatSteps, On
<1> HIDE DEF at
<1>16. /\ next \in Serving /\ next.step = step /\ next.on = On(h) /\ next.snap = serving[h].snap
       /\ next.reply = serving[h].reply
  <2>1. << >> \in Seq(Turn)
    OBVIOUS
  <2> QED BY <1>15, <2>1 DEF Serving
<1> HIDE DEF next
<1>17. /\ serving' \in [Handlers -> Serving] /\ serving'[h] = next
       /\ \A g \in Handlers : g # h => serving'[g] = serving[g]
  BY <1>1, <1>11, <1>16, RequestMoves
<1>18. On(h)' = On(h)
  BY <1>16, <1>17 DEF On
<1>19. session'[On(h)'].history = longer
  BY <1>13, <1>14, <1>18
<1>20. CapturedFromHistory(session[On(h)].history)' = CapturedFromHistory(longer)
  BY <1>19 DEF CapturedFromHistory
<1>21. CapturedFromHistory(serving[h].snap)' = CapturedFromHistory(serving[h].snap)
  BY <1>16, <1>17 DEF CapturedFromHistory
<1>22. InTranscript(h)'
  <2>1. CapturedFromHistory(serving[h].snap)' \subseteq CapturedFromHistory(session[On(h)].history)'
    BY <1>2, <1>9, <1>20, <1>21 DEF InTranscript
  <2>2. serving'[h].step = "capture" =>
          serving'[h].reply \subseteq CapturedFromHistory(session[On(h)].history)'
    BY <1>5, <1>6, <1>9, <1>16, <1>17, <1>20
  <2>3. serving'[h].step \notin {"write_user", "write_assistant"}
    BY <1>6, <1>16, <1>17
  <2> QED BY <1>2, <1>14, <1>18, <2>1, <2>2, <2>3 DEF InTranscript, Appending
<1>23. CapturedIsInTranscript'
  <2>1. ASSUME NEW s \in Rows, s # On(h)
        PROVE  session'[s].captured \subseteq CapturedFromHistory(session'[s].history)
    BY <1>2, <1>14, <2>1 DEF CapturedIsInTranscript
  <2>2. session'[On(h)].captured \subseteq CapturedFromHistory(session'[On(h)].history)
    BY <1>2, <1>9, <1>13, <1>14 DEF CapturedIsInTranscript
  <2> QED BY <1>14, <2>1, <2>2 DEF CapturedIsInTranscript, CapturedFromHistory
<1>24. \A s \in Rows' : session'[s].lastTurn <= chatClock'
  BY <1>1, <1>2, <1>13, <1>14 DEF ChatInv
<1>25. \A g \in Handlers : serving'[g].step # "idle" => InTranscript(g)'
  <2>1. ASSUME NEW g \in Handlers, g # h
        PROVE  serving'[g].step # "idle" => InTranscript(g)'
    <3>1. /\ serving[g].step # "idle" => InTranscript(g) /\ On(g) \in Rows
          /\ serving'[g] = serving[g] /\ Rows' = Rows
      BY <1>14, <1>17, <2>1 DEF ChatInv, InTranscript
    <3>2. CASE On(g) = On(h)
      <4>1. ~Appending(g)
        BY <1>1, <2>1, <3>2 DEF AppendsAlone, Appending
      <4>2. session'[On(g)].history = longer
        BY <1>13, <1>14, <3>2
      <4>3. CapturedFromHistory(session[On(g)].history)
              \subseteq CapturedFromHistory(session'[On(g)].history)
        BY <1>9, <3>2, <4>2
      <4> QED BY <3>1, <4>1, <4>3, OthersStay
    <3>3. CASE On(g) # On(h)
      BY <1>14, <3>1, <3>3, OthersStay
    <3> QED BY <3>2, <3>3
  <2> QED BY <1>22, <2>1
<1> QED BY <1>1, <1>14, <1>17, <1>23, <1>24, <1>25 DEF ChatInv

\* What is captured is what the request saw and what it wrote.
LEMMA UpdateCapturedKeeps ==
  ASSUME ChatInv, NEW h \in Handlers, UpdateCaptured(h)
  PROVE  ChatInv'
<1> DEFINE scanned == CapturedFromHistory(serving[h].snap) \cup serving[h].reply
           captured == IF scanned # serving[h].kept THEN scanned ELSE session[On(h)].captured
           row == [session[On(h)] EXCEPT !.captured = captured]
<1>1. /\ serving[h].step = "capture" /\ UNCHANGED chatClock /\ serving' = [serving EXCEPT ![h] = Nothing]
      /\ serving \in [Handlers -> Serving] /\ serving[h] \in Serving
      /\ session \in Seq(Session) /\ chatClock \in Nat
  BY DEF UpdateCaptured, InStep, Done, ChatInv
<1>2. InTranscript(h) /\ On(h) \in Rows /\ CapturedIsInTranscript
  BY <1>1 DEF ChatInv, InTranscript
<1>3. session' = [session EXCEPT ![On(h)] = row]
  <2>1. session' = [session EXCEPT ![On(h)].captured = captured]
    BY DEF UpdateCaptured
  <2> QED BY <2>1
<1>4. /\ session[On(h)] \in Session /\ session[On(h)].captured \in SUBSET Blocks
      /\ serving[h].snap \in Seq(Turn) /\ serving[h].reply \in SUBSET Blocks
  BY <1>1, <1>2, RowsHaveShapes DEF Serving
<1>5. scanned \in SUBSET Blocks
  <2>1. \A i \in DOMAIN serving[h].snap : serving[h].snap[i].blocks \in SUBSET Blocks
    <3>1. \A i \in DOMAIN serving[h].snap : serving[h].snap[i] \in Turn
      BY <1>4
    <3> QED BY <3>1 DEF Turn
  <2> QED BY <1>4, <2>1 DEF CapturedFromHistory
<1>6. scanned \subseteq CapturedFromHistory(session[On(h)].history)
  BY <1>1, <1>2 DEF InTranscript
<1> HIDE DEF scanned
<1>7. captured \in SUBSET Blocks /\ captured \subseteq CapturedFromHistory(session[On(h)].history)
  BY <1>2, <1>4, <1>5, <1>6 DEF CapturedIsInTranscript
<1> HIDE DEF captured
<1>8. /\ row \in Session /\ row.captured = captured /\ row.history = session[On(h)].history
      /\ row.lastTurn = session[On(h)].lastTurn
  BY <1>4, <1>7 DEF Session
<1> HIDE DEF row
<1>9. /\ session' \in Seq(Session) /\ Rows' = Rows /\ session'[On(h)] = row
      /\ \A s \in Rows : s # On(h) => session'[s] = session[s]
  BY <1>1, <1>2, <1>3, <1>8, RowIsRewritten
<1>10. /\ serving' \in [Handlers -> Serving] /\ serving'[h].step = "idle"
       /\ \A g \in Handlers : g # h => serving'[g] = serving[g]
  BY <1>1, NothingIsServed, RequestMoves
<1>11. CapturedIsInTranscript'
  <2>1. ASSUME NEW s \in Rows
        PROVE  session'[s].captured \subseteq CapturedFromHistory(session'[s].history)
    BY <1>2, <1>7, <1>8, <1>9 DEF CapturedIsInTranscript
  <2> QED BY <1>9, <2>1 DEF CapturedIsInTranscript, CapturedFromHistory
<1>12. \A s \in Rows' : session'[s].lastTurn <= chatClock'
  BY <1>1, <1>2, <1>8, <1>9 DEF ChatInv
<1>13. \A g \in Handlers : serving'[g].step # "idle" => InTranscript(g)'
  <2>1. ASSUME NEW g \in Handlers, g # h
        PROVE  serving'[g].step # "idle" => InTranscript(g)'
    <3>1. /\ serving[g].step # "idle" => InTranscript(g) /\ On(g) \in Rows
          /\ serving'[g] = serving[g] /\ Rows' = Rows
      BY <1>9, <1>10, <2>1 DEF ChatInv, InTranscript
    <3>2. \A s \in Rows : session'[s].history = session[s].history
      BY <1>8, <1>9
    <3> QED BY <3>1, <3>2, OthersStay
  <2> QED BY <1>10, <2>1
<1> QED BY <1>1, <1>9, <1>10, <1>11, <1>12, <1>13 DEF ChatInv

-----------------------------------------------------------------------------
\* Every action preserves the invariant.
LEMMA ChatNextKeeps ==
  ASSUME ChatInv, AppendsAlone, [ChatNext]_chatVars
  PROVE  ChatInv'
<1>1. CASE UNCHANGED chatVars
  <2>1. \A h \in Handlers : InTranscript(h)' <=> InTranscript(h)
    BY <1>1 DEF chatVars, InTranscript, Appending, On, Rows, CapturedFromHistory
  <2>2. CapturedIsInTranscript' <=> CapturedIsInTranscript
    BY <1>1 DEF chatVars, CapturedIsInTranscript, Rows, CapturedFromHistory
  <2> QED BY <1>1, <2>1, <2>2 DEF chatVars, ChatInv, Rows
<1>2. CASE (\E k \in UserKeys : SaveKeys(k)) \/ ResetKeys
  BY <1>2, KeysKeep
<1>3. ASSUME NEW h \in Handlers, NEW s \in Rows, NEW message \in {"kickoff", "answer"},
             PostTurn(h, s, message)
      PROVE  ChatInv'
  BY <1>3, PostKeeps
<1>4. ASSUME NEW h \in Handlers,
             \/ \E blocks \in SUBSET Blocks : StreamFinish(h, blocks)
             \/ KickoffReplay(h) \/ StreamError(h) \/ StreamCancelled(h)
      PROVE  ChatInv'
  BY <1>4, StreamEndsKeep
<1>5. ASSUME NEW h \in Handlers,
             \/ ReadForUser(h) \/ WriteUser(h) \/ ReadForAssistant(h) \/ WriteAssistant(h)
             \/ UpdateCaptured(h)
      PROVE  ChatInv'
  BY <1>5, ReadKeeps, WriteKeeps, UpdateCapturedKeeps
<1>6. ASSUME NEW s \in Rows, Finalize(s)
      PROVE  ChatInv'
  <2> DEFINE row == [session[s] EXCEPT !.completed = TRUE]
  <2>1. /\ session' = [session EXCEPT ![s] = row] /\ UNCHANGED <<chatClock, serving>>
    BY <1>6 DEF Finalize
  <2>2. /\ row \in Session /\ row.history = session[s].history
        /\ row.captured = session[s].captured /\ row.lastTurn = session[s].lastTurn
    BY RowsHaveShapes DEF Session
  <2>3. chatClock \in Nat /\ session[s].lastTurn <= chatClock /\ session[s].lastTurn \in Nat
    BY RowsHaveShapes DEF ChatInv
  <2> HIDE DEF row
  <2>4. /\ s \in Rows => row \in Session
        /\ s \in Rows => row.history = session[s].history /\ row.captured = session[s].captured
        /\ s \in Rows => row.lastTurn <= chatClock'
        /\ chatClock' \in Nat /\ chatClock <= chatClock'
    BY <2>1, <2>2, <2>3
  <2> QED BY <2>1, <2>4, RowStepsKeep
<1>7. CASE ChatRestart
  <2>1. /\ serving' \in [Handlers -> Serving] /\ \A h \in Handlers : serving'[h].step = "idle"
        /\ UNCHANGED <<session, chatClock>>
    BY <1>7, NothingIsServed DEF ChatRestart
  <2>2. CapturedIsInTranscript' <=> CapturedIsInTranscript
    BY <2>1 DEF CapturedIsInTranscript, Rows, CapturedFromHistory
  <2> QED BY <2>1, <2>2 DEF ChatInv, Rows
<1> QED BY <1>1, <1>2, <1>3, <1>4, <1>5, <1>6, <1>7 DEF ChatNext

\* Unless two requests are in append_turn on one session, a block counts as captured
\* only if the transcript holds the turn that emitted it, wherever a handler is
\* stopped and however many tabs stream at once (onboarding_interview.py:116-125).
THEOREM CapturedStaysInTranscript ==
  ChatSpec /\ []AppendsAlone => []CapturedIsInTranscript
<1>1. ChatInit => ChatInv
  <2>1. SUFFICES ASSUME ChatInit PROVE ChatInv
    OBVIOUS
  <2>2. session = << >> /\ chatClock = 0 /\ serving = [h \in Handlers |-> Nothing]
    BY <2>1 DEF ChatInit
  <2>3. session \in Seq(Session) /\ Rows = {}
    BY <2>2 DEF Rows
  <2> QED BY <2>2, <2>3, NothingIsServed DEF ChatInv, CapturedIsInTranscript
<1>2. ChatInv /\ AppendsAlone /\ [ChatNext]_chatVars => ChatInv'
  BY ChatNextKeeps
<1>3. ChatInv => CapturedIsInTranscript
  BY DEF ChatInv
<1> QED BY <1>1, <1>2, <1>3, PTL DEF ChatSpec

-----------------------------------------------------------------------------
(* The rows, and what each request holds of them, in their shapes; a request   *)
(* that is served is about a row.                                               *)
ChatShapes ==
  /\ session \in Seq(Session) /\ Len(session) <= MaxSessions /\ chatClock \in Nat
  /\ \A s \in Rows : session[s].lastTurn <= chatClock
  /\ serving \in [Handlers -> Serving]
  /\ \A h \in Handlers : /\ serving[h].step # "idle" => On(h) \in Rows
                         /\ On(h) \in Rows \cup {NoSession}
  /\ saved \in UserKeys \cup {NoKey} /\ chatFaults \in ChatFaults

\* The elements of a history are turns.
LEMMA HistoryIsTurns ==
  ASSUME NEW history \in Seq(Turn)
  PROVE  ToSet(history) \subseteq Turn
BY DEF ToSet

\* A row has the shape of a row, and was written at some time.
LEMMA RowsAreTyped ==
  ASSUME ChatShapes, NEW s \in Rows
  PROVE  session[s] \in Session /\ session[s].lastTurn \in Nat /\ session[s].lastTurn <= chatClock
<1>1. session[s] \in Session /\ session[s].lastTurn <= chatClock
  BY DEF ChatShapes, Rows
<1> QED BY <1>1 DEF Session

\* The shapes are the types.
LEMMA ChatIsTyped == ChatShapes => ChatTypeOK
<1> SUFFICES ASSUME ChatShapes PROVE ChatTypeOK
  OBVIOUS
<1>1. ASSUME NEW s \in Rows
      PROVE  /\ ToSet(session[s].history) \subseteq Turn /\ session[s].captured \subseteq Blocks
             /\ session[s].key \in UserKeys \cup {NoKey}
             /\ session[s].completed \in BOOLEAN /\ session[s].error \in BOOLEAN
             /\ session[s].lastTurn \in 0 .. chatClock
  <2>1. session[s] \in Session /\ session[s].lastTurn <= chatClock /\ chatClock \in Nat
    BY DEF ChatShapes, Rows
  <2>2. session[s].history \in Seq(Turn)
    BY <2>1 DEF Session
  <2>3. ToSet(session[s].history) \subseteq Turn
    BY <2>2, HistoryIsTurns
  <2> QED BY <2>1, <2>3 DEF Session
<1>2. ASSUME NEW h \in Handlers
      PROVE  /\ serving[h].step \in ChatSteps /\ serving[h].on \in Rows \cup {NoSession}
             /\ serving[h].reply \cup serving[h].kept \subseteq Blocks
             /\ ToSet(serving[h].snap) \cup ToSet(serving[h].read) \subseteq Turn
  <2>1. serving[h] \in Serving /\ serving[h].on \in Rows \cup {NoSession}
    BY DEF ChatShapes, On
  <2>2. serving[h].snap \in Seq(Turn) /\ serving[h].read \in Seq(Turn)
    BY <2>1 DEF Serving
  <2>3. ToSet(serving[h].snap) \subseteq Turn /\ ToSet(serving[h].read) \subseteq Turn
    BY <2>2, HistoryIsTurns
  <2> QED BY <2>1, <2>3 DEF Serving
<1> QED BY <1>1, <1>2 DEF ChatShapes, ChatTypeOK

\* A row that is rewritten, or added, in its shape.
LEMMA RowKeepsShapes ==
  ASSUME ChatShapes, NEW s \in Rows, NEW row \in Session, row.lastTurn <= chatClock,
         session' = [session EXCEPT ![s] = row], UNCHANGED chatClock
  PROVE  /\ session' \in Seq(Session) /\ Len(session') = Len(session) /\ Rows' = Rows
         /\ \A r \in Rows' : session'[r].lastTurn <= chatClock'
<1>1. session \in Seq(Session)
  BY DEF ChatShapes
<1>2. /\ session' \in Seq(Session) /\ Rows' = Rows /\ session'[s] = row
      /\ \A r \in Rows : r # s => session'[r] = session[r]
  BY <1>1, RowIsRewritten
<1>3. Len(session') = Len(session)
  BY <1>1 DEF Rows
<1> QED BY <1>2, <1>3 DEF ChatShapes

\* Every action keeps the shapes, however many requests are served at once.
LEMMA ChatNextIsTyped ==
  ASSUME ChatShapes, [ChatNext]_chatVars
  PROVE  ChatShapes'
<1> DEFINE RowsKept == /\ session' \in Seq(Session) /\ Rows \subseteq Rows' /\ Len(session') <= MaxSessions
                       /\ chatClock' \in Nat /\ \A s \in Rows' : session'[s].lastTurn <= chatClock'
           Moved == /\ serving' \in [Handlers -> Serving]
                    /\ \A h \in Handlers : /\ serving'[h].step # "idle" => serving'[h].on \in Rows
                                           /\ serving'[h].on \in Rows \cup {NoSession}
<1>1. /\ session \in Seq(Session) /\ Len(session) <= MaxSessions /\ chatClock \in Nat
      /\ \A s \in Rows : session[s] \in Session /\ session[s].lastTurn <= chatClock /\ session[s].lastTurn \in Nat
      /\ serving \in [Handlers -> Serving]
      /\ \A h \in Handlers : serving[h].step # "idle" => On(h) \in Rows
      /\ \A h \in Handlers : On(h) \in Rows \cup {NoSession}
      /\ saved \in UserKeys \cup {NoKey} /\ chatFaults \in ChatFaults
  BY RowsAreTyped DEF ChatShapes
<1>2. RowsKept /\ Moved /\ saved' \in UserKeys \cup {NoKey} /\ chatFaults' = chatFaults => ChatShapes'
  BY <1>1 DEF ChatShapes, On
<1>3. UNCHANGED <<session, chatClock>> => RowsKept
  BY <1>1 DEF Rows
<1>4. UNCHANGED serving => Moved
  BY <1>1 DEF On
<1>5. ASSUME NEW s \in Rows, NEW row \in Session, row.lastTurn <= chatClock,
             session' = [session EXCEPT ![s] = row], UNCHANGED chatClock
      PROVE  RowsKept
  BY <1>1, <1>5, RowKeepsShapes
<1>6. Nothing \in Serving /\ Nothing.step = "idle" /\ Nothing.on = NoSession
  BY NothingIsServed DEF Nothing
<1>7. ASSUME NEW h \in Handlers, NEW next \in Serving, next.step # "idle" => next.on \in Rows,
             next.on \in Rows \cup {NoSession}, serving' = [serving EXCEPT ![h] = next]
      PROVE  Moved
  BY <1>1, <1>7 DEF On
<1>8. ASSUME NEW h \in Handlers, Done(h)
      PROVE  Moved
  BY <1>6, <1>7, <1>8 DEF Done
<1> HIDE DEF RowsKept, Moved
<1>9. FindCredentialsOnly # {} => Newest(FindCredentialsOnly) \in Rows
  BY <1>1, NewestIsThere DEF FindCredentialsOnly, Uncompleted
<1>10. ASSUME NEW k \in UserKeys \cup {NoKey}, FindCredentialsOnly # {},
              session' = [session EXCEPT ![Newest(FindCredentialsOnly)].key = k], UNCHANGED chatClock
       PROVE  RowsKept
  <2>1. PICK s \in Rows : s = Newest(FindCredentialsOnly)
    BY <1>9, <1>10
  <2> DEFINE row == [session[s] EXCEPT !.key = k]
  <2>2. row \in Session /\ row.lastTurn <= chatClock
    BY <1>1 DEF Session
  <2>3. session' = [session EXCEPT ![s] = row]
    BY <1>10, <2>1
  <2> HIDE DEF row
  <2> QED BY <1>5, <1>10, <2>2, <2>3
<1>11. ASSUME NEW k \in UserKeys, SaveKeys(k)
       PROVE  ChatShapes'
  <2>1. CASE FindCredentialsOnly # {}
    BY <1>1, <1>2, <1>4, <1>10, <1>11, <2>1 DEF SaveKeys
  <2>2. CASE FindCredentialsOnly = {}
    <3> DEFINE row == [history |-> <<>>, captured |-> {}, key |-> k,
                       completed |-> FALSE, error |-> FALSE, lastTurn |-> chatClock']
    <3>1. /\ Len(session) < MaxSessions /\ chatClock' = chatClock + 1
          /\ session' = Append(session, row) /\ saved' = k /\ UNCHANGED <<serving, chatFaults>>
      BY <1>11, <2>2 DEF SaveKeys
    <3>2. chatClock' \in Nat /\ row \in Session /\ row.lastTurn = chatClock'
      <4>1. <<>> \in Seq(Turn) /\ chatClock' \in Nat
        BY <1>1, <3>1
      <4> QED BY <4>1 DEF Session
    <3> HIDE DEF row
    <3>3. /\ session' \in Seq(Session) /\ Len(session') = Len(session) + 1
          /\ session'[Len(session) + 1] = row
          /\ \A s \in 1 .. Len(session) : session'[s] = session[s]
      BY <1>1, <3>1, <3>2
    <3>4. Len(session') <= MaxSessions
      BY <1>1, <3>1, <3>3, ChatAssumption
    <3>5. RowsKept
      BY <1>1, <3>1, <3>2, <3>3, <3>4 DEF RowsKept, Rows
    <3> QED BY <1>2, <1>4, <3>1, <3>5
  <2> QED BY <2>1, <2>2
<1>12. CASE ResetKeys
  BY <1>2, <1>4, <1>10, <1>12 DEF ResetKeys
<1>13. ASSUME NEW h \in Handlers, NEW s \in Rows, NEW message \in {"kickoff", "answer"}, PostTurn(h, s, message)
       PROVE  ChatShapes'
  <2> DEFINE next == [Nothing EXCEPT !.step = "stream", !.on = s, !.message = message,
                           !.snap = session[s].history, !.kept = session[s].captured,
                           !.key = ChatKey(s)]
  <2>1. session[s].history \in Seq(Turn) /\ session[s].captured \in SUBSET Blocks
        /\ session[s].key \in UserKeys \cup {NoKey} /\ s \in Int
    BY <1>1 DEF Session, Rows
  <2>2. ChatKey(s) \in UserKeys \cup {NoKey}
    <3>1. ASSUME NEW r \in Rows PROVE session[r].key \in UserKeys \cup {NoKey}
      BY <1>1 DEF Session
    <3> QED BY <1>9, <2>1, <3>1 DEF ChatKey
  <2>3. next \in Serving /\ next.on = s
    BY <1>6, <2>1, <2>2 DEF Nothing, Serving, ChatSteps
  <2>4. /\ serving' = [serving EXCEPT ![h] = next] /\ chatClock' = chatClock + 1
        /\ UNCHANGED <<session, saved, chatFaults>>
    BY <1>13 DEF PostTurn
  <2> HIDE DEF next
  <2>5. Moved
    BY <1>7, <2>3, <2>4
  <2>6. RowsKept
    BY <1>1, <2>4 DEF RowsKept, Rows
  <2> QED BY <1>1, <1>2, <2>4, <2>5, <2>6
<1>14. ASSUME NEW h \in Handlers, NEW step \in ChatSteps, serving[h].step # "idle",
              NEW read \in Seq(Turn), NEW reply \in SUBSET Blocks,
              serving' = [serving EXCEPT ![h] = [serving[h] EXCEPT !.step = step, !.read = read, !.reply = reply]]
       PROVE  Moved
  <2> DEFINE next == [serving[h] EXCEPT !.step = step, !.read = read, !.reply = reply]
  <2>1. next \in Serving /\ next.on = On(h)
    BY <1>1 DEF Serving, On
  <2> HIDE DEF next
  <2> QED BY <1>1, <1>7, <1>14, <2>1 DEF next
<1>15. ASSUME NEW h \in Handlers, serving[h].step # "idle"
       PROVE  /\ On(h) \in Rows /\ session[On(h)] \in Session /\ serving[h] \in Serving
              /\ session[On(h)].lastTurn <= chatClock
  BY <1>1, <1>15
<1>16. ASSUME NEW h \in Handlers, serving[h].step # "idle", NEW error \in BOOLEAN,
              session' = [session EXCEPT ![On(h)].error = error], UNCHANGED chatClock
       PROVE  RowsKept
  <2> DEFINE row == [session[On(h)] EXCEPT !.error = error]
  <2>1. row \in Session /\ row.lastTurn <= chatClock
    BY <1>15, <1>16 DEF Session
  <2>2. session' = [session EXCEPT ![On(h)] = row]
    BY <1>16
  <2> HIDE DEF row
  <2> QED BY <1>5, <1>15, <1>16, <2>1, <2>2
<1>17. ASSUME NEW h \in Handlers, KickoffReplay(h) \/ StreamCancelled(h)
       PROVE  ChatShapes'
  BY <1>1, <1>2, <1>3, <1>8, <1>17 DEF KickoffReplay, StreamCancelled
<1>18. ASSUME NEW h \in Handlers, StreamError(h)
       PROVE  ChatShapes'
  BY <1>1, <1>2, <1>8, <1>16, <1>18 DEF StreamError, Live, InStep
<1>19. ASSUME NEW h \in Handlers, NEW blocks \in SUBSET Blocks, StreamFinish(h, blocks)
       PROVE  ChatShapes'
  <2>1. serving[h].step # "idle" /\ serving[h] \in Serving
    BY <1>1, <1>19 DEF StreamFinish, Live, InStep
  <2>2. RowsKept
    BY <1>16, <1>19, <2>1 DEF StreamFinish
  <2>3. /\ serving[h].read \in Seq(Turn)
        /\ serving' = [serving EXCEPT ![h] = [serving[h] EXCEPT !.step = "append_user", !.read = serving[h].read, !.reply = blocks]]
    BY <1>19, <2>1 DEF StreamFinish, Serving
  <2>4. Moved
    BY <1>14, <2>1, <2>3 DEF ChatSteps
  <2> QED BY <1>1, <1>2, <1>19, <2>2, <2>4 DEF StreamFinish
<1>20. ASSUME NEW h \in Handlers, NEW step \in ChatSteps \ {"idle"}, NEW next \in ChatSteps, AppendRead(h, step, next)
       PROVE  ChatShapes'
  <2>1. serving[h].step # "idle" /\ serving[h] \in Serving /\ session[On(h)].history \in Seq(Turn)
    BY <1>15, <1>20 DEF AppendRead, InStep, Session
  <2>2. /\ serving[h].reply \in SUBSET Blocks
        /\ serving' = [serving EXCEPT ![h] = [serving[h] EXCEPT !.step = next, !.read = session[On(h)].history, !.reply = serving[h].reply]]
    BY <1>20, <2>1 DEF AppendRead, Serving
  <2>3. Moved
    BY <1>14, <2>1, <2>2
  <2> QED BY <1>1, <1>2, <1>3, <1>20, <2>3 DEF AppendRead
<1>21. ASSUME NEW h \in Handlers, NEW step \in ChatSteps \ {"idle"}, NEW next \in ChatSteps,
              NEW turn \in Turn, AppendWrite(h, step, turn, next)
       PROVE  ChatShapes'
  <2>1. serving[h].step # "idle" /\ serving[h] \in Serving
    BY <1>15, <1>21 DEF AppendWrite, InStep
  <2>0. serving[h].reply \in SUBSET Blocks /\ serving[h].read \in Seq(Turn) /\ <<>> \in Seq(Turn)
    BY <2>1 DEF Serving
  <2>2. serving' = [serving EXCEPT ![h] = [serving[h] EXCEPT !.step = next, !.read = <<>>, !.reply = serving[h].reply]]
    BY <1>21, <2>1 DEF AppendWrite, Serving
  <2>3. Moved
    BY <1>14, <2>0, <2>1, <2>2
  <2> DEFINE row == [session[On(h)] EXCEPT !.history = Append(serving[h].read, turn), !.lastTurn = chatClock]
  <2>4. row \in Session /\ row.lastTurn <= chatClock
    <3>1. PICK history : history = Append(serving[h].read, turn)
      OBVIOUS
    <3>2. history \in Seq(Turn)
      BY <2>0, <3>1, AppendProperties
    <3>3. row = [[session[On(h)] EXCEPT !.history = history] EXCEPT !.lastTurn = chatClock]
      BY <3>1
    <3> HIDE DEF row
    <3>4. session[On(h)] \in Session /\ chatClock \in Nat
      BY <1>1, <1>15, <2>1
    <3>5. [session[On(h)] EXCEPT !.history = history] \in Session
      BY <3>2, <3>4 DEF Session
    <3>6. PICK longer \in Session : longer = [session[On(h)] EXCEPT !.history = history]
      BY <3>5
    <3>7. row = [longer EXCEPT !.lastTurn = chatClock]
      BY <3>3, <3>6
    <3>8. row \in Session /\ row.lastTurn = chatClock
      BY <3>4, <3>7 DEF Session
    <3> QED BY <3>4, <3>8
  <2>5. session' = [session EXCEPT ![On(h)] = row]
    BY <1>21 DEF AppendWrite
  <2> HIDE DEF row
  <2>6. RowsKept
    BY <1>5, <1>15, <1>21, <2>1, <2>4, <2>5 DEF AppendWrite
  <2> QED BY <1>1, <1>2, <1>21, <2>3, <2>6 DEF AppendWrite
<1>22. ASSUME NEW h \in Handlers, UpdateCaptured(h)
       PROVE  ChatShapes'
  <2>1. serving[h].step # "idle" /\ serving[h] \in Serving /\ session[On(h)] \in Session
    BY <1>15, <1>22 DEF UpdateCaptured, InStep
  <2>2. CapturedFromHistory(serving[h].snap) \cup serving[h].reply \in SUBSET Blocks
    <3>1. serving[h].snap \in Seq(Turn) /\ serving[h].reply \in SUBSET Blocks
      BY <2>1 DEF Serving
    <3>2. ASSUME NEW history \in Seq(Turn), NEW i \in DOMAIN history
          PROVE  history[i].blocks \in SUBSET Blocks
      <4>1. history[i] \in Turn
        BY <3>2
      <4> QED BY <4>1 DEF Turn
    <3>3. CapturedFromHistory(serving[h].snap) \subseteq Blocks
      BY <3>1, <3>2 DEF CapturedFromHistory
    <3> QED BY <3>1, <3>3
  <2>3. PICK captured \in SUBSET Blocks : session' = [session EXCEPT ![On(h)].captured = captured]
    <3>1. session[On(h)].captured \in SUBSET Blocks
      BY <2>1 DEF Session
    <3> QED BY <1>22, <2>2, <3>1 DEF UpdateCaptured
  <2> DEFINE row == [session[On(h)] EXCEPT !.captured = captured]
  <2>4. row \in Session /\ row.lastTurn <= chatClock
    BY <1>15, <2>1 DEF Session
  <2>5. session' = [session EXCEPT ![On(h)] = row]
    BY <2>3
  <2> HIDE DEF row
  <2>6. RowsKept
    BY <1>5, <1>15, <1>22, <2>1, <2>4, <2>5 DEF UpdateCaptured
  <2> QED BY <1>1, <1>2, <1>8, <1>22, <2>6 DEF UpdateCaptured
<1>23. ASSUME NEW s \in Rows, Finalize(s)
       PROVE  ChatShapes'
  <2> DEFINE row == [session[s] EXCEPT !.completed = TRUE]
  <2>1. row \in Session /\ row.lastTurn <= chatClock
    BY <1>1 DEF Session
  <2>2. session' = [session EXCEPT ![s] = row]
    BY <1>23 DEF Finalize
  <2> HIDE DEF row
  <2>3. RowsKept
    BY <1>5, <1>23, <2>1, <2>2 DEF Finalize
  <2> QED BY <1>1, <1>2, <1>4, <1>23, <2>3 DEF Finalize
<1>24. CASE ChatRestart
  <2>1. Moved
    BY <1>6, <1>24 DEF ChatRestart, Moved
  <2> QED BY <1>1, <1>2, <1>3, <1>24, <2>1 DEF ChatRestart
<1>25. CASE UNCHANGED chatVars
  BY <1>1, <1>2, <1>3, <1>4, <1>25 DEF chatVars
<1>26. ASSUME NEW h \in Handlers, ReadForUser(h) \/ WriteUser(h) \/ ReadForAssistant(h) \/ WriteAssistant(h)
       PROVE  ChatShapes'
  <2>1. {"append_user", "write_user", "append_assistant", "write_assistant"} \subseteq ChatSteps \ {"idle"}
        /\ "capture" \in ChatSteps
    BY DEF ChatSteps
  <2>2. serving[h] \in Serving
    BY <1>1
  <2>3. UserTurn(serving[h].message) \in Turn /\ AssistantTurn(serving[h].reply) \in Turn
    BY <2>2 DEF Serving, UserTurn, AssistantTurn, Turn
  <2> QED BY <1>20, <1>21, <1>26, <2>1, <2>3 DEF ReadForUser, WriteUser, ReadForAssistant, WriteAssistant
<1> QED
  BY <1>11, <1>12, <1>13, <1>17, <1>18, <1>19, <1>22, <1>23, <1>24, <1>25, <1>26 DEF ChatNext

\* There is no row at first.
LEMMA ChatInitIsTyped == ChatInit => ChatShapes
BY NothingIsServed, ChatAssumption DEF ChatInit, ChatShapes, Rows, On, Nothing

\* The sessions and the requests keep their types, for any handlers, keys, blocks and
\* faults, and however the requests interleave (session_store.py:24-41).
THEOREM ChatTypeCorrect == ChatSpec => []ChatTypeOK
<1>1. ChatInit => ChatShapes
  BY ChatInitIsTyped
<1>2. ChatShapes /\ [ChatNext]_chatVars => ChatShapes'
  BY ChatNextIsTyped
<1>3. ChatShapes => ChatTypeOK
  BY ChatIsTyped
<1> QED BY <1>1, <1>2, <1>3, PTL DEF ChatSpec

(***************************************************************************)
(* Finalization.                                                           *)
(***************************************************************************)

FinRow == [step : FinSteps, id : Contents, left : Seq(Destinations), dir : Seconds, env : BOOLEAN]

Typed == InjectTypeOK /\ fin \in [Finalizers -> FinRow] /\ second <= attempts

(* A request past its commit, and every later gate, find the required files.    *)
RequiredInPlace == \A d \in ToSet(Required) : file[d] # Absent

RequiredFirst ==
  /\ BoardServed \/ gate # "interview" => RequiredInPlace
  /\ \A f \in Finalizers :
       /\ FinIn(f, "mark") => RequiredInPlace
       /\ FinIn(f, "verify") => ToSet(Required) \subseteq ToSet(fin[f].left)
       /\ FinIn(f, "commit") => \A d \in ToSet(Required) :
                                  d \in ToSet(fin[f].left) \/ file[d] # Absent

ConfigInv == Typed /\ RequiredFirst

(* One finalization at a time, whichever handler serves it.                     *)
OneFinalization ==
  \A f, g \in Finalizers : ~FinIn(f, "idle") /\ ~FinIn(g, "idle") => f = g

(* It works in a second of its own, and its copy of the                         *)
(* files it has still to replace is as they are.  What earlier attempts          *)
(* overwrote is in the backups of earlier seconds.                              *)
Once(s) == \A i, j \in 1 .. Len(s) : s[i] = s[j] => i = j
Copied(D) == \A d \in D : file[d] = Absent \/ backups[second][d] = file[d]
Begun == \E f \in Finalizers : fin[f].step \in {"backup", "stage", "verify"}
Latest(id) == ~Begun /\ \A f \in Finalizers : ~FinIn(f, "idle") => fin[f].id = id

CopyFirst ==
  /\ \A f \in Finalizers :
       /\ FinIn(f, "idle") => fin[f] = NoFin
       /\ fin[f].step \in {"stage", "verify", "commit"} => fin[f].dir = second
       /\ fin[f].step \in {"verify", "commit"} => Once(fin[f].left)
       /\ fin[f].step \in {"stage", "verify"} => Copied(Destinations)
       /\ FinIn(f, "commit") => Copied(ToSet(fin[f].left))
  /\ \A p \in replaced : p[3] \notin torn =>
       \E t \in Seconds : backups[t][p[1]] = p[2] /\ (t < second \/ (t = second /\ Latest(p[3])))

BackupInv == Typed /\ CopyFirst

(* An attempt's number is its own; nothing holds it before the attempt's key    *)
(* is verified, and a refused one was never to be written.                      *)
NumberIsOwn ==
  /\ \A f \in Finalizers : ~FinIn(f, "idle") =>
       /\ fin[f].id <= attempts /\ fin[f].id \notin refusedKeys
       /\ \A g \in Finalizers : g # f /\ ~FinIn(g, "idle") => fin[g].id # fin[f].id
       /\ fin[f].step \in {"backup", "stage", "verify"} =>
            \A d \in Destinations : file[d] # fin[f].id
  /\ \A d \in Destinations : file[d] = Absent \/ file[d] <= attempts
  /\ \A n \in refusedKeys : n <= attempts

KeyInv == Typed /\ NumberIsOwn /\ FailedKeyWritesNothing

-----------------------------------------------------------------------------
\* A request that changes its row touches no other.
LEMMA FinMoves ==
  ASSUME fin \in [Finalizers -> FinRow], NEW f \in Finalizers, NEW next \in FinRow,
         fin' = [fin EXCEPT ![f] = next]
  PROVE  /\ fin' \in [Finalizers -> FinRow] /\ fin'[f] = next
         /\ \A g \in Finalizers : g # f => fin'[g] = fin[g]
OBVIOUS

\* The row of a request that goes on.
LEMMA FinGoesOn ==
  ASSUME fin \in [Finalizers -> FinRow], NEW f \in Finalizers, NEW step \in FinSteps,
         FinGoes(f, step)
  PROVE  /\ fin' \in [Finalizers -> FinRow]
         /\ fin'[f].step = step /\ fin'[f].left = fin[f].left
         /\ fin'[f].dir = fin[f].dir /\ fin'[f].id = fin[f].id
         /\ \A g \in Finalizers : g # f => fin'[g] = fin[g]
<1> DEFINE next == [fin[f] EXCEPT !.step = step]
<1>1. /\ next \in FinRow /\ next.step = step /\ next.left = fin[f].left
      /\ next.dir = fin[f].dir /\ next.id = fin[f].id
  BY DEF FinRow
<1>2. fin' = [fin EXCEPT ![f] = next]
  BY DEF FinGoes
<1> HIDE DEF next
<1> QED BY <1>1, <1>2, FinMoves

\* No request is a row.
LEMMA NoFinIsRow ==
  NoFin \in FinRow /\ NoFin.step = "idle"
BY InjectAssumption DEF NoFin, FinRow, FinSteps, Contents, Seconds

\* Another element at the end of a sequence.
LEMMA OneMore ==
  ASSUME NEW S, NEW s \in Seq(S), Once(s), NEW x \in S, x \notin ToSet(s)
  PROVE  /\ s \o <<x>> \in Seq(S) /\ Once(s \o <<x>>)
         /\ ToSet(s \o <<x>>) = ToSet(s) \cup {x}
<1> DEFINE r == s \o <<x>>
<1>1. /\ r \in Seq(S) /\ Len(r) = Len(s) + 1 /\ r[Len(s) + 1] = x
      /\ \A i \in 1 .. Len(s) : r[i] = s[i]
  OBVIOUS
<1>2. \A i \in 1 .. Len(s) : s[i] \in ToSet(s)
  BY DEF ToSet
<1> HIDE DEF r
<1>3. Once(r)
  BY <1>1, <1>2 DEF Once
<1>4. ToSet(r) = ToSet(s) \cup {x}
  BY <1>1 DEF ToSet
<1> QED BY <1>1, <1>3, <1>4 DEF r

\* The first of a sequence, and what is left.
LEMMA OneLess ==
  ASSUME NEW S, NEW s \in Seq(S), s # <<>>
  PROVE  /\ Tail(s) \in Seq(S) /\ Head(s) \in S
         /\ ToSet(s) = {Head(s)} \cup ToSet(Tail(s))
         /\ Once(s) => Once(Tail(s)) /\ Head(s) \notin ToSet(Tail(s))
<1> DEFINE r == Tail(s)
<1>1. /\ r \in Seq(S) /\ Len(r) = Len(s) - 1 /\ Len(s) > 0 /\ Head(s) = s[1] /\ s[1] \in S
      /\ \A i \in 1 .. Len(r) : r[i] = s[i + 1]
  OBVIOUS
<1> HIDE DEF r
<1>2. Once(s) => Once(r) /\ Head(s) \notin ToSet(r)
  <2>1. \A i \in 1 .. Len(r) : i + 1 \in 1 .. Len(s) /\ 1 \in 1 .. Len(s) /\ i + 1 # 1
    BY <1>1
  <2>2. DOMAIN r = 1 .. Len(r)
    BY <1>1
  <2>3. Once(s) => Once(r)
    BY <1>1, <2>1 DEF Once
  <2>4. Once(s) => Head(s) \notin ToSet(r)
    BY <1>1, <2>1, <2>2 DEF Once, ToSet
  <2> QED BY <2>3, <2>4
<1>3. ToSet(s) \subseteq {Head(s)} \cup ToSet(r)
  <2> SUFFICES ASSUME NEW i \in 1 .. Len(s), i # 1
               PROVE  s[i] \in ToSet(r)
    BY <1>1 DEF ToSet
  <2>1. i - 1 \in 1 .. Len(r) /\ r[i - 1] = s[i]
    BY <1>1
  <2> QED BY <1>1, <2>1 DEF ToSet
<1>4. {Head(s)} \cup ToSet(r) \subseteq ToSet(s)
  <2>1. \A i \in 1 .. Len(s) : s[i] \in ToSet(s)
    BY DEF ToSet
  <2>2. \A i \in 1 .. Len(r) : r[i] \in ToSet(s)
    BY <1>1, <2>1
  <2>3. ToSet(r) \subseteq ToSet(s)
    BY <1>1, <2>2 DEF ToSet
  <2> QED BY <1>1, <2>1, <2>3
<1> QED BY <1>1, <1>2, <1>3, <1>4 DEF r

\* The staged files are destinations, each once, and every required one.
LEMMA StagedOnce ==
  ASSUME NEW voice \in {<<Voice>>, <<>>}, NEW staged, staged = Required \o voice \o <<Env>>
  PROVE  /\ staged \in Seq(Destinations) /\ Once(staged)
         /\ ToSet(Required) \subseteq ToSet(staged)
<1>1. Voice \notin ToSet(Required) /\ Env \notin ToSet(Required) \cup {Voice}
  BY InjectAssumption
<1>2. Voice \in Destinations /\ Env \in Destinations /\ ToSet(Required) \subseteq Destinations
  BY DEF Destinations
<1>3. Required \in Seq(Destinations)
  <2>1. Required \in Seq(ToSet(Required))
    BY InjectAssumption
  <2> QED BY <1>2, <2>1
<1>4. Once(Required)
  BY <1>3, InjectAssumption DEF IsInjective, Once
<1>5. PICK first \in Seq(Destinations) :
        /\ first = Required \o voice /\ Once(first)
        /\ ToSet(Required) \subseteq ToSet(first) /\ Env \notin ToSet(first)
  <2>1. CASE voice = <<>>
    <3>1. Required \o voice = Required
      BY <1>3, <2>1
    <3> QED BY <1>1, <1>3, <1>4, <3>1
  <2>2. CASE voice = <<Voice>>
    BY <1>1, <1>2, <1>3, <1>4, <2>2, OneMore
  <2> QED BY <2>1, <2>2
<1>6. staged = first \o <<Env>>
  BY <1>5, Zenon
<1>7. /\ first \o <<Env>> \in Seq(Destinations) /\ Once(first \o <<Env>>)
      /\ ToSet(first \o <<Env>>) = ToSet(first) \cup {Env}
  BY <1>2, <1>5, OneMore
<1> QED BY <1>5, <1>6, <1>7, Zenon

-----------------------------------------------------------------------------
\* Types.  The steps of a request, of the gates and of the board.
LEMMA NextIsTyped ==
  ASSUME Typed, [InjectNext]_injectVars
  PROVE  Typed'
<1> USE DEF Disk, Guard, Ways, Clock, Failed, CommitEnds
<1>1. /\ fin \in [Finalizers -> FinRow] /\ InjectTypeOK /\ second <= attempts
      /\ MaxAttempts \in Nat
  BY InjectAssumption DEF Typed
<1>2. ASSUME fin' \in [Finalizers -> FinRow]
      PROVE  \A f \in Finalizers :
               /\ fin'[f].step \in FinSteps /\ fin'[f].id \in Contents /\ fin'[f].dir \in Seconds
               /\ ToSet(fin'[f].left) \subseteq Destinations /\ fin'[f].env \in BOOLEAN
  <2> SUFFICES ASSUME NEW f \in Finalizers
               PROVE  /\ fin'[f].step \in FinSteps /\ fin'[f].id \in Contents
                      /\ fin'[f].dir \in Seconds /\ fin'[f].env \in BOOLEAN
                      /\ ToSet(fin'[f].left) \subseteq Destinations
    OBVIOUS
  <2>1. fin'[f] \in FinRow
    BY <1>2
  <2>2. fin'[f].left \in Seq(Destinations)
    BY <2>1 DEF FinRow
  <2>3. ToSet(fin'[f].left) \subseteq Destinations
    BY <2>2 DEF ToSet
  <2> QED BY <2>1, <2>3 DEF FinRow
<1>3. ASSUME NEW f \in Finalizers, FinalizeRequest(f)
      PROVE  Typed'
  <2> DEFINE next == [NoFin EXCEPT !.step = "backup", !.id = attempts', !.env = feedKey]
  <2>1. attempts' \in Contents /\ second' \in Seconds /\ second' <= attempts'
    BY <1>1, <1>3 DEF FinalizeRequest, InjectTypeOK, Contents, Seconds
  <2>2. next \in FinRow
    <3>1. feedKey \in BOOLEAN
      BY <1>1 DEF InjectTypeOK
    <3> QED BY <2>1, <3>1, NoFinIsRow DEF FinRow, FinSteps
  <2>3. fin' = [fin EXCEPT ![f] = next]
    BY <1>3 DEF FinalizeRequest
  <2> HIDE DEF next
  <2>4. fin' \in [Finalizers -> FinRow]
    BY <1>1, <2>2, <2>3, FinMoves
  <2> QED BY <1>1, <1>2, <1>3, <2>1, <2>4 DEF FinalizeRequest, Typed, InjectTypeOK
<1>4. ASSUME NEW f \in Finalizers, Backup(f)
      PROVE  Typed'
  <2> DEFINE next == [fin[f] EXCEPT !.step = "stage", !.dir = second]
  <2>1. next \in FinRow
    BY <1>1 DEF FinRow, FinSteps, InjectTypeOK
  <2>2. fin' = [fin EXCEPT ![f] = next]
    BY <1>1, <1>4 DEF Backup, FinRow
  <2> HIDE DEF next
  <2>3. fin' \in [Finalizers -> FinRow]
    BY <1>1, <2>1, <2>2, FinMoves
  <2>4. backups' \in [Seconds -> [Destinations -> Contents \cup {Absent}]]
    BY <1>1, <1>4 DEF Backup, InjectTypeOK
  <2> QED BY <1>1, <1>2, <1>4, <2>3, <2>4 DEF Backup, Typed, InjectTypeOK
<1>5. ASSUME NEW f \in Finalizers, Stage(f)
      PROVE  Typed'
  <2>1. PICK voice \in {<<Voice>>, <<>>} :
          fin' = [fin EXCEPT ![f].step = "verify", ![f].left = Required \o voice \o <<Env>>]
    BY <1>5 DEF Stage
  <2>2. PICK staged : staged = Required \o voice \o <<Env>>
    OBVIOUS
  <2> DEFINE next == [fin[f] EXCEPT !.step = "verify", !.left = staged]
  <2>3. staged \in Seq(Destinations)
    BY <2>2, StagedOnce
  <2>4. next \in FinRow
    BY <1>1, <2>3 DEF FinRow, FinSteps
  <2>5. fin' = [fin EXCEPT ![f] = next]
    BY <1>1, <2>1, <2>2 DEF FinRow
  <2> HIDE DEF next
  <2>6. fin' \in [Finalizers -> FinRow]
    BY <1>1, <2>4, <2>5, FinMoves
  <2> QED BY <1>1, <1>2, <1>5, <2>6 DEF Stage, Typed, InjectTypeOK
<1>6. ASSUME NEW f \in Finalizers, Verified(f) \/ Unlink(f)
      PROVE  Typed'
  <2>1. fin' \in [Finalizers -> FinRow]
    BY <1>1, <1>6, FinGoesOn DEF Verified, Unlink, FinSteps
  <2> QED BY <1>1, <1>2, <1>6, <2>1 DEF Verified, Unlink, Typed, InjectTypeOK
<1>7. ASSUME NEW f \in Finalizers, SmokeCheckFails(f) \/ CommitFails(f) \/ RoutingFails(f) \/ MarkComplete(f)
      PROVE  Typed'
  <2>1. fin' = [fin EXCEPT ![f] = NoFin]
    BY <1>7 DEF SmokeCheckFails, CommitFails, RoutingFails, MarkComplete, Rollback, FinEnds
  <2>2. fin' \in [Finalizers -> FinRow]
    BY <1>1, <2>1, NoFinIsRow, FinMoves
  <2>3. backups' \in [Seconds -> [Destinations -> Contents \cup {Absent}]]
    <3>1. UNCHANGED backups \/ backups' = [backups EXCEPT ![fin[f].dir] = NoBackup]
      BY <1>7 DEF SmokeCheckFails, CommitFails, RoutingFails, MarkComplete, Rollback
    <3>2. NoBackup \in [Destinations -> Contents \cup {Absent}]
      BY DEF NoBackup
    <3>3. backups \in [Seconds -> [Destinations -> Contents \cup {Absent}]]
      BY <1>1 DEF InjectTypeOK
    <3> QED BY <3>1, <3>2, <3>3
  <2>4. refusedKeys' \cup torn' \subseteq Contents
    BY <1>1, <1>7 DEF SmokeCheckFails, CommitFails, RoutingFails, MarkComplete, InjectTypeOK
  <2>5. gate' \in Gates /\ sentinel' \in BOOLEAN
    BY <1>1, <1>7 DEF SmokeCheckFails, CommitFails, RoutingFails, MarkComplete, InjectTypeOK, Gates
  <2> QED BY <1>1, <1>2, <1>7, <2>2, <2>3, <2>4, <2>5
          DEF SmokeCheckFails, CommitFails, RoutingFails, MarkComplete, Typed, InjectTypeOK
<1>8. ASSUME NEW f \in Finalizers, Commit(f)
      PROVE  Typed'
  <2> DEFINE next == [fin[f] EXCEPT !.left = Tail(fin[f].left)]
             d == Head(fin[f].left)
  <2>1. fin[f].left \in Seq(Destinations) /\ fin[f].left # <<>> /\ fin[f].id \in Contents
        /\ fin[f].env \in BOOLEAN
    BY <1>1, <1>8 DEF Commit, FinRow
  <2>2. d \in Destinations /\ Tail(fin[f].left) \in Seq(Destinations)
    BY <2>1
  <2>3. next \in FinRow
    BY <1>1, <2>2 DEF FinRow
  <2>4. fin' = [fin EXCEPT ![f] = next]
    BY <1>1, <1>8 DEF Commit, FinRow
  <2>5. /\ file' = [file EXCEPT ![d] = fin[f].id]
        /\ replaced' = IF file[d] = Absent THEN replaced ELSE replaced \cup {<<d, file[d], fin[f].id>>}
        /\ feedKey' = IF d = Env THEN fin[f].env ELSE feedKey
        /\ UNCHANGED <<backups, Guard, gate, Clock, Failed>>
    BY <1>8 DEF Commit
  <2> HIDE DEF next, d
  <2>6. fin' \in [Finalizers -> FinRow]
    BY <1>1, <2>3, <2>4, FinMoves
  <2>7. /\ file' \in [Destinations -> Contents \cup {Absent}]
        /\ replaced' \subseteq Destinations \X Contents \X Contents /\ feedKey' \in BOOLEAN
    BY <1>1, <2>1, <2>2, <2>5 DEF InjectTypeOK
  <2> QED BY <1>1, <1>2, <2>5, <2>6, <2>7 DEF Typed, InjectTypeOK
<1>9. CASE FeedCheck \/ TimezoneStep \/ SpendCeilingStep \/ FeedConfigStep \/ GmailStep
           \/ ConnectionsStep \/ Rerun \/ OpenBoard \/ UNCHANGED injectVars
  BY <1>1, <1>9 DEF FeedCheck, TimezoneStep, SpendCeilingStep, FeedConfigStep, GmailStep,
    ConnectionsStep, Rerun, OpenBoard, injectVars, Gates, Typed, InjectTypeOK
<1>10. CASE InjectRestart
  <2>1. fin' \in [Finalizers -> FinRow]
    BY <1>10, NoFinIsRow DEF InjectRestart
  <2> QED BY <1>1, <1>2, <1>10, <2>1 DEF InjectRestart, Typed, InjectTypeOK
<1> QED
  BY <1>3, <1>4, <1>5, <1>6, <1>7, <1>8, <1>9, <1>10 DEF InjectNext

\* The types hold at first.
LEMMA InitIsTyped ==
  ASSUME InjectInit PROVE Typed
<1>1. MaxAttempts \in Nat
  BY InjectAssumption
<1>2. fin \in [Finalizers -> FinRow] /\ \A f \in Finalizers : fin[f] = NoFin
  BY NoFinIsRow DEF InjectInit
<1>3. ToSet(NoFin.left) = {} /\ NoFin.id = 0 /\ NoFin.dir = 0 /\ NoFin.env = FALSE
  BY DEF NoFin, ToSet
<1>4. 0 \in Contents /\ 0 \in Seconds
  BY <1>1 DEF Contents, Seconds
<1>5. file \in [Destinations -> Contents \cup {Absent}] /\ sentinel \in BOOLEAN
  <2>1. PICK fresh \in BOOLEAN :
          /\ file = [d \in Destinations |-> IF fresh \/ d = Voice THEN Absent ELSE 0]
          /\ sentinel \in IF fresh THEN {FALSE} ELSE BOOLEAN
    BY DEF InjectInit
  <2>2. file \in [Destinations -> Contents \cup {Absent}]
    BY <1>4, <2>1
  <2>3. sentinel \in BOOLEAN
    BY <2>1
  <2> QED BY <2>2, <2>3
<1>6. backups \in [Seconds -> [Destinations -> Contents \cup {Absent}]]
  BY DEF InjectInit, NoBackup
<1>7. \A f \in Finalizers :
        /\ fin[f].step \in FinSteps /\ fin[f].id \in Contents /\ fin[f].dir \in Seconds
        /\ ToSet(fin[f].left) \subseteq Destinations /\ fin[f].env \in BOOLEAN
  <2>1. ToSet(NoFin.left) \subseteq Destinations /\ NoFin.env \in BOOLEAN
    BY <1>3
  <2>2. NoFin.step \in FinSteps /\ NoFin.id \in Contents /\ NoFin.dir \in Seconds
    BY <1>3, <1>4, NoFinIsRow DEF FinSteps
  <2> QED BY <1>2, <2>1, <2>2
<1>8. /\ second = 0 /\ attempts = 0 /\ refusedKeys = {} /\ torn = {} /\ gate = "interview" /\ replaced = {}
      /\ guardCache = FALSE /\ feedKey = FALSE /\ injectFaults \in InjectFaults
  BY DEF InjectInit
<1>9. InjectTypeOK
  BY <1>4, <1>5, <1>6, <1>7, <1>8 DEF InjectTypeOK, Gates
<1> QED BY <1>2, <1>8, <1>9 DEF Typed

-----------------------------------------------------------------------------
\* Every action keeps the required files before what relies on them.
LEMMA NextConfigures ==
  ASSUME ConfigInv, [InjectNext]_injectVars
  PROVE  ConfigInv'
<1> USE DEF Disk, Guard, Ways, Clock, Failed, CommitEnds, FinIn
<1>1. Typed' /\ fin \in [Finalizers -> FinRow] /\ RequiredFirst
      /\ file \in [Destinations -> Contents \cup {Absent}]
  BY NextIsTyped DEF ConfigInv, Typed, InjectTypeOK
<1>2. SUFFICES RequiredFirst'
  BY <1>1 DEF ConfigInv
<1>3. ASSUME NEW f \in Finalizers, NEW next \in FinRow, fin' = [fin EXCEPT ![f] = next],
             UNCHANGED file, BoardServed' => BoardServed, next.step \notin {"mark", "verify", "commit"},
             gate' # "interview" => gate # "interview" \/ FinIn(f, "mark")
      PROVE  RequiredFirst'
  <2>1. fin'[f] = next /\ \A g \in Finalizers : g # f => fin'[g] = fin[g]
    BY <1>1, <1>3, FinMoves
  <2> QED BY <1>1, <1>3, <2>1 DEF RequiredFirst, RequiredInPlace
<1>4. ASSUME NEW f \in Finalizers, FinalizeRequest(f)
      PROVE  RequiredFirst'
  <2> DEFINE next == [NoFin EXCEPT !.step = "backup", !.id = attempts', !.env = feedKey]
  <2>1. /\ fin' = [fin EXCEPT ![f] = next]
        /\ UNCHANGED <<file, sentinel, guardCache, gate>>
    BY <1>4 DEF FinalizeRequest
  <2>2. next.step = "backup"
    BY DEF NoFin
  <2> HIDE DEF next
  <2>3. \A g \in Finalizers : fin'[g] = fin[g] \/ fin'[g].step = "backup"
    BY <1>1, <2>1, <2>2
  <2> QED BY <1>1, <2>1, <2>3 DEF RequiredFirst, RequiredInPlace, BoardServed
<1>5. ASSUME NEW f \in Finalizers, Backup(f)
      PROVE  RequiredFirst'
  <2> DEFINE next == [fin[f] EXCEPT !.step = "stage", !.dir = second]
  <2>1. /\ fin' = [fin EXCEPT ![f] = next] /\ UNCHANGED <<file, sentinel, guardCache, gate>>
    BY <1>1, <1>5 DEF Backup, FinRow
  <2>2. next.step = "stage"
    BY <1>1 DEF FinRow
  <2> HIDE DEF next
  <2>3. \A g \in Finalizers : fin'[g] = fin[g] \/ fin'[g].step = "stage"
    BY <1>1, <2>1, <2>2
  <2> QED BY <1>1, <2>1, <2>3 DEF RequiredFirst, RequiredInPlace, BoardServed
<1>6. ASSUME NEW f \in Finalizers, Stage(f)
      PROVE  RequiredFirst'
  <2>1. PICK voice \in {<<Voice>>, <<>>} :
          fin' = [fin EXCEPT ![f].step = "verify", ![f].left = Required \o voice \o <<Env>>]
    BY <1>6 DEF Stage
  <2>2. PICK staged : staged = Required \o voice \o <<Env>>
    OBVIOUS
  <2> DEFINE next == [fin[f] EXCEPT !.step = "verify", !.left = staged]
  <2>3. ToSet(Required) \subseteq ToSet(staged)
    BY <2>2, StagedOnce
  <2>4. next.step = "verify" /\ next.left = staged
    BY <1>1 DEF FinRow
  <2>5. fin' = [fin EXCEPT ![f] = next] /\ UNCHANGED <<file, sentinel, guardCache, gate>>
    BY <1>1, <1>6, <2>1, <2>2 DEF Stage, FinRow
  <2> HIDE DEF next
  <2>6. fin'[f] = next /\ \A g \in Finalizers : g # f => fin'[g] = fin[g]
    BY <1>1, <2>5
  <2> QED BY <1>1, <2>3, <2>4, <2>5, <2>6 DEF RequiredFirst, RequiredInPlace, BoardServed
<1>7. ASSUME NEW f \in Finalizers, Verified(f)
      PROVE  RequiredFirst'
  <2>1. /\ fin'[f].step = "commit" /\ fin'[f].left = fin[f].left
        /\ \A g \in Finalizers : g # f => fin'[g] = fin[g]
    BY <1>1, <1>7, FinGoesOn DEF Verified, FinSteps
  <2> QED BY <1>1, <1>7, <2>1 DEF Verified, RequiredFirst, RequiredInPlace, BoardServed
<1>8. ASSUME NEW f \in Finalizers, Unlink(f)
      PROVE  RequiredFirst'
  <2>1. /\ fin'[f].step = "mark" /\ \A g \in Finalizers : g # f => fin'[g] = fin[g]
    BY <1>1, <1>8, FinGoesOn DEF Unlink, FinSteps
  <2>2. fin[f].left = <<>> /\ FinIn(f, "commit") /\ UNCHANGED <<file, guardCache, gate>>
        /\ sentinel' = FALSE
    BY <1>8 DEF Unlink
  <2>3. RequiredInPlace
    BY <1>1, <2>2 DEF RequiredFirst, RequiredInPlace, ToSet
  <2> QED BY <1>1, <2>1, <2>2, <2>3 DEF RequiredFirst, RequiredInPlace, BoardServed
<1>9. ASSUME NEW f \in Finalizers, SmokeCheckFails(f) \/ CommitFails(f) \/ RoutingFails(f) \/ MarkComplete(f)
      PROVE  RequiredFirst'
  <2>1. /\ fin' = [fin EXCEPT ![f] = NoFin] /\ UNCHANGED <<file, guardCache>>
        /\ sentinel' \in {sentinel, FALSE}
        /\ gate' = gate \/ FinIn(f, "mark")
    BY <1>9 DEF SmokeCheckFails, CommitFails, RoutingFails, MarkComplete, Rollback, FinEnds
  <2>2. BoardServed' => BoardServed
    <3>1. CASE sentinel' = sentinel
      BY <2>1, <3>1 DEF BoardServed
    <3>2. CASE sentinel' = FALSE
      BY <2>1, <3>2 DEF BoardServed
    <3> QED BY <2>1, <3>1, <3>2
  <2> QED BY <1>3, <2>1, <2>2, NoFinIsRow
<1>10. ASSUME NEW f \in Finalizers, Commit(f)
       PROVE  RequiredFirst'
  <2> DEFINE next == [fin[f] EXCEPT !.left = Tail(fin[f].left)]
             d == Head(fin[f].left)
  <2>1. /\ fin[f].left \in Seq(Destinations) /\ fin[f].left # <<>> /\ fin[f].id \in Contents
        /\ FinIn(f, "commit")
    BY <1>1, <1>10 DEF Commit, FinRow
  <2>2. ToSet(fin[f].left) \subseteq {d} \cup ToSet(Tail(fin[f].left)) /\ d \in Destinations
    BY <2>1, OneLess
  <2>3. next.step = "commit" /\ next.left = Tail(fin[f].left)
    BY <1>1, <2>1 DEF FinRow
  <2>4. /\ fin' = [fin EXCEPT ![f] = next] /\ file' = [file EXCEPT ![d] = fin[f].id]
        /\ UNCHANGED <<sentinel, guardCache, gate>>
    BY <1>1, <1>10 DEF Commit, FinRow
  <2>5. fin[f].id # Absent
    BY <2>1, InjectAssumption DEF Contents
  <2> HIDE DEF next, d
  <2>6. fin'[f] = next /\ \A g \in Finalizers : g # f => fin'[g] = fin[g]
    BY <1>1, <2>4
  <2>7. file'[d] # Absent /\ \A e \in Destinations : file[e] # Absent => file'[e] # Absent
    BY <1>1, <2>2, <2>4, <2>5
  <2>8. ToSet(Required) \subseteq Destinations
    BY DEF Destinations
  <2>9. \A g \in Finalizers : FinIn(g, "mark")' => FinIn(g, "mark") /\ g # f
    BY <2>3, <2>6
  <2>10. RequiredInPlace => RequiredInPlace'
    BY <2>7, <2>8 DEF RequiredInPlace
  <2>11. \A g \in Finalizers : FinIn(g, "commit")' =>
            \A e \in ToSet(Required) : e \in ToSet(fin'[g].left) \/ file'[e] # Absent
    BY <1>1, <2>1, <2>2, <2>3, <2>6, <2>7, <2>8 DEF RequiredFirst
  <2>12. \A g \in Finalizers : FinIn(g, "verify")' => ToSet(Required) \subseteq ToSet(fin'[g].left)
    BY <1>1, <2>3, <2>6 DEF RequiredFirst
  <2>13. BoardServed' \/ gate' # "interview" => RequiredInPlace
    BY <1>1, <2>4 DEF RequiredFirst, BoardServed
  <2> QED BY <1>1, <2>9, <2>10, <2>11, <2>12, <2>13 DEF RequiredFirst
<1>11. CASE FeedCheck \/ TimezoneStep \/ SpendCeilingStep \/ FeedConfigStep \/ GmailStep
            \/ ConnectionsStep \/ Rerun \/ OpenBoard \/ UNCHANGED injectVars
  <2>1. UNCHANGED <<file, fin>>
    BY <1>11 DEF FeedCheck, TimezoneStep, SpendCeilingStep, FeedConfigStep, GmailStep,
       ConnectionsStep, Rerun, OpenBoard, injectVars
  <2>2. BoardServed' \/ gate' # "interview" => BoardServed \/ gate # "interview"
    BY <1>11 DEF FeedCheck, TimezoneStep, SpendCeilingStep, FeedConfigStep, GmailStep,
       ConnectionsStep, Rerun, OpenBoard, injectVars, BoardServed
  <2> QED BY <1>1, <2>1, <2>2 DEF RequiredFirst, RequiredInPlace
<1>12. CASE InjectRestart
  <2>1. /\ UNCHANGED <<file, sentinel, gate>> /\ guardCache' = FALSE
        /\ \A f \in Finalizers : fin'[f].step = "idle"
    BY <1>12, NoFinIsRow DEF InjectRestart
  <2> QED BY <1>1, <2>1 DEF RequiredFirst, RequiredInPlace, BoardServed
<1> QED
  BY <1>4, <1>5, <1>6, <1>7, <1>8, <1>9, <1>10, <1>11, <1>12 DEF InjectNext

-----------------------------------------------------------------------------
\* One at a time, every action keeps what is overwritten in a backup.
LEMMA NextBacksUp ==
  ASSUME OneFinalization, OneFinalization', BackupInv, [InjectNext]_injectVars
  PROVE  BackupInv'
<1> USE DEF Disk, Guard, Ways, Clock, Failed, CommitEnds, FinIn
<1>1. Typed' /\ fin \in [Finalizers -> FinRow] /\ CopyFirst /\ second \in Nat
      /\ file \in [Destinations -> Contents \cup {Absent}]
      /\ backups \in [Seconds -> [Destinations -> Contents \cup {Absent}]]
      /\ replaced \subseteq Destinations \X Contents \X Contents /\ second \in Seconds
  BY NextIsTyped, InjectAssumption DEF BackupInv, Typed, InjectTypeOK, Seconds
<1>2. SUFFICES CopyFirst'
  BY <1>1 DEF BackupInv
<1>0. ASSUME NEW f \in Finalizers, fin[f].step # "idle", NEW next, fin' = [fin EXCEPT ![f] = next]
      PROVE  fin'[f] = next /\ \A g \in Finalizers : g # f => fin[g] = NoFin /\ fin'[g] = NoFin
  <2>1. \A g \in Finalizers : g # f => fin[g] = NoFin
    BY <1>0, <1>1 DEF OneFinalization, CopyFirst
  <2> QED BY <1>0, <1>1, <2>1
<1>3. ASSUME NEW f \in Finalizers, FinalizeRequest(f)
      PROVE  CopyFirst'
  <2> DEFINE next == [NoFin EXCEPT !.step = "backup", !.id = attempts', !.env = feedKey]
  <2>1. fin' = [fin EXCEPT ![f] = next] /\ UNCHANGED <<file, backups, replaced, torn>>
    BY <1>3 DEF FinalizeRequest
  <2>2. next.step = "backup"
    BY DEF NoFin
  <2> HIDE DEF next
  <2>3. fin = [g \in Finalizers |-> NoFin]
    <3>1. \A g \in Finalizers : g # f => fin[g].step = "idle"
      BY <1>1, <2>1, <2>2 DEF OneFinalization
    <3>2. \A g \in Finalizers : fin[g] = NoFin
      BY <1>1, <1>3, <3>1 DEF FinalizeRequest, CopyFirst
    <3> QED BY <1>1, <3>2
  <2>4. second' = second + 1 /\ \A g \in Finalizers : fin'[g] = NoFin \/ fin'[g].step = "backup"
    BY <1>1, <1>3, <2>1, <2>2, <2>3 DEF FinalizeRequest
  <2>5. \A p \in replaced' : p[3] \notin torn' =>
          \E t \in Seconds : backups'[t][p[1]] = p[2] /\ t < second'
    <3>1. \A t \in Seconds : t <= second => t < second'
      BY <1>1, <2>4, InjectAssumption DEF Seconds
    <3>2. \A t \in Seconds : t < second \/ t = second => t <= second
      BY <1>1, InjectAssumption DEF Seconds
    <3> QED BY <1>1, <2>1, <3>1, <3>2 DEF CopyFirst
  <2> QED BY <2>4, <2>5, NoFinIsRow DEF CopyFirst
<1>4. ASSUME NEW f \in Finalizers, Backup(f)
      PROVE  CopyFirst'
  <2> DEFINE next == [fin[f] EXCEPT !.step = "stage", !.dir = second]
             copy == [d \in Destinations |-> IF file[d] # Absent THEN file[d]
                                             ELSE backups[second][d]]
  <2>1. /\ fin' = [fin EXCEPT ![f] = next] /\ fin[f].step = "backup"
        /\ UNCHANGED <<file, replaced, second, torn>>
    BY <1>1, <1>4 DEF Backup, FinRow
  <2>2. backups' = [backups EXCEPT ![second] = copy]
    BY <1>1, <1>4 DEF Backup
  <2>3. next.step = "stage" /\ next.dir = second
    BY <1>1 DEF FinRow
  <2>4. \A d \in Destinations : file[d] # Absent => copy[d] = file[d]
    OBVIOUS
  <2> HIDE DEF next, copy
  <2>5. \A g \in Finalizers :
          fin'[g] = NoFin \/ (fin'[g].step = "stage" /\ fin'[g].dir = second)
    BY <1>0, <2>1, <2>3
  <2>6. Copied(Destinations)'
    BY <1>1, <2>1, <2>2, <2>4 DEF Copied
  <2>7. Begun
    BY <2>1 DEF Begun
  <2>8. \A p \in replaced' : p[3] \notin torn' =>
          \E t \in Seconds : backups'[t][p[1]] = p[2] /\ t < second'
    <3>1. \A t \in Seconds : t < second => backups'[t] = backups[t]
      BY <1>1, <2>2
    <3> QED BY <1>1, <2>1, <2>7, <3>1 DEF CopyFirst, Latest
  <2> QED BY <2>1, <2>5, <2>6, <2>8, NoFinIsRow DEF CopyFirst
<1>5. ASSUME NEW f \in Finalizers, Stage(f)
      PROVE  CopyFirst'
  <2>1. PICK voice \in {<<Voice>>, <<>>} :
          fin' = [fin EXCEPT ![f].step = "verify", ![f].left = Required \o voice \o <<Env>>]
    BY <1>5 DEF Stage
  <2>2. PICK staged : staged = Required \o voice \o <<Env>>
    OBVIOUS
  <2> DEFINE next == [fin[f] EXCEPT !.step = "verify", !.left = staged]
  <2>3. Once(staged)
    BY <2>2, StagedOnce
  <2>4. next.step = "verify" /\ next.left = staged /\ next.dir = fin[f].dir
    BY <1>1 DEF FinRow
  <2>5. /\ fin' = [fin EXCEPT ![f] = next] /\ fin[f].step = "stage"
        /\ UNCHANGED <<file, backups, replaced, second, torn>>
    BY <1>1, <1>5, <2>1, <2>2 DEF Stage, FinRow
  <2> HIDE DEF next
  <2>6. \A g \in Finalizers : fin'[g] = NoFin \/ (fin'[g] = next /\ g = f)
    BY <1>0, <2>5
  <2>7. Begun
    BY <2>5 DEF Begun
  <2> QED BY <1>1, <2>3, <2>4, <2>5, <2>6, <2>7, NoFinIsRow DEF CopyFirst, Copied, Latest
<1>6. ASSUME NEW f \in Finalizers, Verified(f) \/ Unlink(f)
      PROVE  CopyFirst'
  <2>1. /\ UNCHANGED <<file, backups, replaced, second, torn>>
        /\ \/ FinGoes(f, "commit") /\ fin[f].step = "verify"
           \/ FinGoes(f, "mark") /\ fin[f].step = "commit"
    BY <1>6 DEF Verified, Unlink
  <2>2. /\ fin'[f].left = fin[f].left /\ fin'[f].dir = fin[f].dir /\ fin'[f].id = fin[f].id
        /\ \/ fin'[f].step = "commit" /\ fin[f].step = "verify"
           \/ fin'[f].step = "mark" /\ fin[f].step = "commit"
    BY <1>1, <2>1, FinGoesOn DEF FinSteps
  <2>3. \A g \in Finalizers : g # f => fin'[g] = NoFin
    <3>1. \A g \in Finalizers : g # f => fin[g] = NoFin /\ fin'[g] = fin[g]
      BY <1>1, <2>1 DEF FinGoes, OneFinalization, CopyFirst
    <3> QED BY <3>1
  <2>4. ToSet(fin[f].left) \subseteq Destinations
    BY DEF BackupInv, Typed, InjectTypeOK
  <2>5. ~Begun'
    BY <2>2, <2>3, NoFinIsRow DEF Begun
  <2>6. \A id : Latest(id) => Latest(id)'
    BY <2>1, <2>2, <2>3, <2>5, NoFinIsRow DEF Latest
  <2> QED BY <1>1, <2>1, <2>2, <2>3, <2>4, <2>6, NoFinIsRow DEF CopyFirst, Copied
<1>7. ASSUME NEW f \in Finalizers, SmokeCheckFails(f) \/ CommitFails(f) \/ RoutingFails(f) \/ MarkComplete(f)
      PROVE  CopyFirst'
  <2>1. /\ fin' = [fin EXCEPT ![f] = NoFin] /\ UNCHANGED <<file, replaced, second>>
        /\ fin[f].step # "idle"
        /\ \/ UNCHANGED <<backups, torn>>
           \/ /\ backups' = [backups EXCEPT ![fin[f].dir] = NoBackup]
              /\ \/ fin[f].step = "verify" /\ UNCHANGED torn
                 \/ fin[f].step = "commit" /\ torn' = torn \cup {fin[f].id}
    BY <1>7 DEF SmokeCheckFails, CommitFails, RoutingFails, MarkComplete, Rollback, FinEnds
  <2>2. \A g \in Finalizers : fin'[g] = NoFin
    BY <1>0, <2>1
  <2>3. ~Begun'
    BY <2>2, NoFinIsRow DEF Begun
  <2>4. CASE /\ backups' = [backups EXCEPT ![fin[f].dir] = NoBackup]
             /\ \/ fin[f].step = "verify" /\ UNCHANGED torn
                \/ fin[f].step = "commit" /\ torn' = torn \cup {fin[f].id}
    <3>1. /\ fin[f].dir = second
          /\ \A p \in replaced : p[3] \notin torn' => p[3] \notin torn /\ ~Latest(p[3])
      BY <1>1, <2>1, <2>4 DEF CopyFirst, Begun, Latest
    <3>2. \A t \in Seconds : t < second => backups'[t] = backups[t]
      BY <1>1, <2>4, <3>1
    <3>3. \A p \in replaced' : p[3] \notin torn' =>
            \E t \in Seconds : backups'[t][p[1]] = p[2] /\ t < second'
      BY <1>1, <2>1, <3>1, <3>2 DEF CopyFirst
    <3> QED BY <2>1, <2>2, <3>3, NoFinIsRow DEF CopyFirst
  <2>5. CASE UNCHANGED <<backups, torn>>
    <3>1. \A id : Latest(id)'
      BY <2>2, <2>3, NoFinIsRow DEF Latest
    <3> QED BY <1>1, <2>1, <2>2, <2>5, <3>1, NoFinIsRow DEF CopyFirst
  <2> QED BY <2>1, <2>4, <2>5
<1>8. ASSUME NEW f \in Finalizers, Commit(f)
      PROVE  CopyFirst'
  <2> DEFINE next == [fin[f] EXCEPT !.left = Tail(fin[f].left)]
             d == Head(fin[f].left)
  <2>1. /\ fin[f].left \in Seq(Destinations) /\ fin[f].left # <<>> /\ fin[f].step = "commit"
        /\ Once(fin[f].left) /\ fin[f].dir = second /\ Copied(ToSet(fin[f].left))
    BY <1>1, <1>8 DEF Commit, FinRow, CopyFirst
  <2>2. /\ ToSet(fin[f].left) = {d} \cup ToSet(Tail(fin[f].left)) /\ d \in Destinations
        /\ Once(Tail(fin[f].left)) /\ d \notin ToSet(Tail(fin[f].left))
    BY <2>1, OneLess
  <2>3. next.step = "commit" /\ next.left = Tail(fin[f].left) /\ next.dir = second /\ next.id = fin[f].id
    BY <1>1, <2>1 DEF FinRow
  <2>4. /\ fin' = [fin EXCEPT ![f] = next] /\ file' = [file EXCEPT ![d] = fin[f].id]
        /\ replaced' = IF file[d] = Absent THEN replaced ELSE replaced \cup {<<d, file[d], fin[f].id>>}
        /\ UNCHANGED <<backups, second, torn>>
    BY <1>1, <1>8 DEF Commit, FinRow
  <2> HIDE DEF next, d
  <2>5. /\ fin'[f] = next
        /\ \A g \in Finalizers : g # f => fin[g] = NoFin /\ fin'[g] = NoFin
    BY <1>0, <2>1, <2>4
  <2>6. \A e \in ToSet(fin'[f].left) : file'[e] = Absent \/ backups'[second'][e] = file'[e]
    <3> DEFINE D == ToSet(Tail(fin[f].left))
    <3>1. \A e \in D : file'[e] = file[e]
      BY <1>1, <2>2, <2>4
    <3>2. \A e \in D : file'[e] = Absent \/ backups'[second'][e] = file'[e]
      BY <2>1, <2>2, <2>4, <3>1 DEF Copied
    <3>3. fin'[f].left = Tail(fin[f].left)
      BY <2>3, <2>5
    <3> QED BY <3>2, <3>3
  <2>7. ~Begun /\ ~Begun'
    BY <2>1, <2>3, <2>5, NoFinIsRow DEF Begun
  <2>8. \A id : Latest(id)' <=> id = fin[f].id
    BY <1>1, <2>1, <2>3, <2>5, <2>7, NoFinIsRow DEF Latest
  <2>9. \A p \in replaced' : p[3] \notin torn =>
          \E t \in Seconds : backups[t][p[1]] = p[2] /\ (t < second \/ (t = second /\ Latest(p[3])'))
    <3>1. file[d] # Absent => backups[second][d] = file[d]
      BY <2>1, <2>2 DEF Copied
    <3>2. \A p \in replaced' : p \in replaced \/ (file[d] # Absent /\ p = <<d, file[d], fin[f].id>>)
      BY <2>4
    <3>3. \A id : Latest(id) => id = fin[f].id
      BY <2>1 DEF Latest
    <3>4. \A p \in replaced : p[3] \notin torn =>
            \E t \in Seconds :
               backups[t][p[1]] = p[2] /\ (t < second \/ (t = second /\ p[3] = fin[f].id))
      BY <1>1, <3>3 DEF CopyFirst
    <3> QED BY <1>1, <2>8, <3>1, <3>2, <3>4
  <2> QED BY <2>2, <2>3, <2>4, <2>5, <2>6, <2>9, NoFinIsRow DEF CopyFirst, Copied
<1>9. CASE FeedCheck \/ TimezoneStep \/ SpendCeilingStep \/ FeedConfigStep \/ GmailStep
           \/ ConnectionsStep \/ Rerun \/ OpenBoard \/ UNCHANGED injectVars
  <2>1. UNCHANGED <<file, fin, backups, replaced, second, torn>>
    BY <1>9 DEF FeedCheck, TimezoneStep, SpendCeilingStep, FeedConfigStep, GmailStep,
       ConnectionsStep, Rerun, OpenBoard, injectVars
  <2> QED BY <1>1, <2>1 DEF CopyFirst, Copied, Begun, Latest
<1>10. CASE InjectRestart
  <2>1. /\ UNCHANGED <<file, backups, replaced, second, torn>>
        /\ \A f \in Finalizers : fin'[f] = NoFin
    BY <1>10 DEF InjectRestart
  <2>2. \A id : Latest(id)'
    BY <2>1, NoFinIsRow DEF Begun, Latest
  <2> QED BY <1>1, <2>1, <2>2, NoFinIsRow DEF CopyFirst
<1> QED
  BY <1>3, <1>4, <1>5, <1>6, <1>7, <1>8, <1>9, <1>10 DEF InjectNext

-----------------------------------------------------------------------------
\* Every action keeps the numbers apart, and a refused one out of the files.
LEMMA NextKeepsNumbers ==
  ASSUME KeyInv, [InjectNext]_injectVars
  PROVE  KeyInv'
<1> USE DEF Disk, Guard, Ways, Clock, Failed, CommitEnds, FinIn
<1>1. /\ Typed' /\ fin \in [Finalizers -> FinRow] /\ attempts \in Nat /\ refusedKeys \subseteq Nat
      /\ file \in [Destinations -> Contents \cup {Absent}] /\ Contents \subseteq Nat /\ Absent \notin Nat
      /\ \A f \in Finalizers : fin[f].id \in Nat
  <2>1. Contents \subseteq Nat /\ Absent \notin Nat
    BY InjectAssumption DEF Contents
  <2> QED BY <2>1, NextIsTyped DEF KeyInv, Typed, InjectTypeOK
<1>2. NumberIsOwn /\ FailedKeyWritesNothing
  BY DEF KeyInv
<1>3. SUFFICES NumberIsOwn' /\ FailedKeyWritesNothing'
  BY <1>1 DEF KeyInv
<1>4. ASSUME NEW f \in Finalizers, FinalizeRequest(f)
      PROVE  NumberIsOwn' /\ FailedKeyWritesNothing'
  <2> DEFINE next == [NoFin EXCEPT !.step = "backup", !.id = attempts', !.env = feedKey]
  <2>1. /\ fin' = [fin EXCEPT ![f] = next] /\ attempts' = attempts + 1 /\ FinIn(f, "idle")
        /\ UNCHANGED <<file, refusedKeys>>
    BY <1>4 DEF FinalizeRequest
  <2>2. next.step = "backup" /\ next.id = attempts + 1
    BY <2>1 DEF NoFin
  <2> HIDE DEF next
  <2>3. fin'[f] = next /\ \A g \in Finalizers : g # f => fin'[g] = fin[g]
    BY <1>1, <2>1
  <2>4. attempts + 1 > attempts /\ \A n \in Nat : n <= attempts => n # attempts + 1 /\ n <= attempts + 1
    BY <1>1
  <2>5. \A d \in Destinations : file[d] # attempts + 1
    BY <1>1, <1>2, <2>4 DEF NumberIsOwn
  <2>6. \A d \in Destinations : file[d] = Absent \/ file[d] <= attempts + 1
    BY <1>1, <1>2, <2>4 DEF NumberIsOwn
  <2>7. attempts + 1 \notin refusedKeys /\ \A n \in refusedKeys : n <= attempts + 1
    BY <1>1, <1>2, <2>4 DEF NumberIsOwn
  <2>8. \A g \in Finalizers : g # f /\ ~FinIn(g, "idle") => fin[g].id # attempts + 1 /\ fin[g].id <= attempts + 1
    BY <1>1, <1>2, <2>4 DEF NumberIsOwn
  <2>9. FailedKeyWritesNothing'
    BY <1>2, <2>1 DEF FailedKeyWritesNothing
  <2>10. NumberIsOwn'
    BY <1>1, <1>2, <2>1, <2>2, <2>3, <2>5, <2>6, <2>7, <2>8 DEF NumberIsOwn
  <2> QED BY <2>9, <2>10
<1>5. ASSUME NEW f \in Finalizers, Backup(f) \/ Stage(f) \/ Verified(f) \/ Unlink(f)
      PROVE  NumberIsOwn' /\ FailedKeyWritesNothing'
  <2>1. /\ UNCHANGED <<file, refusedKeys, attempts>>
        /\ fin[f].step \in {"backup", "stage", "verify", "commit"}
    BY <1>5 DEF Backup, Stage, Verified, Unlink
  <2>2. /\ fin'[f].id = fin[f].id /\ \A g \in Finalizers : g # f => fin'[g] = fin[g]
        /\ fin'[f].step \in {"stage", "verify"} => fin[f].step \in {"backup", "stage"}
        /\ fin'[f].step # "backup"
    <3>1. CASE Backup(f)
      BY <1>1, <3>1 DEF Backup, FinRow
    <3>2. CASE Stage(f)
      BY <1>1, <3>2 DEF Stage, FinRow
    <3>3. CASE Verified(f) \/ Unlink(f)
      BY <1>1, <3>3, FinGoesOn DEF Verified, Unlink, FinSteps
    <3> QED BY <1>5, <3>1, <3>2, <3>3
  <2> QED BY <1>1, <1>2, <2>1, <2>2 DEF NumberIsOwn, FailedKeyWritesNothing
<1>6. ASSUME NEW f \in Finalizers, SmokeCheckFails(f) \/ CommitFails(f) \/ RoutingFails(f) \/ MarkComplete(f)
      PROVE  NumberIsOwn' /\ FailedKeyWritesNothing'
  <2>1. /\ fin' = [fin EXCEPT ![f] = NoFin] /\ UNCHANGED <<file, attempts>>
        /\ \/ UNCHANGED refusedKeys
           \/ fin[f].step = "verify" /\ refusedKeys' = refusedKeys \cup {fin[f].id}
    BY <1>6 DEF SmokeCheckFails, CommitFails, RoutingFails, MarkComplete, Rollback, FinEnds
  <2>2. fin'[f] = NoFin /\ \A g \in Finalizers : g # f => fin'[g] = fin[g]
    BY <1>1, <2>1
  <2> QED BY <1>1, <1>2, <2>1, <2>2, NoFinIsRow DEF NumberIsOwn, FailedKeyWritesNothing
<1>7. ASSUME NEW f \in Finalizers, Commit(f)
      PROVE  NumberIsOwn' /\ FailedKeyWritesNothing'
  <2> DEFINE d == Head(fin[f].left)
             next == [fin[f] EXCEPT !.left = Tail(fin[f].left)]
  <2>1. /\ fin' = [fin EXCEPT ![f] = next] /\ file' = [file EXCEPT ![d] = fin[f].id]
        /\ fin[f].step = "commit" /\ UNCHANGED <<attempts, refusedKeys>>
    BY <1>1, <1>7 DEF Commit, FinRow
  <2>2. next.step = "commit" /\ next.id = fin[f].id
    BY <1>1, <2>1 DEF FinRow
  <2> HIDE DEF next, d
  <2>3. fin'[f] = next /\ \A g \in Finalizers : g # f => fin'[g] = fin[g]
    BY <1>1, <2>1
  <2>4. \A e \in Destinations : file'[e] \in {file[e], fin[f].id}
    BY <1>1, <2>1
  <2> QED BY <1>1, <1>2, <2>1, <2>2, <2>3, <2>4 DEF NumberIsOwn, FailedKeyWritesNothing
<1>8. CASE FeedCheck \/ TimezoneStep \/ SpendCeilingStep \/ FeedConfigStep \/ GmailStep
           \/ ConnectionsStep \/ Rerun \/ OpenBoard \/ UNCHANGED injectVars
  <2>1. UNCHANGED <<file, fin, attempts, refusedKeys>>
    BY <1>8 DEF FeedCheck, TimezoneStep, SpendCeilingStep, FeedConfigStep, GmailStep,
       ConnectionsStep, Rerun, OpenBoard, injectVars
  <2> QED BY <1>1, <1>2, <2>1 DEF NumberIsOwn, FailedKeyWritesNothing
<1>9. CASE InjectRestart
  <2>1. /\ UNCHANGED <<file, attempts, refusedKeys>>
        /\ \A f \in Finalizers : fin'[f].step = "idle"
    BY <1>9, NoFinIsRow DEF InjectRestart
  <2> QED BY <1>1, <1>2, <2>1 DEF NumberIsOwn, FailedKeyWritesNothing
<1> QED
  BY <1>4, <1>5, <1>6, <1>7, <1>8, <1>9 DEF InjectNext

-----------------------------------------------------------------------------
\* Files, backups, requests and gates keep their types.
THEOREM InjectTypeCorrect == InjectSpec => []InjectTypeOK
<1>1. InjectInit => Typed
  BY InitIsTyped
<1>2. Typed /\ [InjectNext]_injectVars => Typed'
  BY NextIsTyped
<1>3. Typed => InjectTypeOK
  BY DEF Typed
<1> QED BY <1>1, <1>2, <1>3, PTL DEF InjectSpec

\* A board is served only on a complete set of required files, however many
\* requests to finalize overlap (onboarding_guard.py:27-43).
THEOREM BoardIsConfigured == InjectSpec => []BoardMeansConfigured
<1>1. InjectInit => ConfigInv
  <2> SUFFICES ASSUME InjectInit PROVE RequiredFirst
    BY InitIsTyped DEF ConfigInv
  <2>1. \A f \in Finalizers : fin[f].step = "idle"
    BY NoFinIsRow DEF InjectInit
  <2>2. PICK fresh \in BOOLEAN :
          /\ file = [d \in Destinations |-> IF fresh \/ d = Voice THEN Absent ELSE 0]
          /\ sentinel \in IF fresh THEN {FALSE} ELSE BOOLEAN
    BY DEF InjectInit
  <2>3. ~fresh => RequiredInPlace
    BY <2>2, InjectAssumption DEF RequiredInPlace, Destinations
  <2>4. gate = "interview" /\ (BoardServed => ~fresh)
    BY <2>2 DEF InjectInit, BoardServed
  <2> QED BY <2>1, <2>3, <2>4 DEF RequiredFirst, FinIn
<1>2. ConfigInv /\ [InjectNext]_injectVars => ConfigInv'
  BY NextConfigures
<1>3. ConfigInv => BoardMeansConfigured
  BY DEF ConfigInv, RequiredFirst, RequiredInPlace, BoardMeansConfigured
<1> QED BY <1>1, <1>2, <1>3, PTL DEF InjectSpec

\* A key that fails its verification has changed no file, however many requests
\* to finalize overlap (injector.py:483-500).
THEOREM RefusedKeyIsHarmless == InjectSpec => []FailedKeyWritesNothing
<1>1. InjectInit => KeyInv
  <2> SUFFICES ASSUME InjectInit PROVE NumberIsOwn /\ FailedKeyWritesNothing
    BY InitIsTyped DEF KeyInv
  <2>1. \A f \in Finalizers : fin[f].step = "idle"
    BY NoFinIsRow DEF InjectInit
  <2>2. \A d \in Destinations : file[d] = Absent \/ file[d] = 0
    BY DEF InjectInit
  <2>3. attempts = 0 /\ refusedKeys = {}
    BY DEF InjectInit
  <2> QED BY <2>1, <2>2, <2>3 DEF NumberIsOwn, FailedKeyWritesNothing, FinIn
<1>2. KeyInv /\ [InjectNext]_injectVars => KeyInv'
  BY NextKeepsNumbers
<1>3. KeyInv => FailedKeyWritesNothing
  BY DEF KeyInv
<1> QED BY <1>1, <1>2, <1>3, PTL DEF InjectSpec

\* As long as no two finalizations overlap, what an attempt overwrites is in a backup,
\* wherever it is stopped and whatever later attempts do, unless it failed with files
\* already replaced (injector.py:288-315, 542-551).
THEOREM BackupHolds == InjectSpec /\ []OneFinalization => []OverwrittenIsBackedUp
<1>1. InjectInit => BackupInv
  <2> SUFFICES ASSUME InjectInit PROVE CopyFirst
    BY InitIsTyped DEF BackupInv
  <2>1. \A f \in Finalizers : fin[f] = NoFin /\ fin[f].step = "idle"
    BY NoFinIsRow DEF InjectInit
  <2> QED BY <2>1 DEF InjectInit, CopyFirst, FinIn
<1>2. BackupInv /\ OneFinalization /\ OneFinalization' /\ [InjectNext]_injectVars => BackupInv'
  BY NextBacksUp
<1>3. BackupInv => OverwrittenIsBackedUp
  BY DEF BackupInv, CopyFirst, OverwrittenIsBackedUp
<1> QED BY <1>1, <1>2, <1>3, PTL DEF InjectSpec
================================================================================
