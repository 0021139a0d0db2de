---------------------------- MODULE StackEdgeProofs ----------------------------
(***************************************************************************)
(* What holds of the components around the pipeline for every value of     *)
(* their constants, and of all of them side by side.  A component has a    *)
(* part of this module of its own; onboarding and the stack have modules.  *)
(***************************************************************************)
EXTENDS MCStackEdge, OnboardingProofs, StackProofs,
        FiniteSetTheorems, SequenceTheorems, WellFoundedInduction, TLAPS

(***************************************************************************)
(* The pipeline log.  Clicks that do not race launch no second triage.     *)
(***************************************************************************)

Calm == logFaults \cap {"volume", "race", "slow"} = {}

(* The scheduled triage, in the second it takes to start.                        *)
Starting(t) == triage[t].phase = "spawned" /\ triage[t].by = "cron"

(* At most one triage runs; once it is announced, or was launched from the       *)
(* panel, which announces it first, the newest cron event is its start.  A       *)
(* handler that has looked and found nothing running is alone, and right.        *)
Announced ==
  Calm =>
    /\ \A t, u \in Triages : Alive(t) /\ Alive(u) => t = u
    /\ \A t \in Triages : Alive(t) /\ ~Starting(t) => current.cron = Started
    /\ clerk # {} => \A t \in Triages : ~Alive(t)
    /\ \A c, d \in clerk : c = d

Triage == [phase : {"none", "spawned", "fetch", "score"}, attempt : Int, by : {"cron", "panel"}]

LogInv == triage \in [Triages -> Triage] /\ slot \in Int /\ Announced

-----------------------------------------------------------------------------
\* A spawned triage is the only one that was not running before.
LEMMA SpawnAddsOne ==
  ASSUME triage \in [Triages -> Triage], NEW how \in {"cron", "panel"}, Spawn(how)
  PROVE  /\ triage' \in [Triages -> Triage]
         /\ \E t \in Triages : /\ triage'[t].phase = "spawned" /\ triage'[t].by = how
                               /\ \A u \in Triages : u # t => triage'[u] = triage[u]
<1> DEFINE next == [phase |-> "spawned", attempt |-> 0, by |-> how]
<1>1. PICK t \in Triages : triage' = [triage EXCEPT ![t] = next]
  BY DEF Spawn
<1>2. next \in Triage /\ next.phase = "spawned" /\ next.by = how
  BY DEF Triage
<1> HIDE DEF next
<1>3. /\ triage' \in [Triages -> Triage] /\ triage'[t] = next
      /\ \A u \in Triages : u # t => triage'[u] = triage[u]
  BY <1>1, <1>2
<1> QED BY <1>2, <1>3

\* A triage in hand that goes on or ends touches no other.
LEMMA TriageMoves ==
  ASSUME triage \in [Triages -> Triage], NEW t \in Triages, NEW next \in Triage,
         triage' = [triage EXCEPT ![t] = next]
  PROVE  /\ triage' \in [Triages -> Triage] /\ triage'[t] = next
         /\ \A u \in Triages : u # t => triage'[u] = triage[u]
OBVIOUS

\* Without a full file, an event is added to those that are read.
LEMMA LogKeeps ==
  ASSUME Calm, NEW fetches, NEW cron, WriteLog(fetches, cron)
  PROVE  current'.cron = cron
BY DEF WriteLog, Calm

-----------------------------------------------------------------------------
\* Every action preserves the invariant.
LEMMA NextAnnounces ==
  ASSUME LogInv, [LogNext]_logVars
  PROVE  LogInv'
<1> triage \in [Triages -> Triage] /\ slot \in Int /\ Announced
  BY DEF LogInv
<1> USE DEF Starting
<1> NoTriage \in Triage
  BY DEF NoTriage, Triage
<1>1. CASE HealthCheck \/ UNCHANGED logVars
  BY <1>1 DEF HealthCheck, logVars, LogInv, Announced, Calm, Alive, SeenRunning, Started
<1>2. CASE NextSlot
  <2>1. UNCHANGED <<current, clerk, logFaults>> /\ slot' \in Int
    BY <1>2 DEF NextSlot
  <2>2. Calm => clerk = {} /\ \A t \in Triages : ~Alive(t)
    BY <1>2 DEF NextSlot, Calm, MayTakeLonger
  <2>3. CASE UNCHANGED triage
    BY <2>1, <2>2, <2>3 DEF LogInv, Announced, Calm, Alive
  <2>4. CASE Spawn("cron")
    <3>1. PICK t \in Triages : /\ triage'[t].phase = "spawned" /\ triage'[t].by = "cron"
                               /\ \A u \in Triages : u # t => triage'[u] = triage[u]
      BY <2>4, SpawnAddsOne
    <3>2. triage' \in [Triages -> Triage]
      BY <2>4, SpawnAddsOne
    <3> QED BY <2>1, <2>2, <3>1, <3>2 DEF LogInv, Announced, Calm, Alive
  <2> QED BY <1>2, <2>3, <2>4 DEF NextSlot
<1>3. CASE ChangeSources
  BY <1>3 DEF ChangeSources, LogInv, Announced, Calm, Alive, SeenRunning, Started
<1>11. CASE ExpireStart
  <2>1. Calm => \A t \in Triages : ~Alive(t)
    BY <1>11 DEF ExpireStart, MayTakeLonger, Calm
  <2> QED BY <1>11, <2>1 DEF ExpireStart, LogInv, Announced, Calm, Alive
<1>4. ASSUME NEW t \in Triages, BeginTriage(t)
      PROVE  LogInv'
  <2> DEFINE next == [phase |-> "fetch", attempt |-> 1, by |-> triage[t].by]
  <2>1. next \in Triage /\ Alive(t) /\ UNCHANGED <<slot, clerk, logFaults>>
    BY <1>4 DEF BeginTriage, Triage, Alive
  <2>2. Calm => current'.cron = Started
    BY <1>4, LogKeeps DEF BeginTriage
  <2>3. triage' = [triage EXCEPT ![t] = next]
    BY <1>4 DEF BeginTriage, Enters
  <2> HIDE DEF next
  <2>4. /\ triage' \in [Triages -> Triage]
        /\ \A u \in Triages : u # t => triage'[u] = triage[u]
    BY <2>1, <2>3, TriageMoves
  <2> QED BY <2>1, <2>2, <2>4 DEF LogInv, Announced, Calm, Alive, SeenRunning, Started
<1>5. ASSUME NEW t \in Triages, FetchJobs(t)
      PROVE  LogInv'
  <2>1. PICK next \in Triage : triage' = [triage EXCEPT ![t] = next]
    <3> DEFINE Retry == [phase |-> "fetch", attempt |-> triage[t].attempt + 1, by |-> triage[t].by]
               Scored == [phase |-> "score", attempt |-> 0, by |-> triage[t].by]
    <3>1. \/ triage' = [triage EXCEPT ![t] = Retry]
          \/ triage' = [triage EXCEPT ![t] = Scored]
      BY <1>5 DEF FetchJobs, Enters
    <3>2. Retry \in Triage /\ Scored \in Triage
      BY DEF Triage
    <3> HIDE DEF Retry, Scored
    <3> QED BY <3>1, <3>2
  <2>2. /\ triage' \in [Triages -> Triage]
        /\ \A u \in Triages : u # t => triage'[u] = triage[u]
    BY <2>1, TriageMoves
  <2>3. triage[t].phase = "fetch" /\ UNCHANGED <<slot, clerk, logFaults>>
    BY <1>5 DEF FetchJobs
  <2>4. Calm => current'.cron = current.cron
    <3>1. PICK fetched : WriteLog(fetched, current.cron)
      BY <1>5 DEF FetchJobs
    <3> QED BY <3>1, LogKeeps
  <2> QED BY <2>2, <2>3, <2>4 DEF LogInv, Announced, Calm, Alive, SeenRunning, Started
<1>6. ASSUME NEW t \in Triages, EndTriage(t) \/ StopTriage(t)
      PROVE  LogInv'
  <2>1. /\ triage' \in [Triages -> Triage] /\ triage'[t] = NoTriage
        /\ \A u \in Triages : u # t => triage'[u] = triage[u]
    BY <1>6, TriageMoves DEF EndTriage, StopTriage
  <2>2. Alive(t) /\ UNCHANGED <<clerk, logFaults>>
    BY <1>6 DEF EndTriage, StopTriage, Alive
  <2>3. Calm => \A u \in Triages : triage'[u].phase = "none"
    BY <2>1, <2>2 DEF Announced, Alive, NoTriage
  <2>4. slot' = slot
    BY <1>6 DEF EndTriage, StopTriage
  <2> QED BY <2>1, <2>2, <2>3, <2>4 DEF LogInv, Announced, Calm, Alive
<1>7. ASSUME NEW c \in Clerks, LookAtPanel(c)
      PROVE  LogInv'
  <2>1. UNCHANGED <<slot, current, triage, logFaults>> /\ clerk' = clerk \cup {c}
    BY <1>7 DEF LookAtPanel
  <2>2. Calm => clerk = {} /\ ~SeenRunning /\ \A t \in Triages : ~Starting(t)
    BY <1>7 DEF LookAtPanel, MayMiss, Calm
  <2> QED BY <2>1, <2>2 DEF LogInv, Announced, Calm, Alive, SeenRunning, Started
<1>8. ASSUME NEW c \in Clerks, RefuseLaunch(c)
      PROVE  LogInv'
  BY <1>8 DEF RefuseLaunch, LogInv, Announced, Calm, Alive, SeenRunning, Started
<1>9. ASSUME NEW c \in Clerks, LaunchTriage(c)
      PROVE  LogInv'
  <2>1. c \in clerk /\ clerk' = clerk \ {c} /\ UNCHANGED <<slot, logFaults>>
    BY <1>9 DEF LaunchTriage
  <2>2. PICK t \in Triages : /\ triage'[t].phase = "spawned"
                             /\ \A u \in Triages : u # t => triage'[u] = triage[u]
    BY <1>9, SpawnAddsOne DEF LaunchTriage
  <2>3. triage' \in [Triages -> Triage]
    BY <1>9, SpawnAddsOne DEF LaunchTriage
  <2>4. Calm => current'.cron = Started
    BY <1>9, LogKeeps DEF LaunchTriage
  <2>5. Calm => clerk' = {} /\ \A u \in Triages : ~Alive(u)
    BY <2>1 DEF Announced
  <2> QED BY <2>1, <2>2, <2>3, <2>4, <2>5 DEF LogInv, Announced, Calm, Alive, SeenRunning, Started
<1>10. ASSUME NEW c \in Clerks, LaunchFails(c)
       PROVE  LogInv'
  BY <1>10 DEF LaunchFails, LogInv, Announced, Calm, Alive
<1> QED
  BY <1>1, <1>2, <1>3, <1>4, <1>5, <1>6, <1>7, <1>8, <1>9, <1>10, <1>11 DEF LogNext

-----------------------------------------------------------------------------
\* Clicks that do not race, on a log that is not full, launch no triage while
\* one is running that ends within the 120 minutes its start counts, however
\* many processes and handlers there are (web/cron_registry.py:159-164,
\* web/cron_dispatch.py:52-84).
THEOREM NeverTwoTriages == LogSpec => []OneTriage
<1>1. LogInit => LogInv
  BY LogAssumption DEF LogInit, LogInv, Announced, Alive, NoTriage, Triage, FirstSlot
<1>2. LogInv /\ [LogNext]_logVars => LogInv'
  BY NextAnnounces
<1>3. LogInv => OneTriage
  BY DEF LogInv, Announced, Calm, OneTriage
<1> QED BY <1>1, <1>2, <1>3, PTL DEF LogSpec

(***************************************************************************)
(* The health check.  What the log says of a feed is what happened to it.  *)
(***************************************************************************)

WorldOK ==
  /\ slot \in Int /\ slot >= FirstSlot /\ on \subseteq Sources
  /\ world \in [Feeds -> [asked : Int, good : Int, gone : Int]]
  /\ \A f \in Feeds : world[f].asked <= slot /\ world[f].good <= slot /\ world[f].gone <= slot

Counted(e, s) == s \in DOMAIN e.counts /\ e.counts[s] > 0

(* What is in the file happened, then or again later.                           *)
FileIsTrue ==
  \A e \in current.fetches :
    /\ e.slot \in Int /\ e.slot <= slot
    /\ DOMAIN e.counts \subseteq Sources /\ e.gone \subseteq Feeds
    /\ \A s \in DOMAIN e.counts :
         /\ e.counts[s] \in 0..Cardinality(Feeds) /\ Since(s, "asked", e.slot)
         /\ e.counts[s] > 0 => Since(s, "good", e.slot)
    /\ \A f \in e.gone : world[f].gone >= e.slot

(* What last happened is in the file; in one that may be set aside, if anything *)
(* older is.                                                                    *)
FileIsWhole ==
  \A f \in Feeds :
    /\ /\ world[f].good > 0
       /\ "volume" \notin logFaults \/ \E e \in current.fetches : e.slot < world[f].good
       => \E e \in current.fetches : e.slot = world[f].good /\ Counted(e, SourceOf[f])
    /\ "volume" \notin logFaults /\ world[f].asked > 0 =>
         \E e \in current.fetches : e.slot = world[f].asked /\ SourceOf[f] \in DOMAIN e.counts
    /\ "volume" \notin logFaults /\ world[f].gone > 0 =>
         \E e \in current.fetches : e.slot = world[f].gone /\ f \in e.gone

FileInv == WorldOK /\ FileIsTrue /\ FileIsWhole

-----------------------------------------------------------------------------
\* A write without a fetch, or none, in this half day or the next.
LEMMA NoFetchKeepsFile ==
  ASSUME FileInv, UNCHANGED <<world, logFaults>>, on' \subseteq Sources, slot' \in Int, slot <= slot',
         UNCHANGED current \/ \E cron : WriteLog({}, cron)
  PROVE  FileInv'
<1>1. slot \in Int /\ slot >= FirstSlot /\ FirstSlot' = FirstSlot /\ Sources' = Sources /\ FirstSlot \in Int
  BY LogAssumption DEF FileInv, WorldOK, FirstSlot, Sources
<1>2. WorldOK'
  <2>1. slot' >= FirstSlot
    BY <1>1
  <2>2. \A f \in Feeds : world[f].asked <= slot' /\ world[f].good <= slot' /\ world[f].gone <= slot'
    BY <1>1 DEF FileInv, WorldOK
  <2> QED BY <1>1, <2>1, <2>2 DEF FileInv, WorldOK
<1>3. \/ current'.fetches = current.fetches
      \/ "volume" \in logFaults /\ current'.fetches = {}
  BY DEF WriteLog
<1>4. FileIsTrue'
  <2>1. \A e \in current.fetches : e.slot <= slot'
    BY <1>1 DEF FileInv, FileIsTrue
  <2>2. \A s, field, from : Since(s, field, from)' <=> Since(s, field, from)
    BY DEF Since
  <2> QED BY <1>1, <1>3, <2>1, <2>2 DEF FileInv, FileIsTrue
<1>5. FileIsWhole'
  BY <1>3 DEF FileInv, FileIsWhole, Counted
<1> QED BY <1>2, <1>4, <1>5 DEF FileInv

\* What a fetch writes.
LEMMA FetchedSays ==
  ASSUME NEW answers \in [{f \in Feeds : SourceOf[f] \in on} -> Answers], on \subseteq Sources
  PROVE  /\ Fetched(answers).slot = slot /\ DOMAIN Fetched(answers).counts = on
         /\ Fetched(answers).gone = {f \in DOMAIN answers : answers[f] = "gone"}
         /\ \A s \in on : /\ Fetched(answers).counts[s] \in 0..Cardinality(Feeds)
                          /\ Fetched(answers).counts[s] > 0 <=>
                               \E f \in DOMAIN answers : SourceOf[f] = s /\ answers[f] = "jobs"
<1> DEFINE Jobs(s) == {f \in DOMAIN answers : SourceOf[f] = s /\ answers[f] = "jobs"}
<1>1. /\ Fetched(answers).slot = slot /\ DOMAIN Fetched(answers).counts = on
      /\ Fetched(answers).gone = {f \in DOMAIN answers : answers[f] = "gone"}
      /\ \A s \in on : Fetched(answers).counts[s] = Cardinality(Jobs(s))
  BY DEF Fetched
<1>2. ASSUME NEW s
      PROVE  /\ Cardinality(Jobs(s)) \in 0..Cardinality(Feeds)
             /\ Cardinality(Jobs(s)) > 0 <=> \E f \in DOMAIN answers : SourceOf[f] = s /\ answers[f] = "jobs"
  <2>1. Jobs(s) \subseteq Feeds /\ IsFiniteSet(Feeds)
    BY LogAssumption
  <2>2. /\ IsFiniteSet(Jobs(s)) /\ Cardinality(Jobs(s)) \in Nat /\ Cardinality(Feeds) \in Nat
        /\ Cardinality(Jobs(s)) <= Cardinality(Feeds)
    BY <2>1, FS_Subset, FS_CardinalityType
  <2>3. Cardinality(Jobs(s)) = 0 <=> Jobs(s) = {}
    BY <2>2, FS_EmptySet
  <2>4. Jobs(s) = {} <=> ~\E f \in DOMAIN answers : SourceOf[f] = s /\ answers[f] = "jobs"
    OBVIOUS
  <2> HIDE DEF Jobs
  <2> QED BY <2>2, <2>3, <2>4
<1> HIDE DEF Jobs
<1> QED BY <1>1, <1>2

\* A fetch is written with what it was answered, and remembered by the feeds in question.
LEMMA FetchIsWritten ==
  ASSUME NEW t \in Triages, FetchJobs(t)
  PROVE  \E answers \in [{f \in Feeds : SourceOf[f] \in on} -> Answers] :
           /\ WriteLog({Fetched(answers)}, current.cron)
           /\ UNCHANGED <<slot, on, logFaults>>
           /\ world' = [f \in Feeds |->
                IF f \notin DOMAIN answers THEN world[f]
                ELSE [world[f] EXCEPT !.asked = slot,
                                      !.good = IF answers[f] = "jobs" THEN slot ELSE @,
                                      !.gone = IF answers[f] = "gone" THEN slot ELSE @]]
BY DEF FetchJobs

\* A fetch is written, and remembered by the feeds it asked.
LEMMA FetchKeepsFile ==
  ASSUME FileInv, NEW t \in Triages, FetchJobs(t)
  PROVE  FileInv'
<1>1. PICK answers \in [{f \in Feeds : SourceOf[f] \in on} -> Answers] :
        /\ WriteLog({Fetched(answers)}, current.cron)
        /\ UNCHANGED <<slot, on, logFaults>>
        /\ world' = [f \in Feeds |->
             IF f \notin DOMAIN answers THEN world[f]
             ELSE [world[f] EXCEPT !.asked = slot,
                                   !.good = IF answers[f] = "jobs" THEN slot ELSE @,
                                   !.gone = IF answers[f] = "gone" THEN slot ELSE @]]
  BY FetchIsWritten
<1>1a. PICK new, half : new = Fetched(answers) /\ half = slot
  OBVIOUS
<1>2. /\ new.slot = slot /\ DOMAIN new.counts = on
      /\ new.gone = {f \in DOMAIN answers : answers[f] = "gone"}
      /\ \A s \in on : /\ new.counts[s] \in 0..Cardinality(Feeds)
                       /\ new.counts[s] > 0 <=> \E f \in DOMAIN answers : SourceOf[f] = s /\ answers[f] = "jobs"
  BY <1>1a, FetchedSays DEF FileInv, WorldOK
<1>3. /\ DOMAIN answers = {f \in Feeds : SourceOf[f] \in on}
      /\ world \in [Feeds -> [asked : Int, good : Int, gone : Int]] /\ slot \in Int /\ on \subseteq Sources
      /\ \A f \in Feeds : world[f].asked <= slot /\ world[f].good <= slot /\ world[f].gone <= slot
  BY DEF FileInv, WorldOK
<1>4. ASSUME NEW f \in Feeds
      PROVE  /\ world'[f] = [asked |-> IF f \in DOMAIN answers THEN slot ELSE world[f].asked,
                             good |-> IF f \in DOMAIN answers /\ answers[f] = "jobs" THEN slot ELSE world[f].good,
                             gone |-> IF f \in DOMAIN answers /\ answers[f] = "gone" THEN slot ELSE world[f].gone]
             /\ world'[f] \in [asked : Int, good : Int, gone : Int]
  <2>1. world[f] \in [asked : Int, good : Int, gone : Int]
    BY <1>3
  <2> QED BY <1>1, <1>3, <2>1
<1>5. /\ world' \in [Feeds -> [asked : Int, good : Int, gone : Int]]
      /\ \A f \in Feeds : /\ world[f].asked <= world'[f].asked /\ world'[f].asked <= slot
                          /\ world[f].good <= world'[f].good /\ world'[f].good <= slot
                          /\ world[f].gone <= world'[f].gone /\ world'[f].gone <= slot
                          /\ f \in DOMAIN answers => world'[f].asked = slot
                          /\ f \in DOMAIN answers /\ answers[f] = "jobs" => world'[f].good = slot
                          /\ f \in DOMAIN answers /\ answers[f] = "gone" => world'[f].gone = slot
                          /\ world'[f].asked \in {slot, world[f].asked}
                          /\ world'[f].good # world[f].good => f \in DOMAIN answers /\ answers[f] = "jobs"
                          /\ world'[f].gone # world[f].gone => f \in DOMAIN answers /\ answers[f] = "gone"
                          /\ world'[f].asked # world[f].asked => f \in DOMAIN answers
  <2>1. world' \in [Feeds -> [asked : Int, good : Int, gone : Int]]
    BY <1>1, <1>4
  <2> QED BY <1>3, <1>4, <2>1
<1>6. \/ current'.fetches = current.fetches \cup {new}
      \/ "volume" \in logFaults /\ current'.fetches = {new}
  <2>1. \/ current' = [fetches |-> current.fetches \cup {new}, cron |-> current.cron]
        \/ "volume" \in logFaults /\ current' = [fetches |-> {new}, cron |-> current.cron]
    BY <1>1a, <1>1, Zenon DEF WriteLog
  <2> QED BY <2>1
<1>7. WorldOK'
  BY <1>1, <1>3, <1>5 DEF FileInv, WorldOK, FirstSlot, Sources
<1>8. FileIsTrue'
  <2>1. ASSUME NEW s, NEW field \in {"asked", "good"}, NEW from \in Int, Since(s, field, from)
        PROVE  Since(s, field, from)'
    <3>1. PICK f \in Feeds : SourceOf[f] = s /\ world[f][field] >= from
      BY <2>1 DEF Since
    <3>2. world'[f][field] >= from
      <4>1. CASE field = "asked"
        BY <1>3, <1>5, <3>1, <4>1
      <4>2. CASE field = "good"
        BY <1>3, <1>5, <3>1, <4>2
      <4> QED BY <4>1, <4>2
    <3> QED BY <3>1, <3>2 DEF Since
  <2>2. ASSUME NEW e \in current.fetches
        PROVE  /\ e.slot \in Int /\ e.slot <= slot
               /\ DOMAIN e.counts \subseteq Sources /\ e.gone \subseteq Feeds
               /\ \A s \in DOMAIN e.counts :
                    /\ e.counts[s] \in 0..Cardinality(Feeds) /\ Since(s, "asked", e.slot)'
                    /\ e.counts[s] > 0 => Since(s, "good", e.slot)'
               /\ \A f \in e.gone : world'[f].gone >= e.slot
    <3>1. /\ e.slot \in Int /\ e.slot <= slot
          /\ DOMAIN e.counts \subseteq Sources /\ e.gone \subseteq Feeds
          /\ \A s \in DOMAIN e.counts :
               /\ e.counts[s] \in 0..Cardinality(Feeds) /\ Since(s, "asked", e.slot)
               /\ e.counts[s] > 0 => Since(s, "good", e.slot)
          /\ \A f \in e.gone : world[f].gone >= e.slot
      BY DEF FileInv, FileIsTrue
    <3>2. \A f \in e.gone : world'[f].gone >= e.slot
      BY <1>3, <1>5, <3>1
    <3> QED BY <2>1, <3>1, <3>2
  <2>3. \A s \in on : Since(s, "asked", half)'
    <3>1. \A s \in on : \E f \in Feeds : SourceOf[f] = s
      BY <1>3 DEF Sources
    <3>2. \A s \in on : \E f \in Feeds : SourceOf[f] = s /\ world'[f].asked >= half
      BY <1>3, <1>5, <1>1a, <3>1
    <3> QED BY <3>2 DEF Since
  <2>4. \A s \in on : new.counts[s] > 0 => Since(s, "good", half)'
    <3>1. \A s \in on : new.counts[s] > 0 => \E f \in Feeds : SourceOf[f] = s /\ world'[f].good >= half
      BY <1>2, <1>3, <1>5, <1>1a
    <3> QED BY <3>1 DEF Since
  <2>5. new.gone \subseteq Feeds /\ \A f \in new.gone : world'[f].gone >= new.slot
    BY <1>2, <1>3, <1>5
  <2>6. /\ new.slot \in Int /\ new.slot <= slot
        /\ DOMAIN new.counts \subseteq Sources /\ new.gone \subseteq Feeds
        /\ \A s \in DOMAIN new.counts :
             /\ new.counts[s] \in 0..Cardinality(Feeds) /\ Since(s, "asked", new.slot)'
             /\ new.counts[s] > 0 => Since(s, "good", new.slot)'
        /\ \A f \in new.gone : world'[f].gone >= new.slot
    BY <1>2, <1>3, <1>1a, <2>3, <2>4, <2>5
  <2>7. Sources' = Sources
    BY DEF Sources
  <2>8. \A e \in current'.fetches : e = new \/ e \in current.fetches
    BY <1>6
  <2> QED BY <1>1, <2>2, <2>6, <2>7, <2>8 DEF FileIsTrue
<1>9. FileIsWhole'
  <2>1. SUFFICES ASSUME NEW f \in Feeds
        PROVE  /\ /\ world'[f].good > 0
                  /\ "volume" \notin logFaults \/ \E e \in current'.fetches : e.slot < world'[f].good
                  => \E e \in current'.fetches : e.slot = world'[f].good /\ Counted(e, SourceOf[f])
               /\ "volume" \notin logFaults /\ world'[f].asked > 0 =>
                    \E e \in current'.fetches : e.slot = world'[f].asked /\ SourceOf[f] \in DOMAIN e.counts
               /\ "volume" \notin logFaults /\ world'[f].gone > 0 =>
                    \E e \in current'.fetches : e.slot = world'[f].gone /\ f \in e.gone
    BY <1>1 DEF FileIsWhole, Counted
  <2>2. new \in current'.fetches
    BY <1>6
  <2>3. f \in DOMAIN answers /\ answers[f] = "jobs" => Counted(new, SourceOf[f]) /\ new.slot = world'[f].good
    BY <1>2, <1>3, <1>5 DEF Counted
  <2>4. f \in DOMAIN answers => SourceOf[f] \in DOMAIN new.counts /\ new.slot = world'[f].asked
    BY <1>2, <1>3, <1>5
  <2>5. f \in DOMAIN answers /\ answers[f] = "gone" => f \in new.gone /\ new.slot = world'[f].gone
    BY <1>2, <1>3, <1>5
  <2>6. ASSUME world'[f].good = world[f].good, world[f].good > 0,
               "volume" \notin logFaults \/ \E e \in current'.fetches : e.slot < world'[f].good
        PROVE  \E e \in current'.fetches : e.slot = world'[f].good /\ Counted(e, SourceOf[f])
    <3>1. ~(new.slot < world'[f].good)
      BY <1>2, <1>3, <1>5
    <3>2. "volume" \notin logFaults \/ \E e \in current.fetches : e.slot < world[f].good
      BY <1>6, <2>6, <3>1
    <3>3. PICK e \in current.fetches : e.slot = world[f].good /\ Counted(e, SourceOf[f])
      BY <2>6, <3>2 DEF FileInv, FileIsWhole
    <3>4. current.fetches \subseteq current'.fetches
      BY <1>6, <2>6, <3>1
    <3> QED BY <2>6, <3>3, <3>4
  <2>7. "volume" \notin logFaults => current.fetches \subseteq current'.fetches
    BY <1>6
  <2> QED BY <1>5, <2>2, <2>3, <2>4, <2>5, <2>6, <2>7 DEF FileInv, FileIsWhole
<1> QED BY <1>7, <1>8, <1>9 DEF FileInv

-----------------------------------------------------------------------------
\* The peak of some events is above zero when one of them counts.
LEMMA PeakCounts ==
  ASSUME NEW s, NEW events,
         \A e \in events : s \in DOMAIN e.counts => e.counts[s] \in 0..Cardinality(Feeds)
  PROVE  Peak(events, s) \in Nat /\ (Peak(events, s) > 0 <=> \E e \in events : Counted(e, s))
<1> DEFINE all == {0} \cup {e.counts[s] : e \in {d \in events : s \in DOMAIN d.counts}}
<1>1. Cardinality(Feeds) \in Nat
  BY LogAssumption, FS_CardinalityType
<1>2. all \in SUBSET Nat /\ all # {} /\ \A x \in all : x <= Cardinality(Feeds)
  BY <1>1
<1>3. PICK most \in all : \A y \in all : y <= most
  BY <1>1, <1>2, LargestOf
<1>4. (\E x \in all : x > 0) <=> \E e \in events : Counted(e, s)
  BY DEF Counted
<1>5. Peak(events, s) = Max(all)
  BY DEF Peak
<1> HIDE DEF all
<1>6. \A y \in all : most >= y
  BY <1>2, <1>3
<1>7. Max(all) \in all /\ \A y \in all : Max(all) >= y
  BY <1>3, <1>6, Zenon DEF Max
<1>8. Max(all) \in Nat /\ (Max(all) > 0 <=> \E x \in all : x > 0)
  <2>1. PICK m \in all : m = Max(all)
    BY <1>7
  <2>2. \A y \in all : m >= y
    BY <1>7, <2>1
  <2>3. m > 0 <=> \E x \in all : x > 0
    BY <1>2, <2>2
  <2> QED BY <1>2, <2>1, <2>3
<1> QED BY <1>4, <1>5, <1>8

\* The health check says what happened, and without a full file all of it.
LEMMA ReportIsTrue ==
  ASSUME FileInv, HealthCheck
  PROVE  NoSilentDeath'
<1> DEFINE day == Recent(WindowFrom)
           week == Recent(WeekFrom)
           quiet == {s \in Sources : /\ Since(s, "asked", WindowFrom)
                                     /\ ~Since(s, "good", WindowFrom)
                                     /\ Since(s, "good", WeekFrom)}
           lost == {f \in Feeds : world[f].gone >= WindowFrom}
<1>1. report' = [dead |-> DeadFeeds(day, week), gone |-> DeadSlugs(day), quiet |-> quiet, lost |-> lost]
      /\ UNCHANGED logFaults
  BY DEF HealthCheck
<1>2. WindowFrom \in Int /\ WeekFrom \in Int /\ WeekFrom <= WindowFrom /\ WeekFrom > 0
  BY LogAssumption DEF FileInv, WorldOK, FirstSlot, WindowFrom, WeekFrom
<1>3. /\ \A f \in Feeds : world[f].asked \in Int /\ world[f].good \in Int /\ world[f].gone \in Int
      /\ \A e \in current.fetches : e.slot \in Int
  BY DEF FileInv, WorldOK, FileIsTrue
<1>4. /\ day = {e \in current.fetches : e.slot >= WindowFrom}
      /\ week = {e \in current.fetches : e.slot >= WeekFrom} /\ day \subseteq week
  BY <1>2, <1>3 DEF Recent
<1> HIDE DEF day, week
<1>5. \A s : /\ Peak(day, s) \in Nat /\ (Peak(day, s) > 0 <=> \E e \in day : Counted(e, s))
             /\ Peak(week, s) \in Nat /\ (Peak(week, s) > 0 <=> \E e \in week : Counted(e, s))
  <2>1. \A s : \A e \in current.fetches : s \in DOMAIN e.counts => e.counts[s] \in 0..Cardinality(Feeds)
    BY DEF FileInv, FileIsTrue
  <2> QED BY <1>4, <2>1, PeakCounts
<1>6. \A s : s \in DeadFeeds(day, week) <=>
               /\ s \in Sources /\ \E e \in week : Counted(e, s)
               /\ \E e \in day : s \in DOMAIN e.counts
               /\ ~\E e \in day : Counted(e, s)
  BY <1>5 DEF DeadFeeds
<1>7. ASSUME NEW s \in DeadFeeds(day, week)
      PROVE  s \in quiet
  <2>1. PICK e \in week : Counted(e, s)
    BY <1>6
  <2>2. PICK d \in day : s \in DOMAIN d.counts
    BY <1>6
  <2>3. Since(s, "good", e.slot) /\ Since(s, "asked", d.slot)
    BY <1>4, <2>1, <2>2 DEF FileInv, FileIsTrue, Counted
  <2>4. Since(s, "good", WeekFrom) /\ Since(s, "asked", WindowFrom)
    BY <1>2, <1>3, <1>4, <2>1, <2>2, <2>3 DEF Since
  <2>5. ASSUME NEW f \in Feeds, SourceOf[f] = s, world[f].good >= WindowFrom
        PROVE  FALSE
    <3>1. e.slot < WindowFrom
      BY <1>2, <1>3, <1>4, <1>6, <2>1
    <3>2. world[f].good > 0 /\ e.slot < world[f].good
      BY <1>2, <1>3, <1>4, <2>5, <3>1
    <3>3. PICK b \in current.fetches : b.slot = world[f].good /\ Counted(b, s)
      BY <1>4, <2>5, <3>2 DEF FileInv, FileIsWhole
    <3>4. b \in day
      BY <1>4, <2>5, <3>3
    <3> QED BY <1>6, <3>3, <3>4
  <2>6. ~Since(s, "good", WindowFrom)
    BY <2>5 DEF Since
  <2> QED BY <1>6, <2>4, <2>6
<1>8. ASSUME "volume" \notin logFaults, NEW s \in quiet
      PROVE  s \in DeadFeeds(day, week)
  <2>1. PICK f \in Feeds : SourceOf[f] = s /\ world[f].asked >= WindowFrom
    BY DEF Since
  <2>2. PICK g \in Feeds : SourceOf[g] = s /\ world[g].good >= WeekFrom
    BY DEF Since
  <2>3. world[f].asked > 0 /\ world[g].good > 0
    BY <1>2, <1>3, <2>1, <2>2
  <2>4. PICK d \in current.fetches : d.slot = world[f].asked /\ s \in DOMAIN d.counts
    BY <1>8, <2>1, <2>3 DEF FileInv, FileIsWhole
  <2>5. PICK e \in current.fetches : e.slot = world[g].good /\ Counted(e, s)
    BY <1>8, <2>2, <2>3 DEF FileInv, FileIsWhole
  <2>6. d \in day /\ e \in week
    BY <1>4, <2>1, <2>2, <2>4, <2>5
  <2>7. ASSUME NEW b \in day, Counted(b, s)
        PROVE  FALSE
    <3>1. Since(s, "good", b.slot)
      BY <1>4, <2>7 DEF FileInv, FileIsTrue, Counted
    <3>2. Since(s, "good", WindowFrom)
      BY <1>2, <1>3, <1>4, <2>7, <3>1 DEF Since
    <3> QED BY <3>2
  <2> QED BY <1>6, <2>4, <2>5, <2>6, <2>7
<1>9. DeadSlugs(day) \subseteq lost
  <2>1. ASSUME NEW e \in day, NEW f \in e.gone
        PROVE  f \in lost
    <3>1. f \in Feeds /\ world[f].gone >= e.slot /\ e.slot >= WindowFrom
      BY <1>4 DEF FileInv, FileIsTrue
    <3> QED BY <1>2, <1>3, <1>4, <3>1
  <2> QED BY <2>1 DEF DeadSlugs
<1>10. ASSUME "volume" \notin logFaults, NEW f \in lost
       PROVE  f \in DeadSlugs(day)
  <2>1. world[f].gone > 0
    BY <1>2, <1>3
  <2>2. PICK e \in current.fetches : e.slot = world[f].gone /\ f \in e.gone
    BY <1>10, <2>1 DEF FileInv, FileIsWhole
  <2>3. e \in day
    BY <1>4, <2>2
  <2> QED BY <2>2, <2>3 DEF DeadSlugs
<1> HIDE DEF quiet, lost
<1> QED BY <1>1, <1>7, <1>8, <1>9, <1>10 DEF NoSilentDeath

\* The health check names the sources that brought jobs within the week and, though
\* asked, none in the last 25 hours, and the feeds that answered 404: on a log that is
\* never set aside all of them, and on any log no other (health_check.py:50-82, 91-118).
THEOREM NoFeedDiesInSilence == LogSpec => []NoSilentDeath
<1>1. LogInit => FileInv /\ NoSilentDeath
  <2>1. SUFFICES ASSUME LogInit PROVE FileInv /\ NoSilentDeath
    OBVIOUS
  <2>2. WorldOK
    BY <2>1, LogAssumption DEF LogInit, WorldOK, FirstSlot
  <2> QED BY <2>1, <2>2 DEF LogInit, FileInv, FileIsTrue, FileIsWhole, NoSilentDeath, NoReport
<1>2. FileInv /\ NoSilentDeath /\ [LogNext]_logVars => (FileInv /\ NoSilentDeath)'
  <2>1. SUFFICES ASSUME FileInv, NoSilentDeath, [LogNext]_logVars PROVE (FileInv /\ NoSilentDeath)'
    OBVIOUS
  <2>2. slot \in Int /\ on \subseteq Sources
    BY <2>1 DEF FileInv, WorldOK
  <2>3. CASE HealthCheck
    <3>1. FileInv'
      BY <2>1, <2>2, <2>3, NoFetchKeepsFile DEF HealthCheck
    <3> QED BY <2>1, <2>3, <3>1, ReportIsTrue
  <2>4. CASE UNCHANGED logVars
    <3>1. FileInv'
      BY <2>1, <2>2, <2>4, NoFetchKeepsFile DEF logVars
    <3> QED BY <2>1, <2>4, <3>1 DEF logVars, NoSilentDeath
  <2>5. report' = NoReport => NoSilentDeath'
    BY DEF NoSilentDeath, NoReport
  <2>6. ASSUME NEW t \in Triages, FetchJobs(t)
        PROVE  FileInv'
    BY <2>1, <2>6, FetchKeepsFile
  <2>10. ASSUME ExpireStart
         PROVE  FileInv'
    <3>1. current'.fetches = current.fetches /\ UNCHANGED <<slot, on, world, logFaults>>
      BY <2>10 DEF ExpireStart
    <3>2. WorldOK'
      BY <2>1, <3>1 DEF FileInv, WorldOK, FirstSlot, Sources
    <3>3. FileIsTrue'
      BY <2>1, <3>1 DEF FileInv, FileIsTrue, Since, Sources
    <3>4. FileIsWhole'
      BY <2>1, <3>1 DEF FileInv, FileIsWhole, Counted
    <3> QED BY <3>2, <3>3, <3>4 DEF FileInv
  <2>7. ASSUME NextSlot \/ ChangeSources
        PROVE  FileInv'
    <3>1. UNCHANGED <<current, world, logFaults>> /\ slot' \in {slot, slot + 1} /\ on' \subseteq Sources
      BY <2>2, <2>7 DEF NextSlot, ChangeSources
    <3>2. slot' \in Int /\ slot <= slot'
      BY <2>2, <3>1
    <3> QED BY <2>1, <3>1, <3>2, NoFetchKeepsFile
  <2>8. ASSUME NEW t \in Triages, BeginTriage(t) \/ EndTriage(t) \/ StopTriage(t)
        PROVE  FileInv'
    <3>1. UNCHANGED current \/ \E cron : WriteLog({}, cron)
      BY <2>8 DEF BeginTriage, EndTriage, StopTriage
    <3>2. UNCHANGED <<slot, on, world, logFaults>>
      BY <2>8 DEF BeginTriage, EndTriage, StopTriage
    <3> QED BY <2>1, <2>2, <3>1, <3>2, NoFetchKeepsFile
  <2>9. ASSUME NEW c \in Clerks, LookAtPanel(c) \/ RefuseLaunch(c) \/ LaunchTriage(c) \/ LaunchFails(c)
        PROVE  FileInv'
    <3>1. UNCHANGED current \/ \E cron : WriteLog({}, cron)
      BY <2>9 DEF LookAtPanel, RefuseLaunch, LaunchTriage, LaunchFails
    <3>2. UNCHANGED <<slot, on, world, logFaults>>
      BY <2>9 DEF LookAtPanel, RefuseLaunch, LaunchTriage, LaunchFails
    <3> QED BY <2>1, <2>2, <3>1, <3>2, NoFetchKeepsFile
  <2> QED BY <2>1, <2>3, <2>4, <2>5, <2>6, <2>7, <2>8, <2>9, <2>10 DEF LogNext
<1> QED BY <1>1, <1>2, PTL DEF LogSpec

-----------------------------------------------------------------------------
\* The file's events have their half day and their feeds.
EventsOK == \A e \in current.fetches : e.slot \in FirstSlot..slot /\ e.gone \subseteq Feeds

\* Triages in their phases, feeds in their half days.
Phase == [phase : {"none", "spawned", "fetch", "score"}, attempt : 0..3, by : {"cron", "panel"}]
Fate == [asked : 0..LastSlot, good : 0..LastSlot, gone : 0..LastSlot]

LogTypes == LogTypeOK /\ EventsOK

\* The half days are numbers, the first one among them.
LEMMA SlotsAreNumbers ==
  /\ WeekSlots \in Nat /\ LastSlot \in Nat /\ MaxLaunches \in Nat
  /\ FirstSlot \in Nat /\ FirstSlot <= LastSlot
BY LogAssumption DEF FirstSlot

\* Every action keeps the types.
LEMMA LogNextIsTyped ==
  ASSUME LogTypes, [LogNext]_logVars
  PROVE  LogTypes'
<1> DEFINE FileTyped == \A e \in current'.fetches : e.slot \in FirstSlot..slot' /\ e.gone \subseteq Feeds
<1>1. /\ slot \in FirstSlot..LastSlot /\ launches \in 0..MaxLaunches
      /\ EventsOK /\ triage \in [Triages -> Phase]
      /\ on \in SUBSET Sources /\ clerk \in SUBSET Clerks /\ world \in [Feeds -> Fate]
      /\ report.dead \subseteq Sources /\ report.gone \subseteq Feeds
      /\ logFaults \in LogFaults
  BY DEF LogTypes, LogTypeOK, Phase, Fate
<1>2. SUFFICES /\ slot' \in FirstSlot..LastSlot /\ launches' \in 0..MaxLaunches
               /\ FileTyped /\ triage' \in [Triages -> Phase]
               /\ on' \in SUBSET Sources /\ clerk' \in SUBSET Clerks /\ world' \in [Feeds -> Fate]
               /\ report'.dead \subseteq Sources /\ report'.gone \subseteq Feeds
               /\ logFaults' \in LogFaults
  BY DEF LogTypes, LogTypeOK, Phase, Fate, EventsOK
<1>3. ASSUME NEW cron, WriteLog({}, cron), slot' = slot
      PROVE  FileTyped
  BY <1>1, <1>3 DEF WriteLog, EventsOK
<1>4. ASSUME current' = current, slot' = slot
      PROVE  FileTyped
  BY <1>1, <1>4 DEF EventsOK
<1>5. ASSUME NEW how \in {"cron", "panel"}, Spawn(how)
      PROVE  triage' \in [Triages -> Phase]
  <2>1. [phase |-> "spawned", attempt |-> 0, by |-> how] \in Phase
    BY DEF Phase
  <2> QED BY <1>1, <1>5, <2>1 DEF Spawn
<1>6. ASSUME NEW t \in Triages, NEW next \in Phase, triage' = [triage EXCEPT ![t] = next]
      PROVE  triage' \in [Triages -> Phase]
  BY <1>1, <1>6
<1>7. CASE UNCHANGED logVars
  BY <1>1, <1>7, <1>4 DEF logVars
<1>8. CASE HealthCheck
  <2>1. report'.dead \subseteq Sources
    BY <1>8 DEF HealthCheck, DeadFeeds
  <2>2. report'.gone \subseteq Feeds
    <3>1. report'.gone = DeadSlugs(Recent(WindowFrom))
      BY <1>8 DEF HealthCheck
    <3>2. Recent(WindowFrom) \subseteq current.fetches
      BY DEF Recent
    <3> QED BY <1>1, <3>1, <3>2 DEF DeadSlugs, EventsOK
  <2> QED BY <1>1, <1>4, <1>8, <2>1, <2>2 DEF HealthCheck
<1>9. ASSUME report' = NoReport, NextSlot
      PROVE  slot' \in FirstSlot..LastSlot /\ FileTyped /\ triage' \in [Triages -> Phase]
  <2>1. slot \in Int /\ slot < LastSlot /\ slot' = slot + 1 /\ current' = current
    BY <1>1, <1>9 DEF NextSlot
  <2>2. triage' \in [Triages -> Phase]
    BY <1>1, <1>5, <1>9 DEF NextSlot
  <2> QED BY <1>1, <2>1, <2>2, SlotsAreNumbers DEF EventsOK
<1>10. ASSUME NEW t \in Triages, BeginTriage(t) \/ EndTriage(t) \/ StopTriage(t)
       PROVE  FileTyped /\ triage' \in [Triages -> Phase]
  <2>1. NoTriage \in Phase /\ [phase |-> "fetch", attempt |-> 1, by |-> triage[t].by] \in Phase
    BY <1>1 DEF NoTriage, Phase
  <2>2. \/ triage' = [triage EXCEPT ![t] = NoTriage]
        \/ triage' = [triage EXCEPT ![t] = [phase |-> "fetch", attempt |-> 1, by |-> triage[t].by]]
    BY <1>1, <1>10 DEF BeginTriage, Enters, EndTriage, StopTriage
  <2>3. FileTyped
    BY <1>3, <1>4, <1>10 DEF BeginTriage, EndTriage, StopTriage
  <2> QED BY <1>6, <2>1, <2>2, <2>3
<1>11. ASSUME NEW t \in Triages, FetchJobs(t)
       PROVE  FileTyped /\ triage' \in [Triages -> Phase] /\ world' \in [Feeds -> Fate]
  <2>1. PICK answers \in [{f \in Feeds : SourceOf[f] \in on} -> Answers] :
          /\ WriteLog({Fetched(answers)}, current.cron)
          /\ UNCHANGED <<slot, on, logFaults>>
          /\ world' = [f \in Feeds |->
               IF f \notin DOMAIN answers THEN world[f]
               ELSE [world[f] EXCEPT !.asked = slot,
                                     !.good = IF answers[f] = "jobs" THEN slot ELSE @,
                                     !.gone = IF answers[f] = "gone" THEN slot ELSE @]]
    BY <1>11, FetchIsWritten
  <2>2. Fetched(answers).slot = slot /\ Fetched(answers).gone \subseteq Feeds
    BY DEF Fetched
  <2>3. FileTyped
    <3>1. PICK new : new = Fetched(answers)
      OBVIOUS
    <3>2. \/ current' = [fetches |-> current.fetches \cup {new}, cron |-> current.cron]
          \/ current' = [fetches |-> {new}, cron |-> current.cron]
      BY <2>1, <3>1, Zenon DEF WriteLog
    <3>3. new.slot \in FirstSlot..slot /\ new.gone \subseteq Feeds
      BY <1>1, <2>2, <3>1, SlotsAreNumbers
    <3>4. \A e \in current'.fetches : e = new \/ e \in current.fetches
      BY <3>2
    <3> QED BY <1>1, <2>1, <3>3, <3>4 DEF EventsOK
  <2>4. triage' \in [Triages -> Phase]
    <3> DEFINE Retry == [phase |-> "fetch", attempt |-> triage[t].attempt + 1, by |-> triage[t].by]
               Scored == [phase |-> "score", attempt |-> 0, by |-> triage[t].by]
    <3>1. \/ triage[t].attempt < 3 /\ triage' = [triage EXCEPT ![t] = Retry]
          \/ triage' = [triage EXCEPT ![t] = Scored]
      BY <1>11 DEF FetchJobs, Enters
    <3>2. triage[t].attempt \in 0..3
      BY <1>1 DEF Phase
    <3>3. triage[t].attempt < 3 => Retry \in Phase
      BY <1>1, <3>2 DEF Phase
    <3>4. Scored \in Phase
      BY <1>1 DEF Phase
    <3> HIDE DEF Retry, Scored
    <3> QED BY <1>6, <3>1, <3>3, <3>4
  <2>5. ASSUME NEW f \in Feeds
        PROVE  world'[f] \in Fate
    <3>1. world[f] \in Fate /\ slot \in 0..LastSlot
      BY <1>1, SlotsAreNumbers
    <3> QED BY <2>1, <3>1 DEF Fate
  <2>6. world' \in [Feeds -> Fate]
    BY <2>1, <2>5
  <2> QED BY <2>3, <2>4, <2>6
<1>12. ASSUME NEW c \in Clerks, LookAtPanel(c) \/ RefuseLaunch(c) \/ LaunchTriage(c) \/ LaunchFails(c)
       PROVE  /\ FileTyped /\ triage' \in [Triages -> Phase] /\ clerk' \in SUBSET Clerks
              /\ launches' \in 0..MaxLaunches
  <2>1. FileTyped
    BY <1>3, <1>4, <1>12 DEF LookAtPanel, RefuseLaunch, LaunchTriage, LaunchFails
  <2>2. triage' \in [Triages -> Phase]
    BY <1>1, <1>5, <1>12 DEF LookAtPanel, RefuseLaunch, LaunchTriage, LaunchFails
  <2>3. launches' \in 0..MaxLaunches
    BY <1>1, <1>12, SlotsAreNumbers DEF LookAtPanel, RefuseLaunch, LaunchTriage, LaunchFails
  <2>4. clerk' \in SUBSET Clerks
    BY <1>1, <1>12 DEF LookAtPanel, RefuseLaunch, LaunchTriage, LaunchFails
  <2> QED BY <2>1, <2>2, <2>3, <2>4
<1>13. ASSUME report' = NoReport, ChangeSources
       PROVE  on' \in SUBSET Sources /\ FileTyped
  BY <1>4, <1>13 DEF ChangeSources
<1>14. NoReport.dead \subseteq Sources /\ NoReport.gone \subseteq Feeds
  BY DEF NoReport
<1> HIDE DEF FileTyped
<1>15. CASE NextSlot /\ report' = NoReport
  BY <1>1, <1>9, <1>14, <1>15 DEF NextSlot
<1>16. CASE ChangeSources /\ report' = NoReport
  BY <1>1, <1>13, <1>14, <1>16 DEF ChangeSources
<1>19. CASE ExpireStart /\ report' = NoReport
  <2>1. FileTyped
    <3>1. current'.fetches = current.fetches /\ slot' = slot
      BY <1>19 DEF ExpireStart
    <3>2. FirstSlot' = FirstSlot
      BY DEF FirstSlot
    <3> QED BY <1>1, <3>1, <3>2 DEF EventsOK, FileTyped
  <2> QED BY <1>1, <1>14, <1>19, <2>1 DEF ExpireStart
<1>17. ASSUME NEW t \in Triages, report' = NoReport,
              BeginTriage(t) \/ EndTriage(t) \/ StopTriage(t) \/ FetchJobs(t)
       PROVE  /\ slot' = slot /\ launches' = launches /\ on' = on /\ clerk' = clerk
              /\ FileTyped /\ triage' \in [Triages -> Phase] /\ world' \in [Feeds -> Fate]
              /\ logFaults' = logFaults
  <2>1. CASE BeginTriage(t) \/ EndTriage(t) \/ StopTriage(t)
    BY <1>1, <1>10, <2>1 DEF BeginTriage, EndTriage, StopTriage
  <2>2. CASE FetchJobs(t)
    BY <1>11, <2>2 DEF FetchJobs
  <2> QED BY <1>17, <2>1, <2>2
<1>18. ASSUME NEW c \in Clerks, report' = NoReport,
              LookAtPanel(c) \/ RefuseLaunch(c) \/ LaunchTriage(c) \/ LaunchFails(c)
       PROVE  slot' = slot /\ on' = on /\ world' = world /\ logFaults' = logFaults
  BY <1>18 DEF LookAtPanel, RefuseLaunch, LaunchTriage, LaunchFails
<1> QED BY <1>1, <1>7, <1>8, <1>12, <1>14, <1>15, <1>16, <1>17, <1>18, <1>19 DEF LogNext

\* Nothing has been written at first.
LEMMA LogInitIsTyped == LogInit => LogTypes
BY SlotsAreNumbers DEF LogInit, LogTypes, LogTypeOK, EventsOK, NoTriage, NoReport

\* The log and its readers keep their types, for any feeds, triages and faults
\* (notifications/health_check.py:50-118, web/cron_dispatch.py:40-95).
THEOREM LogTypeCorrect == LogSpec => []LogTypeOK
<1>1. LogTypes /\ [LogNext]_logVars => LogTypes'
  BY LogNextIsTyped
<1>2. LogTypes => LogTypeOK
  BY DEF LogTypes
<1> QED BY <1>1, <1>2, LogInitIsTyped, PTL DEF LogSpec

(***************************************************************************)
(* The spend ceiling.  What may be spent beyond it is one call of each     *)
(* caller, and who is refused has been told.                               *)
(***************************************************************************)

Most == Max(Costs)
Reached == "spend_ceiling_reached"
Warning == "spend_ceiling_warning"

Calls == [at : Steps, surface : Surfaces, sum : Nat, month : Months,
          todo : {<<Reached, Warning>>, <<Reached>>, <<Warning>>, << >>},
          attempt : Nat, cost : Costs \cup {0}]

(* The shapes; no call read a month to come, and one at its alerts has a ceiling *)
(* to compare with, and a notification to send while it sends.                  *)
CallsOK ==
  /\ ceiling \in (Nat \ {0}) \cup {NoCeiling} /\ now \in Months
  /\ costLog \in [Months -> Nat] /\ guessLog \in [Months -> Nat]
  /\ fired \in [Processes -> SUBSET Alerts] /\ notified \in [Alerts -> Nat]
  /\ refused \subseteq Months
  /\ call \in [Callers -> Calls]
  /\ \A c \in Callers : /\ At(c, "alerts") \/ At(c, "send") => ceiling # NoCeiling
                        /\ At(c, "send") => call[c].todo # << >>
                        /\ call[c].month <= now

(* The callers that have passed the gate, or will, and may still log a cost.    *)
Passed == {c \in Callers : \/ call[c].at \in {"http", "reading", "log"}
                           \/ call[c].at \in {"alerts", "send"} /\ call[c].sum < ceiling}

(* Each of them adds at most one call to the month it logs in; a month that is  *)
(* over gets no more, and one to come has none.                                 *)
RoomLeft ==
  ceiling # NoCeiling =>
    /\ costLog[now] + Cardinality(Passed) * Most < ceiling + Cardinality(Callers) * Most
    /\ \A m \in Months : m < now => costLog[m] < ceiling + Cardinality(Callers) * Most
    /\ \A m \in Months : m > now => costLog[m] = 0

(* A row of that kind, filed in month m or in a later one.                      *)
SentBy(rows, kind, m) == \E k \in m .. MaxMonth : rows[<<kind, k>>] > 0

(* Alerts that are sent get their row.                                          *)
Audible == spendFaults \cap {"send_error", "row_lost"} = {}

(* What a process has cached has its row; a call that will be refused has the   *)
(* notification on its list or finds it sent.                                   *)
Told ==
  Audible =>
    /\ \A p \in Processes : \A a \in fired[p] : SentBy(notified, a[1], a[2])
    /\ \A c \in Callers :
         call[c].at \in {"alerts", "send"} /\ call[c].sum >= ceiling =>
           \/ call[c].todo \in {<<Reached, Warning>>, <<Reached>>}
           \/ SentBy(notified, Reached, call[c].month)
    /\ \A m \in refused : SentBy(notified, Reached, m)

SpendInv == CallsOK /\ RoomLeft /\ Told

-----------------------------------------------------------------------------
\* The dearest call there is.
LEMMA MostIsMost == Most \in Costs /\ Most \in Nat /\ \A cost \in Costs : cost <= Most
<1>1. PICK most \in Costs : \A cost \in Costs : cost <= most
  BY SpendAssumption
<1>2. Costs \subseteq Nat
  BY SpendAssumption
<1>3. \A cost \in Costs : most >= cost
  BY <1>1, <1>2
<1>4. Most \in Costs /\ \A cost \in Costs : Most >= cost
  BY <1>1, <1>3, Zenon DEF Most, Max
<1> QED BY <1>2, <1>4

\* The callers can be counted.
LEMMA PassedIsCounted ==
  /\ IsFiniteSet(Passed) /\ Cardinality(Passed) \in Nat /\ Cardinality(Callers) \in Nat
  /\ Cardinality(Passed) <= Cardinality(Callers)
<1>1. IsFiniteSet(Callers) /\ Passed \subseteq Callers
  BY SpendAssumption DEF Passed
<1> QED BY <1>1, FS_Subset, FS_CardinalityType

\* Less than so many calls cost less.
LEMMA FewerCostLess ==
  ASSUME NEW i \in Nat, NEW k \in Nat, i <= k
  PROVE  i * Most <= k * Most /\ i * Most \in Nat /\ k * Most \in Nat /\ (i + 1) * Most = i * Most + Most
<1>1. Most \in Nat
  BY MostIsMost
<1> HIDE DEF Most
<1> QED BY <1>1

\* A step that lets nobody pass and logs nothing leaves the room there was.
LEMMA NobodyPasses ==
  ASSUME CallsOK, RoomLeft, UNCHANGED <<ceiling, costLog, now>>, Passed' \subseteq Passed
  PROVE  RoomLeft'
<1>1. IsFiniteSet(Passed) /\ Cardinality(Passed) \in Nat /\ Cardinality(Callers) \in Nat
  BY PassedIsCounted
<1>2. Cardinality(Passed') \in Nat /\ Cardinality(Passed') <= Cardinality(Passed)
  BY <1>1, FS_Subset, FS_CardinalityType
<1>3. /\ Cardinality(Passed') * Most <= Cardinality(Passed) * Most
      /\ Cardinality(Passed') * Most \in Nat /\ Cardinality(Passed) * Most \in Nat
      /\ Cardinality(Callers) * Most \in Nat
  BY <1>1, <1>2, FewerCostLess
<1>4. ceiling # NoCeiling => ceiling \in Nat
  BY DEF CallsOK
<1>5. costLog[now] \in Nat /\ now \in Months
  BY DEF CallsOK
<1>6. Most' = Most /\ Cardinality(Passed)' = Cardinality(Passed')
  BY DEF Most
<1>7. ceiling # NoCeiling =>
        costLog[now] + Cardinality(Passed') * Most < ceiling + Cardinality(Callers) * Most
  BY <1>3, <1>4, <1>5 DEF RoomLeft
<1> QED BY <1>6, <1>7 DEF RoomLeft

-----------------------------------------------------------------------------
\* One caller moves.
LEMMA CallerMoves ==
  ASSUME CallsOK, NEW c \in Callers, NEW next \in Calls, call' = [call EXCEPT ![c] = next]
  PROVE  /\ call' \in [Callers -> Calls] /\ call'[c] = next
         /\ \A d \in Callers : d # c => call'[d] = call[d]
BY DEF CallsOK

\* A call that moves elsewhere than past the gate.
LEMMA MovesWithinTheGate ==
  ASSUME SpendInv, NEW c \in Callers, NEW next \in Calls, call' = [call EXCEPT ![c] = next],
         UNCHANGED <<ceiling, now, costLog>>,
         next.at \in {"http", "reading", "log"} =>
            \/ call[c].at \in {"http", "reading", "log"} \/ ceiling = NoCeiling
            \/ call[c].at \in {"alerts", "send"} /\ ~Exceeded(c),
         next.at \in {"alerts", "send"} => call[c].at \in {"alerts", "send"} /\ next.sum = call[c].sum
  PROVE  RoomLeft'
<1>1. /\ call' \in [Callers -> Calls] /\ call'[c] = next
      /\ \A d \in Callers : d # c => call'[d] = call[d]
  BY CallerMoves DEF SpendInv
<1>2. CASE ceiling = NoCeiling
  BY <1>2 DEF RoomLeft
<1>3. CASE ceiling # NoCeiling
  <2>1. ceiling \in Nat /\ call[c].sum \in Nat
    BY <1>3 DEF SpendInv, CallsOK, Calls
  <2>2. Passed' \subseteq Passed
    BY <1>1, <1>3, <2>1 DEF Passed, Exceeded
  <2> QED BY <2>2, NobodyPasses DEF SpendInv
<1> QED BY <1>2, <1>3

\* A call that moves without a word to the operator.
LEMMA MovesInSilence ==
  ASSUME SpendInv, NEW c \in Callers, NEW next \in Calls, call' = [call EXCEPT ![c] = next],
         UNCHANGED <<ceiling, fired, notified, refused, spendFaults>>,
         next.at \in {"alerts", "send"} =>
            /\ call[c].at \in {"alerts", "send"} /\ next.sum = call[c].sum
            /\ next.month = call[c].month /\ next.todo = call[c].todo
  PROVE  Told'
<1>1. /\ call' \in [Callers -> Calls] /\ call'[c] = next
      /\ \A d \in Callers : d # c => call'[d] = call[d]
  BY CallerMoves DEF SpendInv
<1> QED BY <1>1 DEF SpendInv, Told, Audible

\* The shapes after a call has moved.
LEMMA MovesOK ==
  ASSUME SpendInv, NEW c \in Callers, NEW next \in Calls, call' = [call EXCEPT ![c] = next],
         UNCHANGED <<ceiling, now>>, next.month <= now,
         costLog' \in [Months -> Nat], guessLog' \in [Months -> Nat],
         fired' \in [Processes -> SUBSET Alerts], notified' \in [Alerts -> Nat],
         refused' \subseteq Months,
         next.at \in {"alerts", "send"} => ceiling # NoCeiling,
         next.at = "send" => next.todo # << >>
  PROVE  CallsOK'
<1>1. /\ call' \in [Callers -> Calls] /\ call'[c] = next
      /\ \A d \in Callers : d # c => call'[d] = call[d]
  BY CallerMoves DEF SpendInv
<1> QED BY <1>1 DEF SpendInv, CallsOK, At

-----------------------------------------------------------------------------
\* A call that has ended is no call.
LEMMA NoCallIsCall ==
  NoCall \in Calls /\ NoCall.at = "idle" /\ NoCall.month = 1 /\ NoCall.attempt = 0 /\ 1 \in Months
<1>1. 1 \in Months
  BY SpendAssumption DEF Months
<1> QED BY <1>1 DEF NoCall, Calls, Steps, Surfaces

QuietStep(c) ==
  \/ PrefilterHit(c) \/ \E s \in Surfaces : StartCall(c, s)
  \/ Ungated(c) \/ Pass(c) \/ RetryLater(c) \/ FailAtOnce(c) \/ Answered(c)
  \/ AnsweredNull(c) \/ AnsweredRetry(c) \/ AnswerLost(c)
  \/ StreamOpens(c) \/ StreamFinishes(c) \/ StreamBreaksOff(c) \/ LogCallFails(c)

\* How a call that logs nothing, asks nothing and announces nothing may move.
MovesTo(c, next) ==
  /\ call' = [call EXCEPT ![c] = next] /\ next \in Calls
  /\ next.month <= now
  /\ \/ next.attempt \in {0, call[c].attempt}
     \/ next.attempt = call[c].attempt + 1 /\ next.attempt < DEFAULT_MAX_ATTEMPTS
  /\ next.at \in {"read", "http", "reading", "log", "guess", "idle"}
  /\ next.at \in {"http", "reading", "log"} =>
        \/ call[c].at \in {"http", "reading", "log"} \/ ceiling = NoCeiling
        \/ call[c].at = "alerts" /\ ~Exceeded(c)

\* It logs, asks and announces nothing.
LEMMA QuietKeeps ==
  ASSUME NEW c \in Callers, QuietStep(c)
  PROVE  UNCHANGED <<ceiling, now, costLog, guessLog, fired, notified, refused, spendFaults>>
BY DEF QuietStep, PrefilterHit, StartCall, Starts, Ungated, Pass, RetryLater, FailAtOnce, Answered,
       AnsweredNull, AnsweredRetry, AnswerLost, StreamOpens, StreamFinishes, StreamBreaksOff,
       LogCallFails, Money, Notices, Rest

\* It does move so.
LEMMA QuietMoves ==
  ASSUME CallsOK, NEW c \in Callers, QuietStep(c)
  PROVE  \E next : MovesTo(c, next)
<1>2. /\ call[c] \in Calls /\ call \in [Callers -> Calls] /\ call[c].month <= now /\ 1 <= now
      /\ call[c].attempt \in Nat
  BY DEF CallsOK, Calls, Months
<1>3. ASSUME Ends(c)
      PROVE  MovesTo(c, NoCall)
  BY <1>2, <1>3, NoCallIsCall DEF Ends, MovesTo
<1>4. ASSUME NEW step \in {"read", "http"}, NEW s \in Surfaces, GoesOn(c, step, s),
             step = "http" => \/ ceiling = NoCeiling
                              \/ call[c].at = "alerts" /\ ~Exceeded(c)
      PROVE  \E next : MovesTo(c, next)
  <2> DEFINE next == [NoCall EXCEPT !.at = step, !.surface = s]
  <2>1. next \in Calls /\ next.at = step /\ next.month = 1 /\ next.attempt = 0
    BY NoCallIsCall DEF NoCall, Calls, Steps
  <2>2. call' = [call EXCEPT ![c] = next]
    BY <1>4 DEF GoesOn
  <2> HIDE DEF next
  <2>3. MovesTo(c, next)
    BY <1>2, <1>4, <2>1, <2>2 DEF MovesTo
  <2> QED BY <2>3
<1>5. ASSUME FailsToScore(c)
      PROVE  \E next : MovesTo(c, next)
  <2>1. CASE c \notin ToScore
    BY <1>3, <1>5, <2>1 DEF FailsToScore
  <2>2. CASE c \in ToScore
    <3>1. PICK estimate \in Costs : call' = [call EXCEPT ![c].at = "guess", ![c].cost = estimate]
      BY <1>5, <2>2 DEF FailsToScore
    <3> DEFINE next == [call[c] EXCEPT !.at = "guess", !.cost = estimate]
    <3>2. next \in Calls /\ next.at = "guess" /\ next.month = call[c].month /\ next.attempt = call[c].attempt
      BY <1>2 DEF Calls, Steps
    <3>3. call' = [call EXCEPT ![c] = next]
      BY <1>2, <3>1
    <3> HIDE DEF next
    <3>4. MovesTo(c, next)
      BY <1>2, <3>2, <3>3 DEF MovesTo
    <3> QED BY <3>4
  <2> QED BY <2>1, <2>2
<1>6. CASE PrefilterHit(c)
  <2>1. PICK estimate \in Costs :
          call' = [call EXCEPT ![c] = [NoCall EXCEPT !.at = "guess", !.cost = estimate]]
    BY <1>6 DEF PrefilterHit
  <2> DEFINE next == [NoCall EXCEPT !.at = "guess", !.cost = estimate]
  <2>2. next \in Calls /\ next.at = "guess" /\ next.month = 1 /\ next.attempt = 0
    BY NoCallIsCall DEF NoCall, Calls, Steps, Surfaces
  <2>3. call' = [call EXCEPT ![c] = next]
    BY <2>1
  <2> HIDE DEF next
  <2>4. MovesTo(c, next)
    BY <1>2, <2>2, <2>3 DEF MovesTo
  <2> QED BY <2>4
<1>7. CASE \E s \in Surfaces : StartCall(c, s)
  BY <1>4, <1>7 DEF StartCall
<1>8. CASE Ungated(c) \/ Pass(c)
  <2>1. PastTheGate(c) /\ call[c].surface \in Surfaces /\ "complete" \in Surfaces
    BY <1>2, <1>8 DEF Ungated, Pass, Calls, Surfaces
  <2>2. ceiling = NoCeiling \/ (call[c].at = "alerts" /\ ~Exceeded(c))
    BY <1>8 DEF Ungated, Pass, At
  <2> QED BY <1>4, <2>1, <2>2 DEF PastTheGate
<1>9. CASE RetryLater(c)
  <2> DEFINE n == call[c].attempt + 1
             next == [call[c] EXCEPT !.attempt = n]
  <2>1. CASE n < DEFAULT_MAX_ATTEMPTS /\ call' = [call EXCEPT ![c].attempt = n]
    <3>1. n \in Nat
      BY <1>2
    <3>2. next \in Calls /\ next.at = call[c].at /\ next.month = call[c].month /\ next.attempt = n
      BY <1>2, <3>1 DEF Calls
    <3>3. call' = [call EXCEPT ![c] = next] /\ call[c].at = "http"
      BY <1>2, <1>9, <2>1 DEF RetryLater, At
    <3> HIDE DEF next
    <3>4. MovesTo(c, next)
      BY <1>2, <2>1, <3>2, <3>3 DEF MovesTo
    <3> QED BY <3>4
  <2>2. CASE FailsToScore(c)
    BY <1>5, <2>2
  <2> QED BY <1>9, <2>1, <2>2 DEF RetryLater
<1>10. CASE FailAtOnce(c) \/ AnsweredNull(c) \/ AnswerLost(c)
  BY <1>5, <1>10 DEF FailAtOnce, AnsweredNull, AnswerLost
<1>11. CASE AnsweredRetry(c) \/ StreamBreaksOff(c) \/ LogCallFails(c)
  BY <1>3, <1>11 DEF AnsweredRetry, StreamBreaksOff, LogCallFails
<1>12. CASE Answered(c) \/ StreamFinishes(c)
  <2>1. call[c].at \in {"http", "reading"}
    BY <1>12 DEF Answered, StreamFinishes, At
  <2>2. PICK cost \in Costs : call' = [call EXCEPT ![c].at = "log", ![c].cost = cost]
    BY <1>12 DEF Answered, StreamFinishes
  <2> DEFINE next == [call[c] EXCEPT !.at = "log", !.cost = cost]
  <2>3. next \in Calls /\ next.at = "log" /\ next.month = call[c].month /\ next.attempt = call[c].attempt
    BY <1>2 DEF Calls, Steps
  <2>4. call' = [call EXCEPT ![c] = next]
    BY <1>2, <2>2
  <2> HIDE DEF next
  <2>5. MovesTo(c, next)
    BY <1>2, <2>1, <2>3, <2>4 DEF MovesTo
  <2> QED BY <2>5
<1>13. CASE StreamOpens(c)
  <2> DEFINE next == [call[c] EXCEPT !.at = "reading"]
  <2>1. next \in Calls /\ next.at = "reading" /\ next.month = call[c].month /\ next.attempt = call[c].attempt
    BY <1>2 DEF Calls, Steps
  <2>2. call' = [call EXCEPT ![c] = next] /\ call[c].at = "http"
    BY <1>2, <1>13 DEF StreamOpens, Goes, At
  <2> HIDE DEF next
  <2>3. MovesTo(c, next)
    BY <1>2, <2>1, <2>2 DEF MovesTo
  <2> QED BY <2>3
<1> QED BY <1>6, <1>7, <1>8, <1>9, <1>10, <1>11, <1>12, <1>13 DEF QuietStep

\* Calls that start, fail, wait for their answer or end without a row.
LEMMA QuietSteps ==
  ASSUME SpendInv, NEW c \in Callers, QuietStep(c)
  PROVE  SpendInv'
<1>1. UNCHANGED <<ceiling, now, costLog, guessLog, fired, notified, refused, spendFaults>>
  BY QuietKeeps
<1>2. PICK next : MovesTo(c, next)
  BY QuietMoves DEF SpendInv
<1>3. RoomLeft'
  BY <1>1, <1>2, MovesWithinTheGate DEF MovesTo
<1>4. Told'
  BY <1>1, <1>2, MovesInSilence DEF MovesTo
<1>5. CallsOK'
  BY <1>1, <1>2, MovesOK DEF SpendInv, CallsOK, MovesTo
<1> QED BY <1>3, <1>4, <1>5 DEF SpendInv

-----------------------------------------------------------------------------
\* One after the other is both.
LEMMA TwoInARow ==
  ASSUME NEW a, NEW b
  PROVE  <<a>> \o <<b>> = <<a, b>>
<1> DEFINE S == {a, b}
<1>1. <<a>> \in Seq(S) /\ <<b>> \in Seq(S) /\ <<a, b>> \in Seq(S)
  OBVIOUS
<1>2. /\ Len(<<a>> \o <<b>>) = 2 /\ <<a>> \o <<b>> \in Seq(S)
      /\ (<<a>> \o <<b>>)[1] = a /\ (<<a>> \o <<b>>)[2] = b
  BY <1>1, ConcatProperties
<1>3. \A i \in 1 .. 2 : (<<a>> \o <<b>>)[i] = <<a, b>>[i]
  BY <1>2
<1> QED BY <1>1, <1>2, <1>3, SeqEqual

\* The list of a spend that has reached the ceiling begins with that notification.
LEMMA ListOfASpend ==
  ASSUME NEW sum \in Nat
  PROVE  /\ Thresholds(sum) \in {<<Reached, Warning>>, <<Reached>>, <<Warning>>, << >>}
         /\ sum >= ceiling => Thresholds(sum) \in {<<Reached, Warning>>, <<Reached>>}
<1> DEFINE over == IF sum >= ceiling THEN <<Reached>> ELSE << >>
           close == IF 10 * sum >= 8 * ceiling THEN <<Warning>> ELSE << >>
<1>1. Thresholds(sum) = over \o close
  BY DEF Thresholds, Reached, Warning
<1>2. /\ <<Reached>> \o <<Warning>> = <<Reached, Warning>> /\ <<Reached>> \o << >> = <<Reached>>
      /\ << >> \o <<Warning>> = <<Warning>> /\ << >> \o << >> = << >>
  <2>1. <<Reached>> \o <<Warning>> = <<Reached, Warning>>
    BY TwoInARow
  <2>2. <<Reached>> \o << >> = <<Reached>>
    OBVIOUS
  <2>3. << >> \o <<Warning>> = <<Warning>>
    OBVIOUS
  <2>4. << >> \o << >> = << >>
    OBVIOUS
  <2> QED BY <2>1, <2>2, <2>3, <2>4
<1>3. /\ over = <<Reached>> \/ (over = << >> /\ ~(sum >= ceiling))
      /\ close \in {<<Warning>>, << >>}
  OBVIOUS
<1> HIDE DEF over, close
<1>4. CASE close = <<Warning>>
  BY <1>1, <1>2, <1>3, <1>4
<1>5. CASE close = << >>
  BY <1>1, <1>2, <1>3, <1>5
<1> QED BY <1>3, <1>4, <1>5

\* A notification taken off a list leaves the warning at most.
LEMMA HeadOfAList ==
  ASSUME NEW todo \in {<<Reached, Warning>>, <<Reached>>, <<Warning>>, << >>}, todo # << >>
  PROVE  /\ Head(todo) \in AlertKinds /\ Tail(todo) \in {<<Warning>>, << >>}
         /\ Head(todo) = Reached \/ todo \notin {<<Reached, Warning>>, <<Reached>>}
<1>1. Reached \in AlertKinds /\ Warning \in AlertKinds /\ Reached # Warning
  BY DEF AlertKinds, Reached, Warning
<1>2. CASE todo = <<Reached, Warning>>
  BY <1>1, <1>2
<1>3. CASE todo = <<Reached>>
  BY <1>1, <1>3
<1>4. CASE todo = <<Warning>>
  <2>1. Head(todo) = Warning /\ Tail(todo) = << >>
    BY <1>4
  <2>2. todo \notin {<<Reached, Warning>>, <<Reached>>}
    BY <1>1, <1>4
  <2> QED BY <1>1, <2>1, <2>2
<1> QED BY <1>2, <1>3, <1>4

\* The gate reads the month's spend: who finds room passes, who will be refused has
\* a notification to send first.
LEMMA ReadSpendKeeps ==
  ASSUME SpendInv, NEW c \in Callers, ReadSpend(c)
  PROVE  SpendInv'
<1> DEFINE sum == costLog[now] + guessLog[now]
           list == Thresholds(sum)
           atAlerts == [call[c] EXCEPT !.at = "alerts"]
           read == [atAlerts EXCEPT !.sum = sum]
           dated == [read EXCEPT !.month = now]
           next == [dated EXCEPT !.todo = list]
<1>1. /\ ceiling # NoCeiling /\ ceiling \in Nat \ {0} /\ now \in Months /\ costLog[now] \in Nat
      /\ guessLog[now] \in Nat /\ sum \in Nat /\ costLog[now] <= sum
      /\ call[c] \in Calls /\ call[c].at = "read" /\ call \in [Callers -> Calls]
  BY DEF SpendInv, CallsOK, ReadSpend, At
<1>2. UNCHANGED <<ceiling, now, costLog, guessLog, fired, notified, refused, spendFaults>>
  BY DEF ReadSpend, Money, Notices, Rest
<1>3. /\ list \in {<<Reached, Warning>>, <<Reached>>, <<Warning>>, << >>}
      /\ sum >= ceiling => list \in {<<Reached, Warning>>, <<Reached>>}
  BY <1>1, ListOfASpend
<1>4. atAlerts \in Calls /\ atAlerts.at = "alerts"
  BY <1>1 DEF Calls, Steps
<1>5. /\ call' = [call EXCEPT ![c] = next]
  <2>1. call' = [call EXCEPT ![c].at = "alerts", ![c].sum = sum,
                             ![c].month = now, ![c].todo = list]
    BY DEF ReadSpend, SpendThisMonth
  <2> QED BY <1>1, <2>1
<1> HIDE DEF sum, list, atAlerts
<1>6. read \in Calls /\ read.at = "alerts" /\ read.sum = sum
  BY <1>1, <1>4 DEF Calls
<1> HIDE DEF read
<1>7. dated \in Calls /\ dated.at = "alerts" /\ dated.sum = sum /\ dated.month = now
  BY <1>1, <1>6 DEF Calls
<1> HIDE DEF dated
<1>8. /\ next \in Calls /\ next.at = "alerts" /\ next.sum = sum
      /\ next.month = now /\ next.todo = list
  BY <1>3, <1>7 DEF Calls
<1> HIDE DEF next
<1>9. /\ call' \in [Callers -> Calls] /\ call'[c] = next
      /\ \A d \in Callers : d # c => call'[d] = call[d]
  BY <1>5, <1>8, CallerMoves DEF SpendInv
<1>10. CallsOK'
  <2>1. /\ next.month <= now /\ costLog' \in [Months -> Nat] /\ guessLog' \in [Months -> Nat]
        /\ fired' \in [Processes -> SUBSET Alerts] /\ notified' \in [Alerts -> Nat]
        /\ refused' \subseteq Months
    BY <1>1, <1>2, <1>8 DEF SpendInv, CallsOK, Months
  <2> QED BY <1>1, <1>2, <1>5, <1>8, <2>1, MovesOK
<1>11. Told'
  BY <1>2, <1>3, <1>8, <1>9 DEF SpendInv, Told, Audible
<1>12. RoomLeft'
  <2>1. CASE sum >= ceiling
    <3>1. ~(sum < ceiling)
      BY <1>1, <2>1
    <3>2. Passed' \subseteq Passed
      BY <1>2, <1>8, <1>9, <3>1 DEF Passed
    <3> QED BY <1>2, <3>2, NobodyPasses DEF SpendInv
  <2>2. CASE sum < ceiling
    <3>1. IsFiniteSet(Callers) /\ Passed' \subseteq Callers /\ Cardinality(Callers) \in Nat
      BY SpendAssumption, PassedIsCounted DEF Passed
    <3>2. Cardinality(Passed') \in Nat /\ Cardinality(Passed') <= Cardinality(Callers)
      BY <3>1, FS_Subset, FS_CardinalityType
    <3>3. /\ Cardinality(Passed') * Most <= Cardinality(Callers) * Most
          /\ Cardinality(Passed') * Most \in Nat /\ Cardinality(Callers) * Most \in Nat
      BY <3>1, <3>2, FewerCostLess
    <3>4. costLog[now] + Cardinality(Passed') * Most < ceiling + Cardinality(Callers) * Most
      BY <1>1, <2>2, <3>3
    <3>5. Most' = Most /\ Cardinality(Passed)' = Cardinality(Passed')
      BY DEF Most
    <3> QED BY <1>2, <3>4, <3>5 DEF SpendInv, RoomLeft
  <2> QED BY <1>1, <2>1, <2>2
<1> QED BY <1>10, <1>11, <1>12 DEF SpendInv

\* A row stays, and a row of the month itself counts.
LEMMA SentStaysSent ==
  ASSUME NEW rows \in [Alerts -> Nat], NEW more \in [Alerts -> Nat],
         \A a \in Alerts : more[a] >= rows[a],
         NEW kind \in AlertKinds, NEW m \in Months, SentBy(rows, kind, m)
  PROVE  SentBy(more, kind, m)
<1>1. PICK k \in m .. MaxMonth : rows[<<kind, k>>] > 0
  BY DEF SentBy
<1>2. <<kind, k>> \in Alerts
  BY <1>1, SpendAssumption DEF Alerts, Months
<1>3. rows[<<kind, k>>] \in Nat /\ more[<<kind, k>>] \in Nat /\ more[<<kind, k>>] >= rows[<<kind, k>>]
  BY <1>2
<1> QED BY <1>1, <1>3 DEF SentBy

LEMMA InThatMonth ==
  ASSUME NEW rows, NEW kind, NEW m \in Months, rows[<<kind, m>>] > 0
  PROVE  SentBy(rows, kind, m)
<1>1. m \in m .. MaxMonth
  BY SpendAssumption DEF Months
<1> QED BY <1>1 DEF SentBy

\* A threshold that was announced in the month of the call is taken off its list.
LEMMA CheckAlertKeeps ==
  ASSUME SpendInv, NEW c \in Callers, CheckAlert(c)
  PROVE  SpendInv'
<1> DEFINE kind == Head(call[c].todo)
           month == call[c].month
           p == ProcessOf[c]
<1>1. /\ call[c] \in Calls /\ call[c].at = "alerts" /\ call[c].todo # << >>
      /\ ceiling # NoCeiling /\ p \in Processes /\ month \in Months
  BY SpendAssumption DEF SpendInv, CallsOK, CheckAlert, At, Calls
<1>2. UNCHANGED <<ceiling, now, costLog, guessLog, notified, refused, spendFaults>>
  BY DEF CheckAlert, Money, Rest
<1>3. /\ kind \in AlertKinds /\ Tail(call[c].todo) \in {<<Warning>>, << >>}
      /\ kind = Reached \/ call[c].todo \notin {<<Reached, Warning>>, <<Reached>>}
  BY <1>1, HeadOfAList DEF Calls
<1>4. CASE <<kind, month>> \in fired[p] \/ notified[<<kind, month>>] > 0
  <2> DEFINE next == [call[c] EXCEPT !.todo = Tail(call[c].todo)]
  <2>1. /\ next \in Calls /\ next.at = "alerts" /\ next.sum = call[c].sum
        /\ next.month = month /\ next.todo = Tail(call[c].todo)
    BY <1>1, <1>3 DEF Calls
  <2>2. /\ call' = [call EXCEPT ![c] = next]
        /\ fired' = [fired EXCEPT ![p] = @ \cup {<<kind, month>>}]
    BY <1>4 DEF CheckAlert, CacheKey, AlreadySent
  <2> HIDE DEF next
  <2>3. <<kind, month>> \in Alerts
    BY <1>1, <1>3 DEF Alerts
  <2>4. Audible => SentBy(notified, kind, month)
    BY <1>1, <1>4, InThatMonth DEF SpendInv, Told
  <2>5. /\ fired' \in [Processes -> SUBSET Alerts]
        /\ \A q \in Processes : \A a \in fired'[q] : a \in fired[q] \/ a = <<kind, month>>
    BY <2>2, <2>3 DEF SpendInv, CallsOK
  <2>6. /\ call' \in [Callers -> Calls] /\ call'[c] = next
        /\ \A d \in Callers : d # c => call'[d] = call[d]
    BY <2>1, <2>2, CallerMoves DEF SpendInv
  <2>7. CallsOK'
    BY <1>1, <1>2, <2>1, <2>2, <2>5, MovesOK DEF SpendInv, CallsOK
  <2>8. RoomLeft'
    BY <1>1, <1>2, <2>1, <2>2, MovesWithinTheGate
  <2>9. Told'
    <3>1. SUFFICES ASSUME Audible PROVE Told'
      BY <1>2 DEF Told, Audible
    <3>2. \A q \in Processes : \A a \in fired'[q] : SentBy(notified, a[1], a[2])
      BY <1>2, <2>4, <2>5, <3>1 DEF SpendInv, Told
    <3>3. ASSUME NEW d \in Callers, call'[d].at \in {"alerts", "send"}, call'[d].sum >= ceiling
          PROVE  \/ call'[d].todo \in {<<Reached, Warning>>, <<Reached>>}
                 \/ SentBy(notified, Reached, call'[d].month)
      BY <1>1, <1>3, <2>1, <2>4, <2>6, <3>1, <3>3 DEF SpendInv, Told
    <3>4. \A m \in refused' : SentBy(notified, Reached, m)
      BY <1>2, <3>1 DEF SpendInv, Told
    <3> QED BY <1>2, <3>2, <3>3, <3>4 DEF Told
  <2> QED BY <2>7, <2>8, <2>9 DEF SpendInv
<1>5. CASE ~(<<kind, month>> \in fired[p] \/ notified[<<kind, month>>] > 0)
  <2> DEFINE next == [call[c] EXCEPT !.at = "send"]
  <2>1. /\ next \in Calls /\ next.at = "send" /\ next.sum = call[c].sum
        /\ next.month = month /\ next.todo = call[c].todo
    BY <1>1 DEF Calls, Steps
  <2>2. call' = [call EXCEPT ![c] = next] /\ fired' = fired
    BY <1>5 DEF CheckAlert, CacheKey, AlreadySent, Goes
  <2> HIDE DEF next
  <2>3. CallsOK'
    BY <1>1, <1>2, <2>1, <2>2, MovesOK DEF SpendInv, CallsOK
  <2>4. RoomLeft'
    BY <1>1, <1>2, <2>1, <2>2, MovesWithinTheGate
  <2>5. Told'
    BY <1>1, <1>2, <2>1, <2>2, MovesInSilence
  <2> QED BY <2>3, <2>4, <2>5 DEF SpendInv
<1> QED BY <1>4, <1>5

\* A notification is sent, or fails where the gate goes on without it.
LEMMA SendAlertKeeps ==
  ASSUME SpendInv, NEW c \in Callers, SendAlert(c) \/ AlertFails(c)
  PROVE  SpendInv'
<1> DEFINE kind == Head(call[c].todo)
           month == call[c].month
           p == ProcessOf[c]
           rest == IF SendAlert(c) THEN Tail(call[c].todo) ELSE << >>
           next == [[call[c] EXCEPT !.todo = rest] EXCEPT !.at = "alerts"]
<1>1. /\ call[c] \in Calls /\ call[c].at = "send" /\ call[c].todo # << >>
      /\ ceiling # NoCeiling /\ p \in Processes /\ month \in Months
      /\ now \in Months /\ month <= now
      /\ UNCHANGED <<ceiling, now, costLog, guessLog, refused, spendFaults>>
  BY SpendAssumption DEF SpendInv, CallsOK, SendAlert, AlertFails, At, Calls, Money, Notices, Rest
<1>2. /\ kind \in AlertKinds /\ rest \in {<<Warning>>, << >>}
      /\ kind = Reached \/ call[c].todo \notin {<<Reached, Warning>>, <<Reached>>}
  BY <1>1, HeadOfAList DEF Calls
<1>3. call' = [call EXCEPT ![c] = next]
  <2>1. call' = [call EXCEPT ![c].todo = rest, ![c].at = "alerts"]
    BY DEF SendAlert, AlertFails
  <2> QED BY <2>1 DEF SpendInv, CallsOK
<1> HIDE DEF rest
<1>4. /\ next \in Calls /\ next.at = "alerts" /\ next.sum = call[c].sum
      /\ next.month = month /\ next.todo = rest
  BY <1>1, <1>2 DEF Calls, Steps
<1> HIDE DEF next
<1>5. <<kind, month>> \in Alerts /\ <<kind, now>> \in Alerts
  BY <1>1, <1>2 DEF Alerts
<1>6. /\ \/ /\ notified' = [notified EXCEPT ![<<kind, now>>] = @ + 1]
            /\ fired' = [fired EXCEPT ![p] = @ \cup {<<kind, month>>}]
         \/ /\ UNCHANGED notified /\ ~Audible
            /\ fired' = [fired EXCEPT ![p] = @ \cup {<<kind, month>>}]
         \/ UNCHANGED <<notified, fired>> /\ ~Audible
  BY DEF SendAlert, AlertFails, CacheKey, Notices, Audible
<1>7. /\ notified' \in [Alerts -> Nat] /\ \A a \in Alerts : notified'[a] >= notified[a]
      /\ fired' \in [Processes -> SUBSET Alerts]
      /\ Audible => SentBy(notified', kind, month)
      /\ \A q \in Processes : \A a \in fired'[q] : a \in fired[q] \/ a = <<kind, month>>
  <2>1. /\ notified \in [Alerts -> Nat] /\ fired \in [Processes -> SUBSET Alerts]
        /\ \A a \in Alerts : notified[a] \in Nat /\ notified[a] >= notified[a]
    BY DEF SpendInv, CallsOK
  <2> HIDE DEF kind, month, p
  <2>2. CASE UNCHANGED <<notified, fired>> /\ ~Audible
    BY <2>1, <2>2
  <2> DEFINE key == <<kind, month>>
             row == <<kind, now>>
  <2>3. ASSUME fired' = [fired EXCEPT ![p] = @ \cup {key}]
        PROVE  /\ fired' \in [Processes -> SUBSET Alerts]
               /\ \A q \in Processes : \A a \in fired'[q] : a \in fired[q] \/ a = key
    <3>1. key \in Alerts
      BY <1>5
    <3> HIDE DEF key
    <3> QED BY <2>1, <2>3, <3>1
  <2>4. CASE UNCHANGED notified /\ ~Audible /\ fired' = [fired EXCEPT ![p] = @ \cup {key}]
    BY <2>1, <2>3, <2>4
  <2>5. CASE /\ notified' = [notified EXCEPT ![row] = @ + 1]
             /\ fired' = [fired EXCEPT ![p] = @ \cup {key}]
    <3>1. row \in Alerts /\ notified' = [notified EXCEPT ![row] = @ + 1]
      BY <1>5, <2>5
    <3>2. /\ notified' \in [Alerts -> Nat] /\ \A a \in Alerts : notified'[a] >= notified[a]
          /\ notified'[row] > 0
      <4> HIDE DEF row
      <4> QED BY <2>1, <3>1
    <3>3. SentBy(notified', kind, month)
      <4>1. now \in month .. MaxMonth
        BY <1>1 DEF Months, month
      <4> QED BY <3>2, <4>1 DEF SentBy
    <3> QED BY <2>3, <2>5, <3>2, <3>3
  <2> QED BY <1>6, <2>2, <2>4, <2>5
<1>8. /\ call' \in [Callers -> Calls] /\ call'[c] = next
      /\ \A d \in Callers : d # c => call'[d] = call[d]
  BY <1>3, <1>4, CallerMoves DEF SpendInv
<1>9. CallsOK'
  BY <1>1, <1>3, <1>4, <1>7, MovesOK DEF SpendInv, CallsOK
<1>10. RoomLeft'
  BY <1>1, <1>3, <1>4, MovesWithinTheGate
<1>11. Told'
  <2>1. SUFFICES ASSUME Audible PROVE Told'
    BY <1>1 DEF Told, Audible
  <2>2. \A k \in AlertKinds, m \in Months : SentBy(notified, k, m) => SentBy(notified', k, m)
    BY <1>7, SentStaysSent DEF SpendInv, CallsOK
  <2>3. \A q \in Processes : \A a \in fired'[q] : SentBy(notified', a[1], a[2])
    <3>1. ASSUME NEW q \in Processes, NEW a \in fired'[q]
          PROVE  SentBy(notified', a[1], a[2])
      <4>1. CASE a \in fired[q]
        <5>1. a[1] \in AlertKinds /\ a[2] \in Months /\ SentBy(notified, a[1], a[2])
          BY <2>1, <4>1 DEF SpendInv, CallsOK, Told, Alerts
        <5> QED BY <2>2, <5>1
      <4>2. CASE a = <<kind, month>>
        BY <1>7, <2>1, <4>2
      <4> QED BY <1>7, <3>1, <4>1, <4>2
    <3> QED BY <3>1
  <2>4. Reached \in AlertKinds
    BY DEF AlertKinds, Reached
  <2>5. ASSUME NEW d \in Callers, call'[d].at \in {"alerts", "send"}, call'[d].sum >= ceiling
        PROVE  \/ call'[d].todo \in {<<Reached, Warning>>, <<Reached>>}
               \/ SentBy(notified', Reached, call'[d].month)
    <3>1. CASE d = c
      BY <1>1, <1>2, <1>4, <1>7, <1>8, <2>1, <2>2, <2>4, <2>5, <3>1 DEF SpendInv, Told
    <3>2. CASE d # c
      <4>1. call[d].month \in Months
        BY DEF SpendInv, CallsOK, Calls
      <4> QED BY <1>8, <2>1, <2>2, <2>4, <2>5, <3>2, <4>1 DEF SpendInv, Told
    <3> QED BY <3>1, <3>2
  <2>6. \A m \in refused : SentBy(notified', Reached, m)
    BY <2>1, <2>2, <2>4 DEF SpendInv, CallsOK, Told
  <2> QED BY <1>1, <2>3, <2>5, <2>6 DEF Told
<1> QED BY <1>9, <1>10, <1>11 DEF SpendInv

\* Who finds no room is refused, and was told so.
LEMMA RefuseKeeps ==
  ASSUME SpendInv, NEW c \in Callers, Refuse(c)
  PROVE  SpendInv'
<1>1. /\ NoCall \in Calls /\ NoCall.at = "idle" /\ NoCall.month <= now
      /\ call[c] \in Calls /\ call[c].at = "alerts"
      /\ call[c].todo = << >> /\ call[c].sum >= ceiling /\ ceiling # NoCeiling
  BY NoCallIsCall DEF SpendInv, CallsOK, Refuse, At, Exceeded, Months
<1>2. /\ UNCHANGED <<ceiling, now, costLog, guessLog, fired, notified, spendFaults>>
      /\ refused' = refused \cup {call[c].month} /\ call' = [call EXCEPT ![c] = NoCall]
  BY DEF Refuse, Money, Rest, Ends
<1>3. call[c].month \in Months
  BY <1>1 DEF Calls
<1>4. Audible => SentBy(notified, Reached, call[c].month)
  <2>1. << >> \notin {<<Reached, Warning>>, <<Reached>>}
    OBVIOUS
  <2> QED BY <1>1, <2>1 DEF SpendInv, Told
<1>5. /\ call' \in [Callers -> Calls] /\ call'[c] = NoCall
      /\ \A d \in Callers : d # c => call'[d] = call[d]
  BY <1>1, <1>2, CallerMoves DEF SpendInv
<1>6. CallsOK'
  BY <1>1, <1>2, <1>3, MovesOK DEF SpendInv, CallsOK
<1>7. RoomLeft'
  BY <1>1, <1>2, MovesWithinTheGate
<1>8. Told'
  BY <1>1, <1>2, <1>4, <1>5 DEF SpendInv, Told, Audible
<1> QED BY <1>6, <1>7, <1>8 DEF SpendInv

\* A call's cost is logged in the month that is: it leaves the callers that passed.
LEMMA LogCallKeeps ==
  ASSUME SpendInv, NEW c \in Callers, LogCall(c)
  PROVE  SpendInv'
<1>1. /\ NoCall \in Calls /\ NoCall.at = "idle" /\ NoCall.month <= now
      /\ call[c] \in Calls /\ call[c].at = "log"
      /\ now \in Months /\ costLog \in [Months -> Nat] /\ costLog[now] \in Nat
  BY NoCallIsCall DEF SpendInv, CallsOK, LogCall, At, Months
<1> DEFINE cost == call[c].cost
<1>2. /\ UNCHANGED <<ceiling, now, guessLog, fired, notified, refused, spendFaults>>
      /\ costLog' = [costLog EXCEPT ![now] = @ + cost] /\ call' = [call EXCEPT ![c] = NoCall]
  BY DEF LogCall, Notices, Rest, Ends
<1>3. Most \in Nat /\ cost \in Nat /\ cost <= Most
  <2>1. cost \in Costs \cup {0}
    BY <1>1 DEF Calls
  <2>2. Costs \subseteq Nat
    BY SpendAssumption
  <2> HIDE DEF cost
  <2> QED BY <2>1, <2>2, MostIsMost
<1> HIDE DEF cost
<1>4. /\ costLog' \in [Months -> Nat] /\ costLog'[now] = costLog[now] + cost
      /\ \A m \in Months : m # now => costLog'[m] = costLog[m]
  BY <1>1, <1>2, <1>3
<1>5. /\ call' \in [Callers -> Calls] /\ call'[c] = NoCall
      /\ \A d \in Callers : d # c => call'[d] = call[d]
  BY <1>1, <1>2, CallerMoves DEF SpendInv
<1>6. CallsOK'
  BY <1>1, <1>2, <1>4, MovesOK DEF SpendInv, CallsOK
<1>7. Told'
  BY <1>1, <1>2, MovesInSilence
<1>8. RoomLeft'
  <2>1. c \in Passed /\ Passed' = Passed \ {c}
    BY <1>1, <1>2, <1>5 DEF Passed
  <2>2. /\ IsFiniteSet(Passed) /\ Cardinality(Passed) \in Nat /\ Cardinality(Callers) \in Nat
        /\ Cardinality(Passed) <= Cardinality(Callers)
    BY PassedIsCounted
  <2>3. Cardinality(Passed') = Cardinality(Passed) - 1 /\ Cardinality(Passed') \in Nat
    BY <2>1, <2>2, FS_RemoveElement, FS_CardinalityType
  <2>4. Cardinality(Passed) * Most = Cardinality(Passed') * Most + Most
    <3>1. (Cardinality(Passed') + 1) * Most = Cardinality(Passed') * Most + Most
      BY <2>3, FewerCostLess
    <3>2. Cardinality(Passed') + 1 = Cardinality(Passed)
      BY <2>2, <2>3
    <3> QED BY <3>1, <3>2
  <2>5. /\ Cardinality(Passed') * Most \in Nat /\ Cardinality(Callers) * Most \in Nat
    BY <2>2, <2>3, FewerCostLess
  <2>6. ceiling # NoCeiling => ceiling \in Nat
    BY DEF SpendInv, CallsOK
  <2>7. ceiling # NoCeiling =>
          costLog'[now] + Cardinality(Passed') * Most < ceiling + Cardinality(Callers) * Most
    BY <1>1, <1>3, <1>4, <2>4, <2>5, <2>6 DEF SpendInv, RoomLeft
  <2>8. Most' = Most /\ Cardinality(Passed)' = Cardinality(Passed') /\ Months \subseteq Int
    BY DEF Most, Months
  <2> QED BY <1>1, <1>2, <1>4, <2>7, <2>8 DEF SpendInv, RoomLeft
<1> QED BY <1>6, <1>7, <1>8 DEF SpendInv

\* An estimate is logged for a call that has not passed, or has failed.
LEMMA LogGuessKeeps ==
  ASSUME SpendInv, NEW c \in Callers, LogGuess(c)
  PROVE  SpendInv'
<1>1. /\ NoCall \in Calls /\ NoCall.at = "idle" /\ NoCall.month <= now
      /\ call[c] \in Calls /\ now \in Months /\ guessLog \in [Months -> Nat]
  BY NoCallIsCall DEF SpendInv, CallsOK, Months
<1>2. /\ UNCHANGED <<ceiling, now, costLog, fired, notified, refused, spendFaults>>
      /\ guessLog' = [guessLog EXCEPT ![now] = @ + call[c].cost] /\ call' = [call EXCEPT ![c] = NoCall]
  BY DEF LogGuess, Notices, Rest, Ends
<1> DEFINE estimate == call[c].cost
<1>3. estimate \in Nat
  <2>1. estimate \in Costs \cup {0}
    BY <1>1 DEF Calls
  <2>2. Costs \subseteq Nat
    BY SpendAssumption
  <2> HIDE DEF estimate
  <2> QED BY <2>1, <2>2
<1>4. guessLog' \in [Months -> Nat]
  BY <1>1, <1>2, <1>3
<1>5. CallsOK'
  BY <1>1, <1>2, <1>4, MovesOK DEF SpendInv, CallsOK
<1>6. RoomLeft'
  BY <1>1, <1>2, MovesWithinTheGate
<1>7. Told'
  BY <1>1, <1>2, MovesInSilence
<1> QED BY <1>5, <1>6, <1>7 DEF SpendInv

\* A triage run takes its postings up.
LEMMA BeginBatchKeeps ==
  ASSUME SpendInv, NEW postings, BeginBatch(postings)
  PROVE  SpendInv'
<1>1. UNCHANGED <<ceiling, now, costLog, guessLog, fired, notified, refused, call, spendFaults>>
  BY DEF BeginBatch, Money, Notices
<1>2. CallsOK' /\ Told'
  BY <1>1 DEF SpendInv, CallsOK, At, Told, Audible
<1>3. RoomLeft'
  BY <1>1, NobodyPasses DEF SpendInv, Passed
<1> QED BY <1>2, <1>3 DEF SpendInv

\* A new month begins with nothing logged, whoever is still at work.
LEMMA MonthEndsKeeps ==
  ASSUME SpendInv, MonthEnds
  PROVE  SpendInv'
<1>1. /\ now \in Months /\ now < MaxMonth /\ now' = now + 1 /\ MaxMonth \in Nat
      /\ UNCHANGED <<ceiling, costLog, guessLog, fired, notified, refused, call, spendFaults>>
  BY SpendAssumption DEF SpendInv, CallsOK, MonthEnds, Money, Notices
<1>2. now' \in Months /\ Months \subseteq Nat
  BY <1>1 DEF Months
<1>3. CallsOK'
  <2>1. \A c \in Callers : call[c].month <= now /\ call[c].month \in Nat
    BY <1>2 DEF SpendInv, CallsOK, Calls
  <2>2. \A c \in Callers : call[c].month <= now'
    BY <1>1, <1>2, <2>1
  <2> QED BY <1>1, <1>2, <2>2 DEF SpendInv, CallsOK, At
<1>4. Told'
  BY <1>1 DEF SpendInv, Told, Audible
<1>5. RoomLeft'
  <2>1. SUFFICES ASSUME ceiling # NoCeiling PROVE RoomLeft'
    BY <1>1 DEF RoomLeft
  <2>2. ceiling \in Nat \ {0} /\ costLog \in [Months -> Nat]
    BY <2>1 DEF SpendInv, CallsOK
  <2>3. /\ Cardinality(Passed) \in Nat /\ Cardinality(Callers) \in Nat
        /\ Cardinality(Passed) <= Cardinality(Callers)
    BY PassedIsCounted
  <2>4. /\ Cardinality(Passed) * Most <= Cardinality(Callers) * Most
        /\ Cardinality(Passed) * Most \in Nat /\ Cardinality(Callers) * Most \in Nat
    BY <2>3, FewerCostLess
  <2>5. Most' = Most /\ Cardinality(Passed)' = Cardinality(Passed)
    BY <1>1 DEF Most, Passed
  <2>6. costLog[now'] = 0
    BY <1>1, <1>2, <2>1 DEF SpendInv, RoomLeft
  <2>7. costLog[now] < ceiling + Cardinality(Callers) * Most
    BY <1>1, <2>1, <2>2, <2>4 DEF SpendInv, RoomLeft
  <2>8. costLog[now'] + Cardinality(Passed) * Most < ceiling + Cardinality(Callers) * Most
    BY <2>2, <2>4, <2>6
  <2>9. \A m \in Months : m < now' => costLog[m] < ceiling + Cardinality(Callers) * Most
    BY <1>1, <1>2, <2>1, <2>7 DEF SpendInv, RoomLeft
  <2>10. \A m \in Months : m > now' => costLog[m] = 0
    BY <1>1, <1>2, <2>1 DEF SpendInv, RoomLeft
  <2> QED BY <1>1, <2>5, <2>8, <2>9, <2>10 DEF RoomLeft
<1> QED BY <1>3, <1>4, <1>5 DEF SpendInv

\* A process that is restarted forgets its calls and what it has announced.
LEMMA RestartKeeps ==
  ASSUME SpendInv, NEW p \in Processes, Restart(p)
  PROVE  SpendInv'
<1>1. /\ UNCHANGED <<ceiling, now, costLog, guessLog, notified, refused, spendFaults>>
      /\ call' = [c \in Callers |-> IF ProcessOf[c] = p THEN NoCall ELSE call[c]]
      /\ fired' = [fired EXCEPT ![p] = {}]
  BY DEF Restart, Money, Rest
<1>2. NoCall \in Calls /\ NoCall.at = "idle" /\ NoCall.month <= now
  BY NoCallIsCall DEF SpendInv, CallsOK, Months
<1>3. /\ call' \in [Callers -> Calls]
      /\ \A c \in Callers : call'[c] = call[c] \/ call'[c] = NoCall
  BY <1>1, <1>2 DEF SpendInv, CallsOK
<1>4. /\ fired' \in [Processes -> SUBSET Alerts] /\ \A q \in Processes : fired'[q] \subseteq fired[q]
  BY <1>1 DEF SpendInv, CallsOK
<1>5. CallsOK'
  BY <1>1, <1>2, <1>3, <1>4 DEF SpendInv, CallsOK, At
<1>6. Passed' \subseteq Passed
  BY <1>1, <1>2, <1>3 DEF Passed
<1>7. RoomLeft'
  BY <1>1, <1>6, NobodyPasses DEF SpendInv
<1>8. Told'
  BY <1>1, <1>2, <1>3, <1>4 DEF SpendInv, Told, Audible
<1> QED BY <1>5, <1>7, <1>8 DEF SpendInv

-----------------------------------------------------------------------------
\* Every action preserves the invariant.
LEMMA SpendNextKeeps ==
  ASSUME SpendInv, [SpendNext]_spendVars
  PROVE  SpendInv'
<1>1. CASE UNCHANGED spendVars
  <2>1. /\ CallsOK' <=> CallsOK
        /\ Told' <=> Told
    BY <1>1 DEF spendVars, CallsOK, At, Told, Audible
  <2>2. RoomLeft'
    BY <1>1, NobodyPasses DEF SpendInv, spendVars, Passed
  <2> QED BY <2>1, <2>2 DEF SpendInv
<1>2. ASSUME NEW c \in Callers, QuietStep(c)
      PROVE  SpendInv'
  BY <1>2, QuietSteps
<1>3. ASSUME NEW c \in Callers,
             \/ ReadSpend(c) \/ CheckAlert(c) \/ SendAlert(c) \/ AlertFails(c)
             \/ Refuse(c) \/ LogCall(c) \/ LogGuess(c)
      PROVE  SpendInv'
  BY <1>3, ReadSpendKeeps, CheckAlertKeeps, SendAlertKeeps, RefuseKeeps, LogCallKeeps, LogGuessKeeps
<1>4. CASE MonthEnds
  BY <1>4, MonthEndsKeeps
<1>5. CASE \E p \in Processes : Restart(p)
  BY <1>5, RestartKeeps
<1>6. CASE \E postings \in Batches : BeginBatch(postings)
  BY <1>6, BeginBatchKeeps
<1> QED BY <1>1, <1>2, <1>3, <1>4, <1>5, <1>6 DEF SpendNext, QuietStep

\* Nothing has been spent or announced.
LEMMA SpendInitKeeps ==
  ASSUME SpendInit PROVE SpendInv
<1>1. /\ ceiling \in Ceilings /\ now = 1 /\ costLog = [m \in Months |-> 0] /\ guessLog = [m \in Months |-> 0]
      /\ fired = [p \in Processes |-> {}] /\ notified = [a \in Alerts |-> 0] /\ refused = {}
      /\ call = [c \in Callers |-> NoCall]
  BY DEF SpendInit
<1>2. 1 \in Months /\ Months \subseteq Nat
  BY SpendAssumption DEF Months
<1>3. NoCall \in Calls /\ NoCall.at = "idle" /\ NoCall.month = 1
  BY NoCallIsCall
<1>4. call \in [Callers -> Calls] /\ \A c \in Callers : call[c].at = "idle" /\ call[c].month <= now
  BY <1>1, <1>3
<1>5. CallsOK
  BY <1>1, <1>2, <1>4, SpendAssumption DEF CallsOK, At
<1>6. RoomLeft
  <2>1. Passed = {}
    BY <1>4 DEF Passed
  <2>2. Cardinality(Passed) = 0 /\ Cardinality(Callers) \in Nat
    BY <2>1, FS_EmptySet, PassedIsCounted
  <2>3. 0 * Most = 0 /\ Cardinality(Callers) * Most \in Nat
    <3>1. Most \in Nat
      BY MostIsMost
    <3> HIDE DEF Most
    <3> QED BY <2>2, <3>1, FewerCostLess
  <2>4. ceiling # NoCeiling => ceiling \in Nat \ {0}
    BY <1>5 DEF CallsOK
  <2> QED BY <1>1, <1>2, <2>2, <2>3, <2>4 DEF RoomLeft
<1>7. Told
  BY <1>1, <1>4 DEF Told
<1> QED BY <1>5, <1>6, <1>7 DEF SpendInv

\* The costs billed on a month's rows stay below the ceiling plus one call of each
\* caller, each posting of a triage batch being one, whatever the interleaving, the
\* faults and the prices: what has passed the gate and is not logged is one call of
\* each at most (spend_ceiling.py:159, triage/orchestrator.py:486-556).
THEOREM OvershootIsBounded == SpendSpec => []OvershootBounded
<1>1. SpendInit => SpendInv
  BY SpendInitKeeps
<1>2. SpendInv /\ [SpendNext]_spendVars => SpendInv'
  BY SpendNextKeeps
<1>3. SpendInv => OvershootBounded
  <2>1. SUFFICES ASSUME SpendInv, ceiling # NoCeiling, NEW m \in Months
                 PROVE  costLog[m] < ceiling + Cardinality(Callers) * Most
    BY DEF OvershootBounded, Most
  <2>2. /\ Cardinality(Passed) * Most \in Nat /\ Cardinality(Callers) * Most \in Nat
    BY PassedIsCounted, FewerCostLess
  <2>3. now \in Months /\ Months \subseteq Int /\ costLog[now] \in Nat /\ ceiling \in Nat \ {0}
    BY <2>1 DEF SpendInv, CallsOK, Months
  <2>4. CASE m = now
    BY <2>1, <2>2, <2>3, <2>4 DEF SpendInv, RoomLeft
  <2>5. CASE m < now
    BY <2>1, <2>5 DEF SpendInv, RoomLeft
  <2>6. CASE m > now
    BY <2>1, <2>2, <2>3, <2>6 DEF SpendInv, RoomLeft
  <2> QED BY <2>3, <2>4, <2>5, <2>6
<1> QED BY <1>1, <1>2, <1>3, PTL DEF SpendSpec

\* Unless sending or its row failed, whoever was refused a call in a month was sent
\* the notification, filed in that month or a later one, across restarts and month
\* ends (spend_ceiling.py:124-141, ntfy.py:141-163).
THEOREM RefusalsAreAnnounced == SpendSpec => []RefusalIsAnnounced
<1>1. SpendInit => SpendInv
  BY SpendInitKeeps
<1>2. SpendInv /\ [SpendNext]_spendVars => SpendInv'
  BY SpendNextKeeps
<1>3. SpendInv => RefusalIsAnnounced
  BY DEF SpendInv, Told, Audible, SentBy, RefusalIsAnnounced, Reached
<1> QED BY <1>1, <1>2, <1>3, PTL DEF SpendSpec

-----------------------------------------------------------------------------
\* What the gate's invariant leaves open: the attempts, the batch and the bounds.
SpendBounds ==
  /\ ceiling \in Ceilings /\ batch \subseteq ToScore
  /\ \A c \in Callers : call[c].attempt \in 0 .. DEFAULT_MAX_ATTEMPTS
  /\ started \in 0 .. MaxCalls /\ spendFaults \in SpendFaults

\* The lists of alerts are alerts.
LEMMA SpendIsTyped ==
  ASSUME SpendInv, SpendBounds
  PROVE  SpendTypeOK
<1>1. ASSUME NEW c \in Callers
      PROVE  /\ call[c].at \in Steps /\ call[c].surface \in Surfaces
             /\ call[c].sum \in Nat /\ call[c].month \in Months
             /\ ToSet(call[c].todo) \subseteq AlertKinds
             /\ call[c].cost \in Costs \cup {0}
  <2>1. call[c] \in Calls
    BY DEF SpendInv, CallsOK
  <2>2. call[c].todo \in {<<Reached, Warning>>, <<Reached>>, <<Warning>>, << >>}
    BY <2>1 DEF Calls
  <2>3. \A todo \in {<<Reached, Warning>>, <<Reached>>, <<Warning>>, << >>} : ToSet(todo) \subseteq AlertKinds
    BY DEF ToSet, AlertKinds, Reached, Warning
  <2>4. ToSet(call[c].todo) \subseteq AlertKinds
    BY <2>2, <2>3
  <2> QED BY <2>1, <2>4 DEF Calls
<1> QED BY <1>1 DEF SpendInv, CallsOK, SpendBounds, SpendTypeOK

\* Every action keeps the bounds.
LEMMA SpendNextIsBounded ==
  ASSUME SpendInv, SpendBounds, [SpendNext]_spendVars
  PROVE  SpendBounds'
<1> DEFINE Attempts == \A c \in Callers : call'[c].attempt \in 0 .. DEFAULT_MAX_ATTEMPTS
<1>1. /\ call \in [Callers -> Calls] /\ ceiling \in Ceilings /\ batch \subseteq ToScore
      /\ started \in 0 .. MaxCalls /\ MaxCalls \in Nat
      /\ \A c \in Callers : call[c].attempt \in 0 .. DEFAULT_MAX_ATTEMPTS
      /\ spendFaults \in SpendFaults
  BY SpendAssumption DEF SpendInv, CallsOK, SpendBounds
<1>2. NoCall.attempt = 0 /\ 0 \in 0 .. DEFAULT_MAX_ATTEMPTS
  BY DEF NoCall, DEFAULT_MAX_ATTEMPTS
<1>3. ASSUME NEW c \in Callers, NEW next, next.attempt \in 0 .. DEFAULT_MAX_ATTEMPTS,
             call' = [call EXCEPT ![c] = next]
      PROVE  Attempts
  BY <1>1, <1>3
<1>4. ASSUME UNCHANGED call
      PROVE  Attempts
  BY <1>1, <1>4
<1>5. ASSUME NEW c \in Callers, call'[c].attempt = call[c].attempt,
             \A d \in Callers : d # c => call'[d] = call[d]
      PROVE  Attempts
  BY <1>1, <1>5
<1>6. CASE UNCHANGED spendVars
  BY <1>1, <1>4, <1>6 DEF spendVars, SpendBounds
<1>7. ASSUME NEW c \in Callers, QuietStep(c)
      PROVE  SpendBounds'
  <2>1. PICK next : MovesTo(c, next)
    BY <1>7, QuietMoves DEF SpendInv
  <2>2. next.attempt \in 0 .. DEFAULT_MAX_ATTEMPTS
    <3>1. call[c].attempt \in 0 .. 3 /\ DEFAULT_MAX_ATTEMPTS = 3
      BY <1>1 DEF DEFAULT_MAX_ATTEMPTS
    <3>2. next.attempt \in {0, call[c].attempt} \/ (next.attempt = call[c].attempt + 1 /\ next.attempt < 3)
      BY <2>1, <3>1 DEF MovesTo
    <3> QED BY <3>1, <3>2
  <2>3. Attempts
    BY <1>3, <2>1, <2>2 DEF MovesTo
  <2>4. Starts(c) \/ UNCHANGED <<batch, started>>
    BY <1>7 DEF QuietStep, PrefilterHit, StartCall, Ungated, Pass, RetryLater, FailAtOnce, Answered,
                AnsweredNull, AnsweredRetry, AnswerLost, StreamOpens, StreamFinishes,
                StreamBreaksOff, LogCallFails, Rest
  <2>5. batch' \subseteq ToScore /\ started' \in 0 .. MaxCalls
    BY <1>1, <2>4 DEF Starts
  <2>6. UNCHANGED <<ceiling, spendFaults>>
    BY <1>7, QuietKeeps
  <2> QED BY <1>1, <2>3, <2>5, <2>6 DEF SpendBounds
<1>8. ASSUME NEW c \in Callers, ReadSpend(c) \/ CheckAlert(c) \/ SendAlert(c) \/ AlertFails(c)
      PROVE  SpendBounds'
  <2>1. call'[c].attempt = call[c].attempt /\ \A d \in Callers : d # c => call'[d] = call[d]
    BY <1>1, <1>8 DEF ReadSpend, CheckAlert, SendAlert, AlertFails, Goes, Calls
  <2>2. Attempts
    BY <1>5, <2>1
  <2> QED BY <1>1, <1>8, <2>2 DEF ReadSpend, CheckAlert, SendAlert, AlertFails, SpendBounds, Money, Rest
<1>9. ASSUME NEW c \in Callers, Refuse(c) \/ LogCall(c) \/ LogGuess(c)
      PROVE  SpendBounds'
  <2>1. Attempts
    BY <1>2, <1>3, <1>9 DEF Refuse, LogCall, LogGuess, Ends
  <2> QED BY <1>1, <1>9, <2>1 DEF Refuse, LogCall, LogGuess, SpendBounds, Money, Rest
<1>10. CASE MonthEnds
  BY <1>1, <1>4, <1>10 DEF MonthEnds, SpendBounds, Money
<1>11. CASE \E p \in Processes : Restart(p)
  <2>1. PICK p \in Processes : Restart(p)
    BY <1>11
  <2>2. Attempts
    BY <1>1, <1>2, <2>1 DEF Restart
  <2> QED BY <1>1, <2>1, <2>2 DEF Restart, SpendBounds, Money
<1>12. CASE \E postings \in Batches : BeginBatch(postings)
  BY <1>1, <1>4, <1>12, SpendAssumption DEF BeginBatch, SpendBounds, Money
<1> QED
  BY <1>6, <1>7, <1>8, <1>9, <1>10, <1>11, <1>12 DEF SpendNext, QuietStep

\* Nobody has begun.
LEMMA SpendInitIsBounded == SpendInit => SpendBounds
BY SpendAssumption DEF SpendInit, SpendBounds, NoCall, DEFAULT_MAX_ATTEMPTS

\* Sums, alerts and attempts keep their types, for any callers, prices and faults:
\* no call is tried more than three times (llm/openrouter.py:318-371).
THEOREM SpendTypeCorrect == SpendSpec => []SpendTypeOK
<1>1. SpendInit => SpendInv /\ SpendBounds
  BY SpendInitKeeps, SpendInitIsBounded
<1>2. SpendInv /\ SpendBounds /\ [SpendNext]_spendVars => (SpendInv /\ SpendBounds)'
  BY SpendNextKeeps, SpendNextIsBounded
<1>3. SpendInv /\ SpendBounds => SpendTypeOK
  BY SpendIsTyped
<1> QED BY <1>1, <1>2, <1>3, PTL DEF SpendSpec

(***************************************************************************)
(* The board's views.  A filter that was removed stays removed.            *)
(***************************************************************************)

(* The stored view holds only filters asked for since they were last removed.   *)
(* While a rows request is under way it is the only one, carries such filters,   *)
(* and will replace the stored view, if there is one to replace.                 *)
AskedFor == /\ pending = {} => stored \subseteq wanted
            /\ \A f, g \in pending : f = g
            /\ \A f \in pending : f \subseteq wanted /\ (stored = {} \/ Serialize(f) # {})

ViewInv == viewFaults = {} => AskedFor

\* Every action preserves the invariant.
LEMMA NextAsksFor ==
  ASSUME ViewInv, [ViewNext]_viewVars
  PROVE  ViewInv'
<1> SUFFICES ASSUME viewFaults = {}, AskedFor
             PROVE  AskedFor'
  BY DEF ViewNext, viewVars, ViewInv, OpenBare, OpenFlash, OpenUrl, SortLink, ResetView,
         ApplyFilter, ClearInput, ResetFilter, AnswerRows, SendRows
<1>1. CASE UNCHANGED viewVars
  BY <1>1 DEF viewVars, AskedFor, Serialize
<1>2. ASSUME NEW w \in Viewers[tab], OpenBare(w) \/ OpenFlash(w)
      PROVE  AskedFor'
  BY <1>2 DEF OpenBare, OpenFlash, AskedFor, SaveView, Serialize, NothingPending
<1>3. ASSUME NEW w \in Viewers[tab], OpenUrl(w) \/ SortLink(w) \/ ResetView(w)
      PROVE  AskedFor'
  <2>1. CASE ResetView(w)
    BY <1>3, <2>1 DEF ResetView, AskedFor, NothingPending
  <2>2. ASSUME NEW f, SaveView(f), wanted' = wanted \cup f, pending = {}, pending' = pending
        PROVE  AskedFor'
    BY <2>2 DEF AskedFor, SaveView, Serialize
  <2>3. CASE OpenUrl(w) \/ SortLink(w)
    BY <2>2, <2>3 DEF OpenUrl, SortLink, NothingPending
  <2> QED BY <1>3, <2>1, <2>3
<1>4. ASSUME NEW w \in Viewers[tab], NEW n \in FilterNames, ApplyFilter(w, n) \/ ClearInput(w, n)
      PROVE  AskedFor'
  <2>1. ASSUME NEW gone, NEW f, SendRows(w, gone, f)
        PROVE  AskedFor'
    BY <2>1 DEF SendRows, AskedFor, NothingPending, Serialize
  <2> QED BY <1>4, <2>1 DEF ApplyFilter, ClearInput
<1>5. ASSUME NEW w \in Viewers[tab], NEW n \in FilterNames, ResetFilter(w, n)
      PROVE  AskedFor'
  BY <1>5 DEF ResetFilter, AskedFor, Serialize, NothingPending
<1>6. ASSUME NEW f \in pending, AnswerRows(f)
      PROVE  AskedFor'
  <2>1. pending' = {} /\ wanted' = wanted /\ f \subseteq wanted
        /\ (stored = {} \/ Serialize(f) # {})
    BY <1>6 DEF AnswerRows, AskedFor
  <2> QED BY <1>6, <2>1 DEF AnswerRows, AskedFor, SaveView, Serialize
<1> QED
  BY <1>1, <1>2, <1>3, <1>4, <1>5, <1>6 DEF ViewNext

\* Once every rows request is answered, the stored view applies no filter that was
\* removed and not asked for since, for any tabs and windows; late answers and a last
\* filter cleared in its input are left out (web/routes/board.py:48-80, view_prefs.py).
THEOREM RemovedFiltersStayRemoved == ViewSpec => []NothingHiddenUnasked
<1>1. ViewInit => ViewInv
  BY DEF ViewInit, ViewInv, AskedFor
<1>2. ViewInv /\ [ViewNext]_viewVars => ViewInv'
  BY NextAsksFor
<1>3. ViewInv => NothingHiddenUnasked
  BY DEF ViewInv, AskedFor, NothingHiddenUnasked
<1> QED BY <1>1, <1>2, <1>3, PTL DEF ViewSpec

\* Every posting is in the bare view of a tab: the rejected tab has what the archive
\* leaves out (web/routes/board.py:675-711, 874-892).
LEMMA PostingsAreListed == EveryPostingIsListed
<1> SUFFICES ASSUME NEW p \in Postings
             PROVE  \E t \in Tabs : p \in TabRows(t, {})
  BY DEF EveryPostingIsListed
<1>1. p.stage = "rejected" => p \in TabRows("rejected", {})
  BY DEF TabRows, TabBase, RejectedBase, ClosedStages, Clauses, DefaultScore, DefaultExclude
<1>2. p.stage # "rejected" => p \in TabRows("archive", {})
  BY DEF TabRows, TabBase, Clauses, DefaultScore, DefaultExclude
<1> QED BY <1>1, <1>2 DEF Tabs

-----------------------------------------------------------------------------
\* A page in a window, typed by its three fields.
Page == [open : BOOLEAN, chips : SUBSET FilterNames, inputs : SUBSET FilterNames]

ViewShapes ==
  /\ tab \in Tabs /\ viewFaults \subseteq AllViewFaults
  /\ stored \in SUBSET (FilterNames \ {"default_cols"}) /\ wanted \in SUBSET FilterNames
  /\ view \in [Viewers[tab] -> Page] /\ pending \subseteq SUBSET FilterNames

\* Every action keeps the types.
LEMMA ViewNextIsTyped ==
  ASSUME ViewTypeOK, [ViewNext]_viewVars
  PROVE  ViewTypeOK'
<1>1. ViewShapes
  BY DEF ViewTypeOK, ViewShapes, Page
<1>2. ViewShapes' => ViewTypeOK'
  BY DEF ViewTypeOK, ViewShapes, Page
<1>0. tab' = tab => FilterNames' = FilterNames /\ Page' = Page
  BY DEF FilterNames, Page
<1>3. {"title", "cols", "sort"} \subseteq FilterNames
  BY DEF FilterNames
<1>4. ASSUME NEW f \in SUBSET FilterNames, SaveView(f)
      PROVE  stored' \in SUBSET (FilterNames \ {"default_cols"})
  BY <1>1, <1>4 DEF SaveView, Serialize, ViewShapes
<1>5. ASSUME NEW w \in Viewers[tab], NEW f \in SUBSET FilterNames, Shows(w, f)
      PROVE  view' \in [Viewers[tab] -> Page]
  <2>1. [open |-> TRUE, chips |-> f, inputs |-> Inputs(f)] \in Page
    BY DEF Inputs, Page
  <2> QED BY <1>1, <1>5, <2>1 DEF Shows, ViewShapes
<1>6. ASSUME NEW w \in Viewers[tab], NEW gone, NEW f \in SUBSET FilterNames, SendRows(w, gone, f)
      PROVE  /\ view' \in [Viewers[tab] -> Page] /\ wanted' \in SUBSET FilterNames
             /\ pending' \subseteq SUBSET FilterNames
  <2>1. [view[w] EXCEPT !.inputs = f] \in Page
    BY <1>1 DEF Page, ViewShapes
  <2> QED BY <1>0, <1>1, <1>6, <2>1 DEF SendRows, ViewShapes
<1>7. ASSUME NEW w \in Viewers[tab]
      PROVE  view[w].chips \in SUBSET FilterNames /\ view[w].inputs \in SUBSET FilterNames
  BY <1>1, <1>7 DEF Page, ViewShapes
<1>8. ASSUME UNCHANGED viewVars PROVE ViewShapes'
  BY <1>0, <1>1, <1>8 DEF viewVars, ViewShapes
<1>9. ASSUME NEW w \in Viewers[tab], OpenBare(w) \/ OpenFlash(w) \/ ResetView(w)
      PROVE  ViewShapes'
  BY <1>0, <1>1, <1>4, <1>5, <1>9 DEF OpenBare, OpenFlash, ResetView, ViewShapes
<1>10. ASSUME NEW w \in Viewers[tab], OpenUrl(w) \/ SortLink(w)
       PROVE  ViewShapes'
  <2>1. \E f \in SUBSET FilterNames : /\ Shows(w, f) /\ SaveView(f) /\ wanted' = wanted \cup f
                                     /\ UNCHANGED <<tab, pending, viewFaults>>
    BY <1>3, <1>7, <1>10 DEF OpenUrl, SortLink
  <2> QED BY <1>0, <1>1, <1>4, <1>5, <2>1 DEF ViewShapes
<1>11. ASSUME NEW w \in Viewers[tab], NEW n \in FilterNames, ApplyFilter(w, n) \/ ClearInput(w, n)
       PROVE  ViewShapes'
  <2>1. \E gone : \E f \in SUBSET FilterNames : SendRows(w, gone, f)
    BY <1>7, <1>11 DEF ApplyFilter, ClearInput
  <2> QED BY <1>0, <1>1, <1>6, <2>1 DEF SendRows, ViewShapes
<1>12. ASSUME NEW w \in Viewers[tab], NEW n \in FilterNames, ResetFilter(w, n)
       PROVE  ViewShapes'
  <2>1. Serialize(stored \ {n}) \in SUBSET (FilterNames \ {"default_cols"})
    BY <1>1 DEF Serialize, ViewShapes
  <2> QED BY <1>0, <1>1, <1>5, <1>12, <2>1 DEF ResetFilter, ViewShapes
<1>13. ASSUME NEW f \in pending, AnswerRows(f)
       PROVE  ViewShapes'
  <2>1. f \in SUBSET FilterNames
    BY <1>1 DEF ViewShapes
  <2> QED BY <1>0, <1>1, <1>4, <1>13, <2>1 DEF AnswerRows, ViewShapes
<1> QED BY <1>2, <1>8, <1>9, <1>10, <1>11, <1>12, <1>13 DEF ViewNext

\* Windows are closed at first.
LEMMA ViewInitIsTyped == ViewInit => ViewTypeOK
BY ViewAssumption DEF ViewInit, ViewTypeOK

\* Stored views and pages keep their types, for any windows
\* (web/routes/board.py:60-140).
THEOREM ViewTypeCorrect == ViewSpec => []ViewTypeOK
<1>1. ViewTypeOK /\ [ViewNext]_viewVars => ViewTypeOK'
  BY ViewNextIsTyped
<1> QED BY <1>1, ViewInitIsTyped, PTL DEF ViewSpec

(***************************************************************************)
(* The settings.  What the operator was told is in place is what is read.  *)
(***************************************************************************)

\* A window, an exclusion, each typed by its fields.
Editor == [page : {"closed", "form", "raw"}, shown : SUBSET Entries[setting]]
Exclusion == [pc : {"idle", "write"}, entry : Entries[setting] \cup {"seed"},
              read : SUBSET Entries[setting]]

(* Only the raw editor garbles a file, and only the two settings that have them *)
(* see exclusions.                                                              *)
SettingShapes ==
  /\ SettingTypeOK
  /\ setting \notin Raw => onDisk # Garbled /\ asked # Garbled
  /\ \A k \in Clicks : click[k].pc = "write" => setting \in Excludable
  /\ \A w \in Windows : window[w].page = "raw" => setting \in Raw

\* What a window submits is entries of the setting, rounded or not.
LEMMA EditsAreEntries ==
  ASSUME setting \in DOMAIN Entries, NEW c \in SUBSET Entries[setting]
  PROVE  Edits(c) \subseteq SUBSET Entries[setting]
BY DEF Edits

\* The ceiling is rounded to an entry.
LEMMA WrittenIsEntries ==
  ASSUME setting \in DOMAIN Entries, NEW c \in SUBSET Entries[setting]
  PROVE  AsWritten(c) \in SUBSET Entries[setting]
<1>1. "0" \in Entries["spend_ceiling"]
  BY DEF Entries
<1> QED BY <1>1 DEF AsWritten, WriteCeiling

\* The text of a file is its entries.
LEMMA TextIsEntries ==
  ASSUME NEW c \in FileContents
  PROVE  Text(c) \in SUBSET Entries[setting]
BY DEF FileContents, Text

\* What a loader returns is one of the readings.
LEMMA LoadsAreReadings ==
  ASSUME setting \in DOMAIN Entries, NEW c \in FileContents
  PROVE  Load(c) \in Readings
<1> DEFINE Plain == SUBSET (Entries[setting] \cup {"shortened"})
<1>1. c \in {NoFile, Garbled} \cup SUBSET Entries[setting]
  BY DEF FileContents
<1>2. /\ Plain \subseteq Readings /\ DefaultReasons \in Readings /\ DefaultSources \in Readings
      /\ Failure \in Readings /\ c \in Readings /\ {} \in Readings /\ Text(c) \in Readings
  <2>1. Plain \subseteq Readings /\ DefaultReasons \in Readings /\ DefaultSources \in Readings
    BY DEF Readings
  <2>2. Failure \in Readings /\ c \in Readings
    BY DEF Readings
  <2>3. {} \in Plain /\ \A d \in SUBSET Entries[setting] : d \in Plain
    OBVIOUS
  <2>4. {} \in Readings /\ \A d \in SUBSET Entries[setting] : d \in Readings
    BY <2>1, <2>3
  <2>5. Text(c) \in Readings
    BY <1>1, <2>4 DEF Text
  <2> QED BY <2>1, <2>2, <2>4, <2>5
<1>3. LoadReasons(c) \in Readings
  <2>1. c \notin {NoFile, Garbled} => (c \ {"cut"}) \cup (IF "cut" \in c THEN {"shortened"} ELSE {}) \in Plain
    BY <1>1
  <2> QED BY <1>1, <1>2, <2>1 DEF LoadReasons
<1>4. CompilePatterns(c) \in Readings /\ LoadHardRejectRules(c) \in Readings
  BY <1>2 DEF CompilePatterns, LoadHardRejectRules
<1>5. LoadCeiling(c) \in Readings
  BY <1>2 DEF LoadCeiling
<1>6. ReadActiveSources(c) \in Readings
  BY <1>2 DEF ReadActiveSources
<1>7. ReadTimezone(c) \in Readings
  BY <1>2 DEF ReadTimezone
<1> HIDE DEF Plain
<1>8. setting \in {"reject_reasons", "excluded_employers", "prefilter_rules", "profile",
                   "spend_ceiling", "active_sources", "timezone"}
  BY DEF Entries
<1> QED
  BY <1>2, <1>3, <1>4, <1>5, <1>6, <1>7, <1>8
     DEF Load, LoadExcludedEmployers

\* Every action keeps the types.
LEMMA SettingNextIsTyped ==
  ASSUME SettingShapes, [SettingNext]_settingVars
  PROVE  SettingShapes'
<1> DEFINE Sees(r) == /\ {r.on, r.brought, r.scanned} \subseteq BOOLEAN /\ r.cache \in Readings /\ r.used \in Readings
                      /\ r.open \subseteq FileContents
           Clicked == /\ click' \in [Clicks -> Exclusion]
                      /\ \A k \in Clicks : click'[k].pc = "write" => setting \in Excludable
           Opened == /\ window' \in [Windows -> Editor]
                     /\ \A w \in Windows : window'[w].page = "raw" => setting \in Raw
           Kept == /\ setting' = setting
                   /\ onDisk' \in FileContents /\ asked' \in FileContents /\ recorded' \in FileContents
                   /\ Opened /\ Clicked /\ Sees(reader')
                   /\ settingFaults' = settingFaults
                   /\ setting \notin Raw => onDisk' # Garbled /\ asked' # Garbled
<1>1. /\ setting \in DOMAIN Entries
      /\ onDisk \in FileContents /\ asked \in FileContents /\ recorded \in FileContents
      /\ window \in [Windows -> Editor] /\ click \in [Clicks -> Exclusion] /\ Sees(reader)
      /\ settingFaults \subseteq {"together"}
      /\ setting \notin Raw => onDisk # Garbled /\ asked # Garbled
      /\ \A k \in Clicks : click[k].pc = "write" => setting \in Excludable
      /\ \A w \in Windows : window[w].page = "raw" => setting \in Raw
  BY DEF SettingShapes, SettingTypeOK, Editor, Exclusion
<1>2. setting' = setting => /\ FileContents' = FileContents /\ Readings' = Readings
                            /\ Editor' = Editor /\ Exclusion' = Exclusion
  BY DEF FileContents, Readings, Editor, Exclusion
<1>3. Kept => SettingShapes'
  BY <1>1, <1>2 DEF SettingShapes, SettingTypeOK, Editor, Exclusion
<1>4. ASSUME UNCHANGED click
      PROVE  Clicked
  BY <1>1, <1>4
<1>5. ASSUME NEW c \in FileContents, Open(c)
      PROVE  Sees(reader')
  <2>1. reader' = [reader EXCEPT !.open = IF reader.on THEN reader.open \cup {c} ELSE reader.open]
    BY <1>5 DEF Open
  <2>2. (IF reader.on THEN reader.open \cup {c} ELSE reader.open) \subseteq FileContents
    BY <1>1
  <2> QED BY <1>1, <2>1, <2>2
<1>6. ASSUME NEW w \in Windows, NEW page \in {"closed", "form", "raw"}, NEW s \in SUBSET Entries[setting],
             page = "raw" => setting \in Raw,
             window' = [window EXCEPT ![w] = [page |-> page, shown |-> s]]
      PROVE  Opened
  <2>1. [page |-> page, shown |-> s] \in Editor
    BY DEF Editor
  <2> QED BY <1>1, <1>6, <2>1
<1>7. ASSUME NEW w \in Windows, window' = [window EXCEPT ![w].page = "closed", ![w].shown = {}]
      PROVE  Opened
  BY <1>1, <1>7 DEF Editor
<1>8. ASSUME NEW w \in Windows
      PROVE  window[w].shown \in SUBSET Entries[setting]
  BY <1>1, <1>8 DEF Editor
<1>9. \A c \in SUBSET Entries[setting] : c \in FileContents /\ c # Garbled /\ c # NoFile
  BY <1>1, SettingAssumption DEF FileContents
<1>10. ASSUME NEW c \in FileContents, Record(c)
       PROVE  recorded' \in FileContents
  BY <1>1, <1>10 DEF Record
<1>23. UNCHANGED window => Opened
  BY <1>1
<1> HIDE DEF Sees, Clicked, Opened
<1>11. ASSUME NEW w \in Windows, OpenForm(w)
       PROVE  SettingShapes'
  <2>1. Shown \in SUBSET Entries[setting]
    <3>1. Text(onDisk) \in SUBSET Entries[setting]
      BY <1>1, TextIsEntries
    <3>2. setting = "active_sources" =>
            (IF onDisk = NoFile THEN DefaultSources ELSE Load(onDisk)) \in SUBSET Entries[setting]
      BY <1>1 DEF Raw, FileContents, Load, ReadActiveSources, DefaultSources, Entries
    <3> QED BY <3>1, <3>2 DEF Shown
  <2>2. Opened
    BY <1>6, <1>11, <2>1 DEF OpenForm
  <2> QED BY <1>1, <1>3, <1>4, <1>11, <2>2 DEF OpenForm
<1>12. ASSUME NEW w \in Windows, OpenRaw(w)
       PROVE  SettingShapes'
  <2>1. Text(onDisk) \in SUBSET Entries[setting]
    BY <1>1, TextIsEntries
  <2>2. Opened
    BY <1>6, <1>12, <2>1 DEF OpenRaw
  <2> QED BY <1>1, <1>3, <1>4, <1>12, <2>2 DEF OpenRaw
<1>13. ASSUME NEW w \in Windows, SubmitForm(w)
       PROVE  SettingShapes'
  <2>1. PICK c \in Edits(window[w].shown) :
          /\ window' = [window EXCEPT ![w].page = "closed", ![w].shown = {}]
          /\ IF Accepts(c) THEN onDisk' = AsWritten(c) /\ asked' = c /\ Open(c)
             ELSE UNCHANGED <<onDisk, asked, reader>>
          /\ UNCHANGED <<setting, click, recorded, settingFaults>>
    BY <1>13 DEF SubmitForm
  <2>2. c \in SUBSET Entries[setting] /\ AsWritten(c) \in SUBSET Entries[setting]
    BY <1>1, <1>8, <2>1, EditsAreEntries, WrittenIsEntries
  <2> QED BY <1>1, <1>3, <1>4, <1>5, <1>7, <1>9, <2>1, <2>2
<1>14. ASSUME NEW w \in Windows, SaveRaw(w)
       PROVE  SettingShapes'
  <2>1. PICK c \in Edits(window[w].shown) \cup {Garbled} :
          /\ window[w].page = "raw"
          /\ window' = [window EXCEPT ![w].page = "closed", ![w].shown = {}]
          /\ onDisk' = c /\ asked' = c /\ Open(c) /\ Record(c)
          /\ UNCHANGED <<setting, click, settingFaults>>
    BY <1>14 DEF SaveRaw
  <2>2. c \in FileContents
    BY <1>1, <1>8, <1>9, <2>1, EditsAreEntries DEF FileContents
  <2> QED BY <1>1, <1>3, <1>4, <1>5, <1>7, <1>10, <2>1, <2>2
<1>15. CASE OnboardingStep
  <2>1. PICK e \in Entries[setting] :
          /\ onDisk' = AsWritten({e}) /\ asked' = {e} /\ Open({e})
          /\ UNCHANGED <<setting, window, click, recorded, settingFaults>>
    BY <1>15 DEF OnboardingStep
  <2>2. {e} \in SUBSET Entries[setting] /\ AsWritten({e}) \in SUBSET Entries[setting]
    BY <1>1, WrittenIsEntries
  <2> QED BY <1>1, <1>3, <1>23, <1>4, <1>5, <1>9, <2>1, <2>2
<1>16. ASSUME NEW k \in Clicks, ExcludeRead(k)
       PROVE  SettingShapes'
  <2>1. PICK e \in Entries[setting] :
          /\ setting \in Excludable
          /\ click' = [click EXCEPT ![k] = [pc |-> "write", entry |-> e, read |-> Text(onDisk)]]
    BY <1>16 DEF ExcludeRead
  <2>2. [pc |-> "write", entry |-> e, read |-> Text(onDisk)] \in Exclusion
    BY <1>1, TextIsEntries DEF Exclusion
  <2>3. Clicked
    BY <1>1, <2>1, <2>2 DEF Clicked
  <2> QED BY <1>1, <1>3, <1>23, <1>16, <2>3 DEF ExcludeRead
<1>17. ASSUME NEW k \in Clicks, ExcludeWrite(k)
       PROVE  SettingShapes'
  <2>1. setting \in Excludable /\ click[k].entry \in Entries[setting] /\ click[k].read \in SUBSET Entries[setting]
    BY <1>1, <1>17 DEF ExcludeWrite, Exclusion, Excludable, Entries
  <2>2. /\ Emitted(click[k].read \cup {click[k].entry}) \in SUBSET Entries[setting]
        /\ Text(asked) \cup {click[k].entry} \in SUBSET Entries[setting]
    <3>1. "vacant" \in Entries[setting] => "null" \in Entries[setting]
      BY <2>1 DEF Excludable, Entries
    <3> QED BY <1>1, <2>1, <3>1, TextIsEntries DEF Emitted
  <2>3. IdleClick \in Exclusion /\ IdleClick.pc = "idle"
    BY DEF IdleClick, Exclusion
  <2>4. Clicked
    BY <1>1, <1>17, <2>3 DEF ExcludeWrite, Clicked
  <2>5. Sees(reader')
    BY <1>5, <1>9, <1>17, <2>2 DEF ExcludeWrite
  <2> QED BY <1>1, <1>3, <1>23, <1>9, <1>17, <2>2, <2>4, <2>5 DEF ExcludeWrite
<1>18. NoFile \in Readings
  BY DEF Readings, FileContents
<1>19. CASE StartRun
  <2>1. Load(onDisk) \in Readings
    BY <1>1, LoadsAreReadings
  <2>2. Sees(reader')
    BY <1>1, <1>18, <1>19, <2>1 DEF StartRun, Sees
  <2> QED BY <1>1, <1>3, <1>23, <1>4, <1>10, <1>19, <2>2 DEF StartRun
<1>20. CASE ApplySetting
  <2> DEFINE matcher == IF reader.cache # NoFile THEN reader.cache ELSE Load(onDisk)
             kept == IF setting = "prefilter_rules" /\ matcher # Failure THEN matcher ELSE reader.cache
  <2>1. matcher \in Readings
    BY <1>1, LoadsAreReadings DEF Sees
  <2>2. kept \in Readings
    BY <1>1, <2>1 DEF Sees
  <2>3. reader' = [[reader EXCEPT !.used = matcher] EXCEPT !.cache = kept]
    BY <1>20 DEF ApplySetting
  <2> HIDE DEF matcher, kept
  <2>4. Sees(reader')
    BY <1>1, <2>1, <2>2, <2>3 DEF Sees
  <2> QED BY <1>1, <1>3, <1>23, <1>4, <1>20, <2>4 DEF ApplySetting
<1>21. CASE EndRun
  <2>1. Sees(reader')
    BY <1>18, <1>21 DEF EndRun, NoReader, Sees
  <2> QED BY <1>1, <1>3, <1>23, <1>4, <1>21, <2>1 DEF EndRun
<1>22. CASE UNCHANGED settingVars
  BY <1>1, <1>3, <1>4, <1>22, <1>23 DEF settingVars
<1> QED
  BY <1>11, <1>12, <1>13, <1>14, <1>15, <1>16, <1>17, <1>19, <1>20, <1>21, <1>22 DEF SettingNext

\* No window is open at first, and nothing is garbled.
LEMMA SettingInitIsTyped == SettingInit => SettingShapes
<1> SUFFICES ASSUME SettingInit PROVE SettingShapes
  OBVIOUS
<1>1. /\ setting \in DOMAIN Entries
      /\ onDisk \in {NoFile} \cup (IF setting \in Excludable THEN {{"seed"}} ELSE {})
      /\ window = [w \in Windows |-> [page |-> "closed", shown |-> {}]]
      /\ click = [k \in Clicks |-> IdleClick]
      /\ reader = NoReader /\ recorded = NoFile /\ asked = onDisk
      /\ settingFaults \in SUBSET (IF setting \in Excludable THEN {"together"} ELSE {})
  BY DEF SettingInit
<1>2. onDisk \in FileContents /\ onDisk # Garbled /\ NoFile \in FileContents /\ NoFile \in Readings
  BY <1>1, SettingAssumption DEF FileContents, Readings, Excludable, Entries
<1>3. window \in [Windows -> Editor] /\ click \in [Clicks -> Exclusion]
  BY <1>1 DEF Editor, Exclusion, IdleClick
<1>4. /\ \A k \in Clicks : click[k].pc = "idle"
      /\ \A w \in Windows : window[w].page = "closed"
  BY <1>1 DEF IdleClick
<1>5. settingFaults \subseteq {"together"}
  BY <1>1
<1> QED
  BY <1>1, <1>2, <1>3, <1>4, <1>5 DEF SettingShapes, SettingTypeOK, NoReader, Editor, Exclusion

\* What is on disk, shown, read and applied is always a content of the setting; only
\* the raw editor can leave a file that does not parse (web/routes/config.py).
THEOREM SettingTypeCorrect == SettingSpec => []SettingTypeOK
<1>1. SettingShapes /\ [SettingNext]_settingVars => SettingShapes'
  BY SettingNextIsTyped
<1>2. SettingShapes => SettingTypeOK
  BY DEF SettingShapes
<1> QED BY <1>1, <1>2, SettingInitIsTyped, PTL DEF SettingSpec

-----------------------------------------------------------------------------
(* The file holds what the operator was told, but for a ceiling rounded to none and *)
(* an empty category that an exclusion has written.                                *)
InPlace ==
  /\ \/ onDisk = asked
     \/ setting = "spend_ceiling" /\ ~Clean(asked)
     \/ setting \in Excludable /\ asked \notin {NoFile, Garbled} /\ "vacant" \in asked
  /\ setting = "reject_reasons" => asked # {}
  /\ setting \in Single => asked \in {NoFile, Garbled} \/ \E e : asked = {e}

(* An exclusion that is to be written is alone, and has read what is there.     *)
OneExclusion ==
  \A k \in Clicks : click[k].pc # "idle" =>
    /\ setting \in Excludable /\ click[k].read = Text(onDisk)
    /\ \A j \in Clicks : click[j].pc # "idle" => j = k

(* A process has seen the content in place now, and applies one that it has seen. *)
SeenSince ==
  /\ IF reader.on THEN asked \in reader.open ELSE reader = NoReader
  /\ (\A c \in reader.open : Clean(c)) =>
       \A used \in {reader.cache, reader.used} \ {NoFile} : used \in {InEffect(c) : c \in reader.open}
  /\ reader.scanned => setting \in Levers
  /\ reader.scanned /\ reader.open = {onDisk} /\ Clean(onDisk) => recorded = onDisk \/ onDisk = NoFile

Reader(alive, brought, scanned, cache, used, open) ==
  [on |-> alive, brought |-> brought, scanned |-> scanned, cache |-> cache, used |-> used, open |-> open]

SettingInv ==
  /\ setting \in DOMAIN Entries
  /\ window = [w \in Windows |-> [page |-> window[w].page, shown |-> window[w].shown]]
  /\ \A w \in Windows : window[w].page = "raw" => setting \in Raw
  /\ click = [k \in Clicks |-> click[k]]
  /\ reader = Reader(reader.on, reader.brought, reader.scanned, reader.cache, reader.used, reader.open)
  /\ "together" \notin settingFaults => InPlace /\ OneExclusion /\ SeenSince

-----------------------------------------------------------------------------
\* No file is another thing than an empty list or a disabled ceiling.
LEMMA NoFileIsNoList == NoFile # {} /\ NoFile # {"disabled"} /\ Garbled # {"disabled"}
<1>1. "spend_ceiling" \in DOMAIN Entries /\ "disabled" \in Entries["spend_ceiling"]
  BY DEF Entries
<1>2. {} \in SUBSET Entries["spend_ceiling"] /\ {"disabled"} \in SUBSET Entries["spend_ceiling"]
  BY <1>1
<1> QED BY <1>1, <1>2, SettingAssumption

\* The loaders return an ordinary content as it was meant.
LEMMA LoadsWhatWasAsked ==
  ASSUME setting \in DOMAIN Entries, InPlace, Clean(asked)
  PROVE  Load(onDisk) = InEffect(asked)
<1>1. onDisk = asked
  BY DEF InPlace, Clean, Ordinary
<1>2. setting \in {"reject_reasons", "excluded_employers", "prefilter_rules", "profile",
                   "spend_ceiling", "active_sources", "timezone"}
  BY DEF Entries
<1>3. CASE asked = NoFile
  BY <1>1, <1>2, <1>3, NoFileIsNoList DEF InEffect
<1>4. CASE asked # NoFile /\ asked \subseteq Ordinary
  <2>1. asked \cap {"typed", "cut", "bad", "flag", "null", "0", "word", "nowhere"} = {} /\ asked # Garbled
    BY <1>4 DEF Clean, Ordinary
  <2>2. CASE setting = "reject_reasons"
    BY <1>1, <1>4, <2>1, <2>2 DEF InPlace, Load, InEffect, LoadReasons
  <2>3. CASE setting \in {"excluded_employers", "prefilter_rules"}
    BY <1>1, <1>4, <2>1, <2>3
       DEF Load, InEffect, LoadExcludedEmployers, LoadHardRejectRules, CompilePatterns
  <2>4. CASE setting = "spend_ceiling"
    <3>1. PICK e : asked = {e}
      BY <1>4, <2>1, <2>4 DEF InPlace, Single
    <3> QED BY <1>1, <1>4, <2>1, <2>4, <3>1 DEF Load, InEffect, LoadCeiling
  <2>5. CASE setting \in {"active_sources", "timezone", "profile"}
    BY <1>1, <1>4, <2>1, <2>5 DEF Load, InEffect, ReadActiveSources, ReadTimezone, Text
  <2> QED BY <1>2, <2>2, <2>3, <2>4, <2>5
<1> QED BY <1>3, <1>4 DEF Clean

-----------------------------------------------------------------------------
\* A content that is put in place is seen by the process under way.
LEMMA ChangeIsSeen ==
  ASSUME SettingInv, InPlace, SeenSince, UNCHANGED setting, InPlace',
         NEW c, asked' = c, Open(c),
         recorded' = recorded \/ (setting \in Levers => recorded' = onDisk' \/ onDisk' = NoFile)
  PROVE  /\ SeenSince'
         /\ reader' = Reader(reader'.on, reader'.brought, reader'.scanned, reader'.cache, reader'.used, reader'.open)
<1>1. /\ reader' = Reader(reader.on, reader.brought, reader.scanned, reader.cache, reader.used,
                        IF reader.on THEN reader.open \cup {c} ELSE reader.open)
      /\ ~reader.on => reader' = reader
  BY DEF Open, SettingInv, Reader
<1>2. /\ reader'.on = reader.on /\ reader'.scanned = reader.scanned
      /\ reader'.brought = reader.brought /\ reader'.cache = reader.cache /\ reader'.used = reader.used
      /\ reader'.open = IF reader.on THEN reader.open \cup {c} ELSE reader.open
  BY <1>1 DEF Reader
<1>3. CASE ~reader.on
  <2>1. reader' = NoReader
    BY <1>1, <1>3 DEF SeenSince
  <2>2. ~reader'.on /\ ~reader'.scanned /\ {reader'.cache, reader'.used} \ {NoFile} = {}
    BY <2>1 DEF NoReader
  <2>3. SeenSince'
    BY <2>1, <2>2 DEF SeenSince, NoReader
  <2> QED BY <2>1, <2>3 DEF NoReader, Reader
<1>4. CASE reader.on
  <2>1. asked \in reader.open /\ reader'.open = reader.open \cup {c}
    BY <1>2, <1>4 DEF SeenSince
  <2>2. ASSUME \A d \in reader'.open : Clean(d)', NEW used \in {reader'.cache, reader'.used} \ {NoFile}
        PROVE  used \in {InEffect(d) : d \in reader'.open}
    <3>1. \A d \in reader.open : Clean(d)
      BY <2>1, <2>2 DEF Clean
    <3>2. used \in {InEffect(d) : d \in reader.open}
      BY <1>2, <2>2, <3>1 DEF SeenSince
    <3> QED BY <2>1, <3>2
  <2>3. {InEffect(d) : d \in reader'.open} = {InEffect(d) : d \in reader.open}'
    BY DEF InEffect, Load, LoadReasons, LoadExcludedEmployers, LoadHardRejectRules, CompilePatterns,
           LoadCeiling, ReadActiveSources, ReadTimezone
  <2>4. ASSUME reader'.scanned, reader'.open = {onDisk'}, Clean(onDisk)'
        PROVE  recorded' = onDisk' \/ onDisk' = NoFile
    <3>1. asked = onDisk' /\ c = onDisk' /\ reader.open = {onDisk'}
      BY <2>1, <2>4
    <3>2. Clean(asked)
      BY <2>4, <3>1 DEF Clean
    <3>3. onDisk = asked /\ Clean(onDisk)
      BY <3>2 DEF InPlace, Clean, Ordinary
    <3>4. reader.scanned /\ setting \in Levers
      BY <1>2, <2>4 DEF SeenSince
    <3> QED BY <2>4, <3>1, <3>3, <3>4 DEF SeenSince
  <2>5. reader'.scanned => setting' \in Levers
    BY <1>2 DEF SeenSince, Levers
  <2> QED BY <1>1, <1>2, <1>4, <2>1, <2>2, <2>3, <2>4, <2>5 DEF SeenSince
<1> QED BY <1>1, <1>2, <1>3, <1>4 DEF Reader

\* A window that is closed, or opened on a page there is.
LEMMA WindowMoves ==
  ASSUME SettingInv, UNCHANGED setting, NEW w \in Windows,
         \/ window' = [window EXCEPT ![w].page = "closed", ![w].shown = {}]
         \/ \E page, shown : window' = [window EXCEPT ![w] = [page |-> page, shown |-> shown]]
                            /\ (page = "raw" => setting \in Raw)
  PROVE  /\ window' = [v \in Windows |-> [page |-> window'[v].page, shown |-> window'[v].shown]]
         /\ \A v \in Windows : window'[v].page = "raw" => setting' \in Raw
<1>1. \E page, shown : window' = [window EXCEPT ![w] = [page |-> page, shown |-> shown]]
                       /\ (page = "raw" => setting \in Raw)
  <2>1. ASSUME window' = [window EXCEPT ![w].page = "closed", ![w].shown = {}]
        PROVE  window' = [window EXCEPT ![w] = [page |-> "closed", shown |-> {}]]
    <3> DEFINE closed == [window EXCEPT ![w].page = "closed"]
               empty == [page |-> "closed", shown |-> {}]
    <3>1. /\ window = [v \in Windows |-> window[v]]
          /\ window[w] = [page |-> window[w].page, shown |-> window[w].shown]
      BY DEF SettingInv
    <3>2. closed = [v \in Windows |-> IF v = w THEN [page |-> "closed", shown |-> window[w].shown] ELSE window[v]]
      BY <3>1
    <3>3. window' = [closed EXCEPT ![w].shown = {}]
      BY <2>1
    <3> HIDE DEF closed
    <3>4. window' = [v \in Windows |-> IF v = w THEN empty ELSE window[v]]
      BY <3>2, <3>3
    <3> HIDE DEF empty
    <3>5. window' = [window EXCEPT ![w] = empty]
      BY <3>1, <3>4
    <3> QED BY <3>5 DEF empty
  <2> QED BY <2>1
<1>2. PICK page, shown : window' = [window EXCEPT ![w] = [page |-> page, shown |-> shown]]
                        /\ (page = "raw" => setting \in Raw)
  BY <1>1
<1> QED BY <1>2 DEF SettingInv

\* So is one that a form, the raw editor or an exclusion has put in place.
LEMMA ChangeKeeps ==
  ASSUME SettingInv, UNCHANGED <<setting, click, settingFaults>>,
         UNCHANGED window \/ \E w \in Windows : window' = [window EXCEPT ![w].page = "closed", ![w].shown = {}],
         \A k \in Clicks : "together" \notin settingFaults => click[k].pc = "idle",
         NEW c, asked' = c, Open(c),
         "together" \notin settingFaults => InPlace',
         recorded' = recorded \/ (setting \in Levers => recorded' = onDisk' \/ onDisk' = NoFile)
  PROVE  SettingInv'
<1>1. reader' = Reader(reader'.on, reader'.brought, reader'.scanned, reader'.cache, reader'.used, reader'.open)
  BY DEF Open, SettingInv, Reader
<1>2. "together" \notin settingFaults => SeenSince'
  BY ChangeIsSeen DEF SettingInv
<1>3. "together" \notin settingFaults => OneExclusion'
  BY DEF OneExclusion
<1>4. /\ window' = [v \in Windows |-> [page |-> window'[v].page, shown |-> window'[v].shown]]
      /\ \A v \in Windows : window'[v].page = "raw" => setting' \in Raw
  BY WindowMoves DEF SettingInv
<1> QED BY <1>1, <1>2, <1>3, <1>4 DEF SettingInv

\* A step that changes neither the file nor the process.
LEMMA PagesKeep ==
  ASSUME SettingInv, UNCHANGED <<setting, onDisk, click, reader, recorded, asked, settingFaults>>,
         \/ UNCHANGED window
         \/ \E w \in Windows : window' = [window EXCEPT ![w].page = "closed", ![w].shown = {}]
         \/ \E w \in Windows : \E page, shown :
              window' = [window EXCEPT ![w] = [page |-> page, shown |-> shown]] /\ (page = "raw" => setting \in Raw)
  PROVE  SettingInv'
<1>1. InPlace' <=> InPlace
  BY DEF InPlace, Clean
<1>2. OneExclusion' <=> OneExclusion
  BY DEF OneExclusion, Text
<1>3. SeenSince' <=> SeenSince
  BY DEF SeenSince, Clean, InEffect, Load, LoadReasons, LoadExcludedEmployers, LoadHardRejectRules,
         CompilePatterns, LoadCeiling, ReadActiveSources, ReadTimezone
<1>4. /\ window' = [v \in Windows |-> [page |-> window'[v].page, shown |-> window'[v].shown]]
      /\ \A v \in Windows : window'[v].page = "raw" => setting' \in Raw
  <2>1. CASE UNCHANGED window
    BY <2>1 DEF SettingInv
  <2>2. ASSUME NEW w \in Windows,
               \/ window' = [window EXCEPT ![w].page = "closed", ![w].shown = {}]
               \/ \E page, shown : window' = [window EXCEPT ![w] = [page |-> page, shown |-> shown]]
                                  /\ (page = "raw" => setting \in Raw)
        PROVE  /\ window' = [v \in Windows |-> [page |-> window'[v].page, shown |-> window'[v].shown]]
               /\ \A v \in Windows : window'[v].page = "raw" => setting' \in Raw
    BY <2>2, WindowMoves
  <2> QED BY <2>1, <2>2
<1> QED BY <1>1, <1>2, <1>3, <1>4 DEF SettingInv

\* A file of one value gets one, and only a ceiling is written otherwise than asked.
LEMMA OneValue ==
  ASSUME setting \in DOMAIN Entries, NEW shown, NEW c \in Edits(shown) \cup {{e} : e \in Entries[setting]},
         setting \in Single \/ c \in Edits(shown)
  PROVE  /\ setting \in Single => \E e : c = {e}
         /\ AsWritten(c) = c \/ (setting = "spend_ceiling" /\ ~Clean(c))
<1>1. setting \in Single => \E e \in Entries[setting] : c = {e}
  BY DEF Edits
<1>2. ASSUME setting = "spend_ceiling", "tiny" \in c
      PROVE  ~Clean(c)
  <2>1. PICK e \in Entries["spend_ceiling"] : c = {e}
    BY <1>1, <1>2 DEF Single
  <2>2. "spend_ceiling" \in DOMAIN Entries /\ c \in SUBSET Entries["spend_ceiling"]
    BY <1>2, <2>1
  <2>3. c # NoFile
    BY <2>2, SettingAssumption
  <2> QED BY <1>2, <2>3 DEF Clean, Ordinary
<1> QED BY <1>1, <1>2 DEF AsWritten, WriteCeiling

\* A form accepts or leaves things as they are.
LEMMA SubmitKeeps ==
  ASSUME SettingInv, NEW w \in Windows, SubmitForm(w) \/ SaveRaw(w)
  PROVE  SettingInv'
<1> setting \in DOMAIN Entries
  BY DEF SettingInv
<1>1. CASE SubmitForm(w)
  <2>1. PICK c \in Edits(window[w].shown) :
          /\ NotClicking /\ UNCHANGED <<setting, click, recorded, settingFaults>>
          /\ window' = [window EXCEPT ![w].page = "closed", ![w].shown = {}]
          /\ IF Accepts(c) THEN onDisk' = AsWritten(c) /\ asked' = c /\ Open(c)
             ELSE UNCHANGED <<onDisk, asked, reader>>
    BY <1>1 DEF SubmitForm
  <2>2. CASE Accepts(c)
    <3>1. /\ setting \in Single => \E e : c = {e}
          /\ AsWritten(c) = c \/ (setting = "spend_ceiling" /\ ~Clean(c))
      BY OneValue
    <3>2. setting = "reject_reasons" => c # {}
      BY <2>2 DEF Accepts, AcceptReasons
    <3>3. asked' = c /\ (onDisk' = c \/ (setting = "spend_ceiling" /\ ~Clean(c)))
      BY <2>1, <2>2, <3>1
    <3>4. InPlace'
      BY <2>1, <3>1, <3>2, <3>3 DEF InPlace, Clean
    <3> QED BY <2>1, <2>2, <3>4, ChangeKeeps DEF NotClicking
  <2>3. CASE ~Accepts(c)
    BY <2>1, <2>3, PagesKeep
  <2> QED BY <2>2, <2>3
<1>2. CASE SaveRaw(w)
  <2>1. PICK c \in Edits(window[w].shown) \cup {Garbled} :
          /\ NotClicking /\ UNCHANGED <<setting, click, settingFaults>> /\ window[w].page = "raw"
          /\ window' = [window EXCEPT ![w].page = "closed", ![w].shown = {}]
          /\ onDisk' = c /\ asked' = c /\ Open(c) /\ Record(c)
    BY <1>2 DEF SaveRaw
  <2>2. setting \in Raw
    BY <2>1 DEF SettingInv
  <2>3. setting \in Single => c = Garbled \/ \E e : c = {e}
    BY OneValue
  <2>4. InPlace'
    BY <2>1, <2>2, <2>3 DEF InPlace, Raw
  <2>5. recorded' = recorded \/ (setting \in Levers => recorded' = onDisk' \/ onDisk' = NoFile)
    BY <2>1 DEF Record
  <2> QED BY <2>1, <2>4, <2>5, ChangeKeeps DEF NotClicking
<1> QED BY <1>1, <1>2

\* So does onboarding, which asks for a ceiling and a zone.
LEMMA OnboardingKeeps ==
  ASSUME SettingInv, OnboardingStep
  PROVE  SettingInv'
<1> setting \in DOMAIN Entries
  BY DEF SettingInv
<1>1. PICK e \in Entries[setting] :
        /\ setting \in Single /\ onDisk' = AsWritten({e}) /\ asked' = {e} /\ Open({e})
        /\ UNCHANGED <<setting, window, click, recorded, settingFaults>>
  BY DEF OnboardingStep
<1>2. AsWritten({e}) = {e} \/ (setting = "spend_ceiling" /\ ~Clean({e}))
  BY <1>1, OneValue
<1>3. InPlace'
  BY <1>1, <1>2 DEF InPlace, Single, Clean
<1>4. \A k \in Clicks : "together" \notin settingFaults => click[k].pc = "idle"
  BY <1>1 DEF SettingInv, OneExclusion, Single, Excludable
<1> QED BY <1>1, <1>3, <1>4, ChangeKeeps

\* An exclusion reads the file when no other is under way.
LEMMA ExcludeReadKeeps ==
  ASSUME SettingInv, NEW k \in Clicks, ExcludeRead(k)
  PROVE  SettingInv'
<1>1. PICK e : /\ setting \in Excludable /\ NotClicking
               /\ click' = [click EXCEPT ![k] = [pc |-> "write", entry |-> e, read |-> Text(onDisk)]]
               /\ UNCHANGED <<setting, onDisk, window, reader, recorded, asked, settingFaults>>
  BY DEF ExcludeRead
<1>2. click = [j \in Clicks |-> click[j]]
  BY DEF SettingInv
<1>3. /\ click' = [j \in Clicks |-> click'[j]]
      /\ click'[k] = [pc |-> "write", entry |-> e, read |-> Text(onDisk)]
      /\ \A j \in Clicks : j # k => click'[j] = click[j]
  BY <1>1, <1>2
<1>4. "together" \notin settingFaults => OneExclusion'
  <2>1. "together" \notin settingFaults => \A j \in Clicks : click[j].pc = "idle"
    BY <1>1 DEF NotClicking
  <2>2. Text(onDisk)' = Text(onDisk)
    BY <1>1 DEF Text
  <2> QED BY <1>1, <1>3, <2>1, <2>2 DEF OneExclusion
<1>5. InPlace' <=> InPlace
  BY <1>1 DEF InPlace, Clean
<1>6. SeenSince' <=> SeenSince
  BY <1>1 DEF SeenSince, Clean, InEffect, Load, LoadReasons, LoadExcludedEmployers, LoadHardRejectRules,
         CompilePatterns, LoadCeiling, ReadActiveSources, ReadTimezone
<1> QED BY <1>1, <1>3, <1>4, <1>5, <1>6 DEF SettingInv

\* What it writes back is what the operator was told: what is there, and its entry.
LEMMA ExcludeWriteKeeps ==
  ASSUME SettingInv, SettingTypeOK, NEW k \in Clicks, ExcludeWrite(k)
  PROVE  SettingInv'
<1>1. PICK told : /\ told = Text(asked) \cup {click[k].entry} /\ click[k].pc = "write"
                  /\ click' = [click EXCEPT ![k] = IdleClick]
                  /\ onDisk' = Emitted(click[k].read \cup {click[k].entry})
                  /\ asked' = told /\ Open(told)
                  /\ UNCHANGED <<setting, window, recorded, settingFaults>>
  BY DEF ExcludeWrite
<1>2. click = [j \in Clicks |-> click[j]] /\ IdleClick.pc = "idle"
  BY DEF SettingInv, IdleClick
<1>3. /\ click' = [j \in Clicks |-> click'[j]] /\ click'[k] = IdleClick
      /\ \A j \in Clicks : j # k => click'[j] = click[j]
  BY <1>1, <1>2
<1>4. reader' = Reader(reader'.on, reader'.brought, reader'.scanned, reader'.cache, reader'.used, reader'.open)
  BY <1>1 DEF Open, SettingInv, Reader
<1>5. ASSUME "together" \notin settingFaults
      PROVE  InPlace' /\ OneExclusion' /\ SeenSince'
  <2>1. InPlace /\ OneExclusion /\ SeenSince
    BY <1>5 DEF SettingInv
  <2>2. setting \in {"prefilter_rules", "profile"} /\ click[k].read = Text(onDisk)
    BY <1>1, <2>1 DEF OneExclusion, Excludable
  <2>3. \/ onDisk = asked
        \/ asked \notin {NoFile, Garbled} /\ "vacant" \in asked
    BY <2>1, <2>2 DEF InPlace
  <2>7. asked' \notin {NoFile, Garbled}
    <3>1. Text(asked) \in SUBSET Entries[setting] /\ click[k].entry \in Entries[setting] /\ setting \in DOMAIN Entries
      <4>1. asked \in FileContents /\ click \in [Clicks -> Exclusion] /\ setting \in DOMAIN Entries
        BY DEF SettingTypeOK, Exclusion
      <4>2. click[k].entry \in Entries[setting]
        BY <2>2, <4>1 DEF Exclusion, Entries
      <4> QED BY <4>1, <4>2, TextIsEntries
    <3> QED BY <1>1, <3>1, SettingAssumption
  <2>8. onDisk' = asked' \/ "vacant" \in asked'
    <3>1. CASE onDisk = asked
      <4>1. click[k].read \cup {click[k].entry} = asked'
        BY <1>1, <2>2, <3>1
      <4> QED BY <1>1, <4>1 DEF Emitted
    <3>2. CASE asked \notin {NoFile, Garbled} /\ "vacant" \in asked
      BY <1>1, <3>2 DEF Text
    <3> QED BY <2>3, <3>1, <3>2
  <2>4. InPlace'
    BY <1>1, <2>2, <2>7, <2>8 DEF InPlace, Single, Excludable
  <2>5. OneExclusion'
    BY <1>1, <1>2, <1>3, <2>1 DEF OneExclusion
  <2>6. SeenSince'
    BY <1>1, <2>1, <2>4, ChangeIsSeen
  <2> QED BY <2>4, <2>5, <2>6
<1>6. /\ window' = [v \in Windows |-> [page |-> window'[v].page, shown |-> window'[v].shown]]
      /\ \A v \in Windows : window'[v].page = "raw" => setting' \in Raw
  BY <1>1 DEF SettingInv
<1> QED BY <1>1, <1>3, <1>4, <1>5, <1>6 DEF SettingInv

-----------------------------------------------------------------------------
\* A process begins with what is in place, applies it, and ends.
LEMMA ReaderKeeps ==
  ASSUME SettingInv, StartRun \/ ApplySetting \/ EndRun
  PROVE  SettingInv'
<1>1. UNCHANGED <<setting, onDisk, window, click, asked, settingFaults>>
  BY DEF StartRun, ApplySetting, EndRun
<1>2. reader = Reader(reader.on, reader.brought, reader.scanned, reader.cache, reader.used, reader.open)
  BY DEF SettingInv
<1>3. (InPlace' <=> InPlace) /\ (OneExclusion' <=> OneExclusion)
  BY <1>1 DEF InPlace, Clean, OneExclusion, Text
<1>4. \A c : InEffect(c)' = InEffect(c) /\ (Clean(c)' <=> Clean(c))
  BY <1>1 DEF Clean, InEffect, Load, LoadReasons, LoadExcludedEmployers, LoadHardRejectRules,
         CompilePatterns, LoadCeiling, ReadActiveSources, ReadTimezone
<1>5. ASSUME NEW running, NEW brought, NEW scanned, NEW cache, NEW used, NEW open,
             reader' = Reader(running, brought, scanned, cache, used, open),
             "together" \notin settingFaults =>
               /\ IF running THEN asked \in open ELSE reader' = NoReader
               /\ scanned => setting \in Levers
               /\ (\A c \in open : Clean(c)) =>
                    \A u \in {cache, used} \ {NoFile} : u \in {InEffect(c) : c \in open}
               /\ scanned /\ open = {onDisk} /\ Clean(onDisk) => recorded' = onDisk \/ onDisk = NoFile
      PROVE  SettingInv'
  <2>1. /\ reader'.on = running /\ reader'.scanned = scanned
        /\ reader'.cache = cache /\ reader'.used = used /\ reader'.open = open
        /\ reader' = Reader(reader'.on, reader'.brought, reader'.scanned, reader'.cache, reader'.used, reader'.open)
    BY <1>5 DEF Reader
  <2>2. {InEffect(c) : c \in reader.open}' = {InEffect(c) : c \in open}
    BY <1>4, <2>1
  <2>3. "together" \notin settingFaults => SeenSince'
    BY <1>1, <1>4, <1>5, <2>1, <2>2 DEF SeenSince, NoReader
  <2> QED BY <1>1, <1>3, <2>1, <2>3 DEF SettingInv
<1>6. ASSUME "together" \notin settingFaults, Clean(asked)
      PROVE  Load(onDisk) = InEffect(asked)
  BY <1>6, LoadsWhatWasAsked DEF SettingInv
<1>7. CASE StartRun
  <2> DEFINE used == IF setting \in {"active_sources", "timezone"} THEN Load(onDisk) ELSE NoFile
  <2>1. PICK brought, scanned \in BOOLEAN :
          /\ reader' = Reader(TRUE, brought, scanned, NoFile, used, {asked})
          /\ scanned => setting \in Levers /\ Record(onDisk)
    BY <1>7 DEF StartRun, Reader
  <2>2. used = NoFile \/ used = Load(onDisk)
    OBVIOUS
  <2> HIDE DEF used
  <2>3. "together" \notin settingFaults /\ Clean(asked) =>
          \A u \in {NoFile, used} \ {NoFile} : u \in {InEffect(c) : c \in {asked}}
    BY <1>6, <2>2
  <2>4. scanned => setting \in Levers /\ (recorded' = onDisk \/ onDisk = NoFile)
    BY <2>1 DEF Record
  <2> QED BY <1>5, <2>1, <2>3, <2>4
<1>8. CASE ApplySetting
  <2> DEFINE matcher == IF reader.cache # NoFile THEN reader.cache ELSE Load(onDisk)
             cache == IF setting = "prefilter_rules" /\ matcher # Failure THEN matcher ELSE reader.cache
  <2>1. /\ reader.on /\ UNCHANGED recorded
        /\ reader' = [reader EXCEPT !.used = matcher, !.cache = cache]
    BY <1>8 DEF ApplySetting
  <2>2. matcher = Load(onDisk) \/ matcher \in {reader.cache} \ {NoFile}
    OBVIOUS
  <2>3. cache = matcher \/ cache = reader.cache
    OBVIOUS
  <2> HIDE DEF matcher, cache
  <2>4. reader' = Reader(reader.on, reader.brought, reader.scanned, cache, matcher, reader.open)
    BY <1>2, <2>1 DEF Reader
  <2>5. ASSUME "together" \notin settingFaults, \A c \in reader.open : Clean(c),
               NEW u \in {cache, matcher} \ {NoFile}
        PROVE  u \in {InEffect(c) : c \in reader.open}
    <3>1. asked \in reader.open
      BY <2>1, <2>5 DEF SettingInv, SeenSince
    <3>2. u = Load(onDisk) \/ u \in {reader.cache} \ {NoFile}
      BY <2>2, <2>3, <2>5
    <3>3. Load(onDisk) = InEffect(asked)
      BY <1>6, <2>5, <3>1
    <3> QED BY <2>5, <3>1, <3>2, <3>3 DEF SettingInv, SeenSince
  <2>6. "together" \notin settingFaults =>
          /\ asked \in reader.open
          /\ reader.scanned => setting \in Levers
          /\ reader.scanned /\ reader.open = {onDisk} /\ Clean(onDisk) => recorded' = onDisk \/ onDisk = NoFile
    BY <2>1 DEF SettingInv, SeenSince
  <2>7. "together" \notin settingFaults =>
          ((\A c \in reader.open : Clean(c)) =>
             \A u \in {cache, matcher} \ {NoFile} : u \in {InEffect(c) : c \in reader.open})
    BY <2>5
  <2>8. "together" \notin settingFaults =>
          /\ IF reader.on THEN asked \in reader.open ELSE reader' = NoReader
          /\ reader.scanned => setting \in Levers
          /\ (\A c \in reader.open : Clean(c)) =>
               \A u \in {cache, matcher} \ {NoFile} : u \in {InEffect(c) : c \in reader.open}
          /\ reader.scanned /\ reader.open = {onDisk} /\ Clean(onDisk) => recorded' = onDisk \/ onDisk = NoFile
    BY <2>1, <2>6, <2>7
  <2> QED BY <1>5, <2>4, <2>8, Zenon
<1>9. CASE EndRun
  <2>1. reader' = NoReader /\ NoReader = Reader(FALSE, FALSE, FALSE, NoFile, NoFile, {})
    BY <1>9 DEF EndRun, NoReader, Reader
  <2> QED BY <1>5, <2>1
<1> QED BY <1>7, <1>8, <1>9

\* Without an exclusion that overlaps another write, a content of ordinary entries that
\* the operator was told is in place is what the loaders return, and a process applies
\* one that was in place since it began (config_loader.py:373, web/routes/settings*.py);
\* the drift scan of a triage that fetched something has recorded it (orchestrator.py:237).
THEOREM SettingsAreRead == SettingSpec => []SettingsTakeEffect
<1>1. SettingInit => SettingInv
  <2>1. SUFFICES ASSUME SettingInit PROVE SettingInv
    OBVIOUS
  <2>2. InPlace
    <3>1. onDisk = asked /\ (setting \notin {"prefilter_rules", "profile"} => asked = NoFile)
      BY <2>1 DEF SettingInit, Excludable
    <3> QED BY <3>1, NoFileIsNoList DEF InPlace, Single
  <2>3. /\ window = [w \in Windows |-> [page |-> "closed", shown |-> {}]]
        /\ click = [k \in Clicks |-> IdleClick] /\ IdleClick.pc = "idle"
        /\ reader = NoReader /\ setting \in DOMAIN Entries
    BY <2>1 DEF SettingInit, IdleClick
  <2>4. OneExclusion
    BY <2>3 DEF OneExclusion
  <2>5. SeenSince
    BY <2>3 DEF SeenSince, NoReader
  <2> QED BY <2>2, <2>3, <2>4, <2>5 DEF SettingInv, NoReader, Reader
<1>2. SettingInv /\ SettingTypeOK /\ [SettingNext]_settingVars => SettingInv'
  <2>1. SUFFICES ASSUME SettingInv, SettingTypeOK, [SettingNext]_settingVars PROVE SettingInv'
    OBVIOUS
  <2>2. CASE UNCHANGED settingVars
    BY <2>1, <2>2, PagesKeep DEF settingVars
  <2>3. ASSUME NEW w \in Windows, OpenForm(w) \/ OpenRaw(w)
        PROVE  SettingInv'
    <3>1. \E page, shown : window' = [window EXCEPT ![w] = [page |-> page, shown |-> shown]]
                           /\ (page = "raw" => setting \in Raw)
      <4>1. CASE OpenForm(w)
        <5>1. /\ window' = [window EXCEPT ![w] = [page |-> "form", shown |-> Shown]]
              /\ "form" = "raw" => setting \in Raw
          BY <4>1 DEF OpenForm
        <5> QED BY <5>1, Zenon
      <4>2. CASE OpenRaw(w)
        BY <4>2 DEF OpenRaw
      <4> QED BY <2>3, <4>1, <4>2
    <3>2. UNCHANGED <<setting, onDisk, click, reader, recorded, asked, settingFaults>>
      BY <2>3 DEF OpenForm, OpenRaw
    <3> QED BY <2>1, <3>1, <3>2, PagesKeep
  <2>4. ASSUME NEW w \in Windows, SubmitForm(w) \/ SaveRaw(w)
        PROVE  SettingInv'
    BY <2>1, <2>4, SubmitKeeps
  <2>5. CASE OnboardingStep
    BY <2>1, <2>5, OnboardingKeeps
  <2>6. ASSUME NEW k \in Clicks, ExcludeRead(k) \/ ExcludeWrite(k)
        PROVE  SettingInv'
    BY <2>1, <2>6, ExcludeReadKeeps, ExcludeWriteKeeps
  <2>7. CASE StartRun \/ ApplySetting \/ EndRun
    BY <2>1, <2>7, ReaderKeeps
  <2> QED BY <2>1, <2>2, <2>3, <2>4, <2>5, <2>6, <2>7 DEF SettingNext
<1>3. SettingInv => SettingsTakeEffect
  <2>1. SUFFICES ASSUME SettingInv, "together" \notin settingFaults
                 PROVE  /\ Clean(asked) => Load(onDisk) = InEffect(asked)
                        /\ reader.used # NoFile /\ (\A c \in reader.open : Clean(c))
                             => reader.used \in {InEffect(c) : c \in reader.open}
                        /\ reader.scanned /\ reader.open = {onDisk} /\ Clean(onDisk)
                             => recorded = onDisk \/ onDisk = NoFile
    BY DEF SettingsTakeEffect
  <2> QED BY <2>1, LoadsWhatWasAsked DEF SettingInv, SeenSince
<1> QED BY <1>1, <1>2, <1>3, SettingTypeCorrect, PTL DEF SettingSpec

(***************************************************************************)
(* The mailbox scans.  No mail is left behind a checkpoint, whichever of   *)
(* the three writers saves last.                                           *)
(***************************************************************************)

\* the circumstances under which each checkpoint is trusted
ScanCalm == mailFaults \subseteq {"kill", "offline", "login_test", "disconnect"}
FetchCalm == mailFaults \subseteq {"offline", "login_test", "disconnect"}

\* the records of checkpoints that may be saved again
Copies == {mailState, fetcher.saw, detector.saw, loginTest.saw}

\* the alerts that have left the mailbox for good
Taken == ingested \cup (IF fetcher.pc = "ingest" THEN fetcher.got ELSE {})

\* a checkpoint that leaves no rejection, or no alert, behind
JudgedTo(n) == n <= box.top /\ \A u \in Present : u <= n /\ ~box.alert[u] => u \in judged
TakenTo(n) == n <= box.top /\ \A u \in Present : u <= n /\ box.alert[u] => u \in Taken

(* A scan that has searched for a sender holds that sender's rejections or finds *)
(* them judged; what arrives after the searches is above its mark.              *)
ScanHolds ==
  /\ detector.mode # "oneshot"
  /\ detector.pc # "idle" => detector.upto <= box.top
  /\ detector.pc = "second" =>
       \A u \in Present : ~box.alert[u] /\ box.sender[u] = "first" => u \in judged \cup detector.todo
  /\ detector.pc = "judge" =>
       \A u \in Present : ~box.alert[u] /\ u <= detector.upto => u \in judged \cup detector.todo

\* So does a fetch, whose mark is the highest uid it holds.
FetchHolds ==
  /\ fetcher.got \subseteq Present
  /\ fetcher.pc = "second" =>
       \A u \in Present : box.alert[u] /\ box.sender[u] = "first" => u \in ingested \cup fetcher.got
  /\ fetcher.pc = "save" =>
       \A u \in Present : box.alert[u] /\ u <= Highest(fetcher.saw.lastUid, fetcher.got)
                          => u \in ingested \cup fetcher.got

ScanInv == ScanHolds /\ \A s \in Copies : JudgedTo(s.rejUid)
FetchInv == FetchHolds /\ \A s \in Copies : TakenTo(s.lastUid)

MailInv == MailTypeOK /\ (ScanCalm => ScanInv) /\ (FetchCalm => FetchInv)

-----------------------------------------------------------------------------
\* The highest of some uids is one of them.
LEMMA HighestOf ==
  ASSUME NEW start \in 0..MaxUid, NEW uids \in SUBSET Uids
  PROVE  /\ Highest(start, uids) \in {start} \cup uids /\ Highest(start, uids) \in 0..MaxUid
         /\ start <= Highest(start, uids) /\ \A u \in uids : u <= Highest(start, uids)
<1> DEFINE all == {start} \cup uids
<1>1. MaxUid \in Nat
  BY MailAssumption
<1>2. all \in SUBSET Nat /\ all # {} /\ all \subseteq 0..MaxUid /\ \A x \in all : x <= MaxUid
  BY <1>1 DEF Uids
<1> HIDE DEF all
<1>3. PICK most \in all : \A y \in all : y <= most
  BY <1>1, <1>2, LargestOf
<1>4. \A y \in all : most >= y
  BY <1>2, <1>3
<1>5. Max(all) \in all /\ \A y \in all : Max(all) >= y
  BY <1>3, <1>4, Zenon DEF Max
<1>6. Max(all) \in 0..MaxUid /\ \A y \in all : y <= Max(all)
  BY <1>1, <1>2, <1>5
<1> QED BY <1>5, <1>6 DEF all, Highest

\* Without a failed FETCH, a search finds all there is.
LEMMA FindsAll ==
  ASSUME "fetch_error" \notin mailFaults, NEW s, NEW range, NEW alert, NEW found \in Found(s, range, alert)
  PROVE  found = {u \in range : box.sender[u] = s /\ box.alert[u] = alert}
BY DEF Found

\* What is found was in the window.
LEMMA FindsSome ==
  ASSUME NEW s, NEW range, NEW alert, NEW found \in Found(s, range, alert)
  PROVE  found \subseteq range
BY DEF Found

\* The windows hold messages that are there, and all above the checkpoint.
LEMMA WindowsHold ==
  ASSUME MailTypeOK
  PROVE  /\ AlertWindow \subseteq Present /\ ScanWindow \subseteq Present /\ Present \subseteq Uids
         /\ \A u \in Present : u > fetcher.saw.lastUid => u \in AlertWindow
         /\ detector.mode # "oneshot" => \A u \in Present : u > detector.saw.rejUid => u \in ScanWindow
<1>1. Present \subseteq Uids
  BY MailAssumption DEF MailTypeOK, Present, Uids
<1>2. /\ AlertWindow \subseteq Present
      /\ \A u \in Present : u > fetcher.saw.lastUid => u \in AlertWindow
  BY DEF AlertWindow, Beyond
<1>3. /\ ScanWindow \subseteq Present
      /\ detector.mode # "oneshot" => \A u \in Present : u > detector.saw.rejUid => u \in ScanWindow
  BY DEF MailTypeOK, ScanWindow, Beyond
<1> QED BY <1>1, <1>2, <1>3

\* A message arrives above the others.
LEMMA ArrivesAbove ==
  ASSUME MailTypeOK, NEW s \in Senders, NEW alert \in BOOLEAN, Arrive(s, alert)
  PROVE  /\ MailTypeOK'
         /\ Present' = Present \cup {box.top + 1} /\ box'.top = box.top + 1 /\ box.top \in Nat
         /\ \A u \in Present : box'.alert[u] = box.alert[u] /\ box'.sender[u] = box.sender[u]
<1> DEFINE new == box.top + 1
           senders == [box.sender EXCEPT ![new] = s]
           alerts == [box.alert EXCEPT ![new] = alert]
<1>1. /\ box \in [validity : 1..(Resets + 1), old : 0..MaxUid, top : 0..MaxUid,
                  sender : [Uids -> Senders], alert : [Uids -> BOOLEAN]]
      /\ MaxUid \in Nat /\ box.top < MaxUid
  BY MailAssumption DEF MailTypeOK, Arrive
<1>2. box.top \in Nat /\ new \in 0..MaxUid /\ new \in Uids
  BY <1>1 DEF Uids
<1>3. box' = [validity |-> box.validity, old |-> box.old, top |-> new, sender |-> senders, alert |-> alerts]
  BY <1>1 DEF Arrive
<1>4. senders \in [Uids -> Senders] /\ alerts \in [Uids -> BOOLEAN]
  BY <1>1
<1>5. \A u \in Present : alerts[u] = box.alert[u] /\ senders[u] = box.sender[u]
  BY <1>1, <1>2 DEF Present, Uids
<1>6. Present' = Present \cup {new}
  BY <1>2, <1>3 DEF Present
<1> HIDE DEF new, senders, alerts
<1>7. MailTypeOK'
  BY <1>1, <1>2, <1>3, <1>4 DEF MailTypeOK, Arrive
<1> QED BY <1>2, <1>3, <1>5, <1>6, <1>7 DEF new

\* What a search of the detector leaves behind.
LEMMA ScanSearches ==
  ASSUME MailTypeOK, NEW s \in Senders, NEW next \in {"second", "judge"}, SearchRejections(s, next)
  PROVE  /\ MailTypeOK' /\ detector'.pc = next /\ detector'.saw = detector.saw
         /\ detector'.mode = detector.mode
         /\ detector.todo \subseteq detector'.todo
         /\ detector.upto <= box.top => detector'.upto <= box.top
         /\ "fetch_error" \notin mailFaults => {u \in ScanWindow : box.sender[u] = s /\ box.alert[u] = FALSE} \subseteq detector'.todo
<1>1. PICK found \in Found(s, ScanWindow, FALSE) :
        detector' = [detector EXCEPT !.pc = next, !.todo = @ \cup found, !.upto = Highest(@, found)]
  BY DEF SearchRejections
<1>2. /\ detector \in [pc : {"idle", "judge"} \cup Senders, saw : State,
                       mode : {"step", "backlog", "oneshot"}, todo : SUBSET Uids, upto : 0..MaxUid]
      /\ MaxUid \in Nat
  BY MailAssumption DEF MailTypeOK
<1>3. found \subseteq ScanWindow /\ found \in SUBSET Uids /\ found \subseteq Present
  BY FindsSome, WindowsHold
<1>4. /\ Highest(detector.upto, found) \in {detector.upto} \cup found
      /\ Highest(detector.upto, found) \in 0..MaxUid
  BY <1>2, <1>3, HighestOf
<1> DEFINE highest == Highest(detector.upto, found)
<1>5. detector' = [pc |-> next, saw |-> detector.saw, mode |-> detector.mode,
                   todo |-> detector.todo \cup found, upto |-> highest]
  BY <1>1, <1>2
<1>6. detector.upto <= box.top => highest <= box.top
  <2>1. \A u \in Present : u <= box.top
    BY DEF Present
  <2> QED BY <1>3, <1>4, <2>1
<1> HIDE DEF highest
<1>7. detector' \in [pc : {"idle", "judge"} \cup Senders, saw : State,
                     mode : {"step", "backlog", "oneshot"}, todo : SUBSET Uids, upto : 0..MaxUid]
  BY <1>2, <1>3, <1>4, <1>5 DEF Senders, highest
<1>8. MailTypeOK'
  BY <1>7 DEF MailTypeOK, SearchRejections
<1>9. "fetch_error" \notin mailFaults =>
        {u \in ScanWindow : box.sender[u] = s /\ box.alert[u] = FALSE} \subseteq found
  BY FindsAll
<1> QED BY <1>5, <1>6, <1>8, <1>9

\* What a search of the fetcher leaves behind.
LEMMA FetchSearches ==
  ASSUME MailTypeOK, NEW s \in Senders, NEW next \in {"second", "save"}, SearchAlerts(s, next)
  PROVE  /\ MailTypeOK' /\ fetcher'.pc = next /\ fetcher'.saw = fetcher.saw
         /\ fetcher.got \subseteq fetcher'.got /\ fetcher'.got \subseteq fetcher.got \cup Present
         /\ "fetch_error" \notin mailFaults => {u \in AlertWindow : box.sender[u] = s /\ box.alert[u] = TRUE} \subseteq fetcher'.got
<1>1. PICK found \in Found(s, AlertWindow, TRUE) :
        fetcher' = [fetcher EXCEPT !.pc = next, !.got = @ \cup found]
  BY DEF SearchAlerts
<1>2. fetcher \in [pc : {"idle", "save", "ingest"} \cup Senders, saw : State, got : SUBSET Uids]
  BY DEF MailTypeOK
<1>3. found \subseteq AlertWindow /\ found \in SUBSET Uids /\ found \subseteq Present
  BY FindsSome, WindowsHold
<1>4. fetcher' = [pc |-> next, saw |-> fetcher.saw, got |-> fetcher.got \cup found]
  BY <1>1, <1>2
<1>5. fetcher' \in [pc : {"idle", "save", "ingest"} \cup Senders, saw : State, got : SUBSET Uids]
  BY <1>2, <1>3, <1>4 DEF Senders
<1>6. MailTypeOK'
  BY <1>5 DEF MailTypeOK, SearchAlerts
<1>7. "fetch_error" \notin mailFaults =>
        {u \in AlertWindow : box.sender[u] = s /\ box.alert[u] = TRUE} \subseteq found
  BY FindsAll
<1> QED BY <1>3, <1>4, <1>6, <1>7

\* What the fetcher saves is what it loaded, with its mark.
LEMMA FetchSaves ==
  ASSUME MailTypeOK, SaveAlerts
  PROVE  /\ MailTypeOK' /\ mailState'.lastUid = Highest(fetcher.saw.lastUid, fetcher.got)
         /\ mailState'.rejUid = fetcher.saw.rejUid
         /\ fetcher'.pc = "ingest" /\ fetcher'.got = fetcher.got /\ fetcher'.saw = Zero
<1>1. /\ fetcher \in [pc : {"idle", "save", "ingest"} \cup Senders, saw : State, got : SUBSET Uids]
      /\ fetcher.saw \in State /\ fetcher.saw.lastUid \in 0..MaxUid /\ fetcher.got \in SUBSET Uids
      /\ box.validity \in 0..(Resets + 1)
  BY DEF MailTypeOK, State
<1> DEFINE mark == Highest(fetcher.saw.lastUid, fetcher.got)
           marked == [fetcher.saw EXCEPT !.lastUid = mark]
<1>2. mark \in 0..MaxUid
  BY <1>1, HighestOf
<1>3. mailState' = [fetcher.saw EXCEPT !.lastUid = mark, !.validity = box.validity]
  BY DEF SaveAlerts
<1> HIDE DEF mark
<1>4. mailState' = [marked EXCEPT !.validity = box.validity]
  BY <1>1, <1>3 DEF State
<1>5. marked \in State /\ marked.lastUid = mark /\ marked.rejUid = fetcher.saw.rejUid
  BY <1>1, <1>2 DEF State
<1> HIDE DEF marked
<1>6. mailState' \in State /\ mailState'.lastUid = mark /\ mailState'.rejUid = fetcher.saw.rejUid
  BY <1>1, <1>4, <1>5 DEF State
<1>7. /\ fetcher' = [pc |-> "ingest", saw |-> Zero, got |-> fetcher.got]
      /\ fetcher'.pc = "ingest" /\ fetcher'.got = fetcher.got /\ fetcher'.saw = Zero
  BY DEF SaveAlerts, IdleFetch
<1>10. Zero \in State
  BY MailAssumption DEF Zero, State
<1>8. fetcher' \in [pc : {"idle", "save", "ingest"} \cup Senders, saw : State, got : SUBSET Uids]
  BY <1>1, <1>7, <1>10
<1>9. MailTypeOK'
  BY <1>6, <1>8 DEF MailTypeOK, SaveAlerts
<1> QED BY <1>6, <1>7, <1>9 DEF mark

\* What the detector saves is what it loaded, with its mark.
LEMMA ScanSaves ==
  ASSUME MailTypeOK, SaveScan
  PROVE  /\ MailTypeOK' /\ detector' = IdleScan
         /\ \/ mailState' = mailState
            \/ mailState'.rejUid = detector.upto /\ mailState'.lastUid = detector.saw.lastUid
<1>1. detector.saw \in State /\ detector.upto \in 0..MaxUid /\ mailState \in State
  BY DEF MailTypeOK
<1> DEFINE marked == [detector.saw EXCEPT !.rejUid = detector.upto]
           record == [marked EXCEPT !.backlogDone = TRUE]
<1>2. marked \in State /\ marked.rejUid = detector.upto /\ marked.lastUid = detector.saw.lastUid
  BY <1>1 DEF State
<1>3. mailState' \in {record, mailState}
  BY <1>1 DEF SaveScan, State
<1> HIDE DEF marked
<1>4. record \in State /\ record.rejUid = detector.upto /\ record.lastUid = detector.saw.lastUid
  BY <1>2 DEF State
<1> HIDE DEF record
<1>5. IdleScan \in [pc : {"idle", "judge"} \cup Senders, saw : State,
                    mode : {"step", "backlog", "oneshot"}, todo : SUBSET Uids, upto : 0..MaxUid]
  BY MailAssumption DEF IdleScan, Zero, State
<1>6. MailTypeOK'
  BY <1>1, <1>3, <1>4, <1>5 DEF MailTypeOK, SaveScan
<1> QED BY <1>3, <1>4, <1>6 DEF SaveScan

\* Every action keeps the types.
LEMMA MailNextIsTyped ==
  ASSUME MailTypeOK, [MailNext]_mailVars
  PROVE  MailTypeOK'
<1>1. Zero \in State /\ MaxUid \in Nat
  BY MailAssumption DEF Zero, State
<1>2. CASE UNCHANGED mailVars
  BY <1>2 DEF mailVars, MailTypeOK
<1>3. ASSUME NEW s \in Senders, NEW alert \in BOOLEAN, Arrive(s, alert)
      PROVE  MailTypeOK'
  BY <1>3, ArrivesAbove
<1>4. CASE GrowOld
  <2>1. box' = [box EXCEPT !.old = box.old + 1] /\ box.old < box.top /\ box.old + 1 \in 0..MaxUid
    BY <1>1, <1>4 DEF GrowOld, MailTypeOK
  <2> QED BY <1>4, <2>1 DEF GrowOld, MailTypeOK
<1>5. CASE ResetMailbox
  <2>1. box.validity + 1 \in 1..(Resets + 1)
    BY <1>5, MailAssumption DEF ResetMailbox, MailTypeOK
  <2>2. EmptyBox(box.validity + 1) \in [validity : 1..(Resets + 1), old : 0..MaxUid, top : 0..MaxUid,
                                        sender : [Uids -> Senders], alert : [Uids -> BOOLEAN]]
    BY <1>1, <2>1 DEF EmptyBox, Senders
  <2> QED BY <1>5, <2>2 DEF ResetMailbox, MailTypeOK
<1>6. CASE LoadForAlerts \/ FetchOffline
  BY <1>1, <1>6 DEF LoadForAlerts, FetchOffline, IdleFetch, MailTypeOK, Senders
<1>7. CASE SearchAlerts("first", "second") \/ SearchAlerts("second", "save")
  BY <1>7, FetchSearches DEF Senders
<1>8. CASE SaveAlerts
  BY <1>8, FetchSaves
<1>9. CASE IngestAlerts
  BY <1>1, <1>9 DEF IngestAlerts, IdleFetch, MailTypeOK
<1>10. ASSUME NEW mode \in {"step", "backlog", "oneshot"}, LoadForScan(mode)
       PROVE  MailTypeOK'
  <2>1. mailState.rejUid \in 0..MaxUid
    BY DEF MailTypeOK, State
  <2> QED BY <1>10, <2>1 DEF LoadForScan, MailTypeOK, Senders
<1>11. CASE SearchRejections("first", "second") \/ SearchRejections("second", "judge")
  BY <1>11, ScanSearches DEF Senders
<1>12. ASSUME NEW u \in Uids, Judge(u)
       PROVE  MailTypeOK'
  BY <1>12 DEF Judge, MailTypeOK
<1>13. CASE SaveScan
  BY <1>13, ScanSaves
<1>14. CASE ScanOffline
  BY <1>1, <1>14 DEF ScanOffline, IdleScan, MailTypeOK
<1>15. CASE LoadForTest \/ SaveTest \/ Disconnect \/ SaveGmailConfig
  <2>1. CASE LoadForTest
    BY <2>1 DEF LoadForTest, MailTypeOK
  <2>2. CASE SaveTest
    BY <1>1, <2>2 DEF SaveTest, MailTypeOK
  <2>3. CASE Disconnect \/ SaveGmailConfig
    BY <1>1, <2>3 DEF Disconnect, SaveGmailConfig, MailTypeOK
  <2> QED BY <1>15, <2>1, <2>2, <2>3
<1>16. CASE RestartMail
  BY <1>1, <1>16 DEF RestartMail, IdleFetch, IdleScan, MailTypeOK
<1> QED BY <1>2, <1>3, <1>4, <1>5, <1>6, <1>7, <1>8, <1>9, <1>10, <1>11, <1>12, <1>13, <1>14, <1>15, <1>16
        DEF MailNext

-----------------------------------------------------------------------------
\* A checkpoint that left nothing behind leaves nothing behind while no message
\* arrives, and the checkpoint of an empty record never does.
LEMMA JudgedStays ==
  ASSUME UNCHANGED box, judged \subseteq judged', NEW n, JudgedTo(n)
  PROVE  JudgedTo(n)'
BY DEF JudgedTo, Present

\* The lowest mark leaves no rejection mail behind.
LEMMA NothingToJudge ==
  ASSUME MailTypeOK
  PROVE  JudgedTo(Zero.rejUid)
<1>1. Zero.rejUid = 0 /\ box.top \in 0..MaxUid /\ MaxUid \in Nat
  BY MailAssumption DEF Zero, MailTypeOK
<1>2. \A u \in Present : ~(u <= 0)
  BY <1>1 DEF Present
<1> QED BY <1>1, <1>2 DEF JudgedTo

\* A step away from the detector's work keeps its invariant.
LEMMA ElsewhereKeepsScan ==
  ASSUME MailTypeOK, ScanInv, UNCHANGED <<box, judged>>,
         UNCHANGED detector \/ detector' = IdleScan,
         Copies' \subseteq Copies \cup {Zero}
           \/ \E s \in Copies : mailState'.rejUid = s.rejUid /\ Copies' \subseteq Copies \cup {mailState', Zero}
  PROVE  ScanInv'
<1>1. ScanHolds'
  <2>1. CASE detector' = IdleScan
    BY <2>1 DEF ScanHolds, IdleScan
  <2>2. CASE UNCHANGED detector
    BY <2>2 DEF ScanInv, ScanHolds, Present
  <2> QED BY <2>1, <2>2
<1>2. \A s \in Copies' : JudgedTo(s.rejUid)
  BY NothingToJudge DEF ScanInv
<1>3. \A s \in Copies' : JudgedTo(s.rejUid)'
  BY <1>2, JudgedStays
<1> QED BY <1>1, <1>3 DEF ScanInv

\* Every action keeps it.
LEMMA NextKeepsScan ==
  ASSUME MailTypeOK, ScanCalm, ScanInv, [MailNext]_mailVars
  PROVE  ScanInv'
<1> USE DEF Copies
<1>1. CASE UNCHANGED mailVars
  BY <1>1, ElsewhereKeepsScan DEF mailVars
<1>2. ASSUME NEW s \in Senders, NEW alert \in BOOLEAN, Arrive(s, alert)
      PROVE  ScanInv'
  <2>1. /\ Present' = Present \cup {box.top + 1} /\ box'.top = box.top + 1 /\ box.top \in Nat
        /\ \A u \in Present : box'.alert[u] = box.alert[u] /\ box'.sender[u] = box.sender[u]
    BY <1>2, ArrivesAbove
  <2>2. detector.pc # "second" /\ UNCHANGED <<mailState, fetcher, detector, judged, loginTest>>
    BY <1>2 DEF Arrive, Searching, ScanCalm
  <2>3. detector.upto \in Nat
    BY MailAssumption DEF MailTypeOK
  <2>4. ScanHolds'
    BY <2>1, <2>2, <2>3 DEF ScanInv, ScanHolds
  <2>5. ASSUME NEW c \in Copies PROVE JudgedTo(c.rejUid)'
    <3>1. JudgedTo(c.rejUid) /\ c.rejUid \in Nat
      BY MailAssumption DEF ScanInv, MailTypeOK, State
    <3> QED BY <2>1, <2>2, <3>1 DEF JudgedTo
  <2> QED BY <2>2, <2>4, <2>5 DEF ScanInv
<1>3. CASE GrowOld \/ ResetMailbox
  BY <1>3 DEF GrowOld, ResetMailbox, ScanCalm
<1>4. CASE LoadForAlerts
  BY <1>4, ElsewhereKeepsScan DEF LoadForAlerts
<1>5. CASE SearchAlerts("first", "second") \/ SearchAlerts("second", "save")
  <2>1. fetcher'.saw = fetcher.saw
    BY <1>5, FetchSearches DEF Senders
  <2> QED BY <1>5, <2>1, ElsewhereKeepsScan DEF SearchAlerts
<1>6. CASE SaveAlerts
  <2>1. mailState'.rejUid = fetcher.saw.rejUid /\ fetcher'.saw = Zero
    BY <1>6, FetchSaves
  <2>2. UNCHANGED <<box, judged, detector, loginTest>>
    BY <1>6 DEF SaveAlerts
  <2> QED BY <2>1, <2>2, ElsewhereKeepsScan
<1>7. CASE IngestAlerts \/ FetchOffline
  BY <1>7, ElsewhereKeepsScan DEF IngestAlerts, FetchOffline, IdleFetch
<1>8. ASSUME NEW mode \in {"step", "backlog", "oneshot"}, LoadForScan(mode)
      PROVE  ScanInv'
  <2>1. /\ detector' = [pc |-> "first", saw |-> mailState, mode |-> mode, todo |-> {},
                        upto |-> mailState.rejUid]
        /\ mode # "oneshot" /\ UNCHANGED <<box, mailState, fetcher, judged, loginTest>>
    BY <1>8 DEF LoadForScan, ScanCalm
  <2>2. JudgedTo(mailState.rejUid)
    BY DEF ScanInv
  <2>3. ScanHolds'
    BY <2>1, <2>2 DEF ScanHolds, JudgedTo
  <2>4. \A c \in Copies' : JudgedTo(c.rejUid)'
    BY <2>1, JudgedStays DEF ScanInv
  <2> QED BY <2>3, <2>4 DEF ScanInv
<1>9. ASSUME NEW s \in Senders, NEW next \in {"second", "judge"}, SearchRejections(s, next),
             next = "judge" <=> s = "second"
      PROVE  ScanInv'
  <2>1. /\ detector'.pc = next /\ detector'.saw = detector.saw /\ detector'.mode = detector.mode
        /\ detector.todo \subseteq detector'.todo
        /\ detector.upto <= box.top => detector'.upto <= box.top
        /\ {u \in ScanWindow : box.sender[u] = s /\ box.alert[u] = FALSE} \subseteq detector'.todo
    BY <1>9, ScanSearches DEF ScanCalm
  <2>2. detector.pc = s /\ s # "idle" /\ UNCHANGED <<box, mailState, fetcher, judged, loginTest>>
    BY <1>9 DEF SearchRejections, Senders
  <2>3. \A c \in Copies' : JudgedTo(c.rejUid)'
    BY <2>1, <2>2, JudgedStays DEF ScanInv
  <2>4. /\ \A u \in Present : u > detector.saw.rejUid => u \in ScanWindow
        /\ \A u \in Present : u \in Nat /\ box.alert[u] \in BOOLEAN
        /\ detector.saw.rejUid \in Nat
    <3>1. detector.mode # "oneshot"
      BY DEF ScanInv, ScanHolds
    <3>2. Present \subseteq Uids /\ \A u \in Present : u > detector.saw.rejUid => u \in ScanWindow
      BY <3>1, WindowsHold
    <3>3. /\ \A u \in Uids : u \in Nat /\ box.alert[u] \in BOOLEAN
          /\ detector.saw.rejUid \in Nat
      <4>1. box.alert \in [Uids -> BOOLEAN] /\ detector.saw.rejUid \in 0..MaxUid
        BY DEF MailTypeOK, State
      <4> QED BY <4>1, MailAssumption DEF Uids
    <3> QED BY <3>2, <3>3
  <2>5. JudgedTo(detector.saw.rejUid)
    BY DEF ScanInv
  <2>6. \A u \in Present : ~box.alert[u] /\ box.sender[u] = s => u \in judged \cup detector'.todo
    BY <2>1, <2>4, <2>5 DEF JudgedTo
  <2>7. \A u \in Present : s = "second" /\ ~box.alert[u] => u \in judged \cup detector'.todo
    <3>1. s = "second" => \A u \in Present : ~box.alert[u] /\ box.sender[u] = "first"
                                              => u \in judged \cup detector.todo
      BY <2>2 DEF ScanInv, ScanHolds
    <3>2. \A u \in Present : box.sender[u] \in {"first", "second"}
      BY WindowsHold DEF MailTypeOK, Senders
    <3> QED BY <2>1, <2>6, <3>1, <3>2
  <2>8. detector.upto <= box.top /\ detector.mode # "oneshot"
    BY <2>2 DEF ScanInv, ScanHolds
  <2>9. ScanHolds'
    BY <1>9, <2>1, <2>2, <2>6, <2>7, <2>8 DEF ScanHolds, Present, Senders
  <2> QED BY <2>3, <2>9 DEF ScanInv
<1>10. ASSUME NEW u \in Uids, Judge(u)
       PROVE  ScanInv'
  <2>1. /\ detector' = [detector EXCEPT !.todo = @ \ {u}] /\ judged' = judged \cup {u}
        /\ UNCHANGED <<box, mailState, fetcher, loginTest>> /\ detector.pc = "judge"
    BY <1>10 DEF Judge
  <2>2. /\ detector'.pc = "judge" /\ detector'.saw = detector.saw /\ detector'.mode = detector.mode
        /\ detector'.upto = detector.upto /\ detector'.todo = detector.todo \ {u}
    BY <2>1 DEF MailTypeOK
  <2>3. ScanHolds'
    BY <2>1, <2>2 DEF ScanInv, ScanHolds, Present
  <2>4. \A c \in Copies' : JudgedTo(c.rejUid)'
    BY <2>1, <2>2, JudgedStays DEF ScanInv
  <2> QED BY <2>3, <2>4 DEF ScanInv
<1>11. CASE SaveScan
  <2>1. /\ detector' = IdleScan /\ detector.pc = "judge" /\ detector.todo = {}
        /\ UNCHANGED <<box, fetcher, judged, loginTest>>
        /\ mailState' = mailState \/ mailState'.rejUid = detector.upto
    BY <1>11, ScanSaves DEF SaveScan
  <2>2. JudgedTo(detector.upto)
    BY <2>1 DEF ScanInv, ScanHolds, JudgedTo
  <2>3. \A c \in Copies' : JudgedTo(c.rejUid)
    BY <2>1, <2>2, NothingToJudge DEF ScanInv, IdleScan
  <2>4. \A c \in Copies' : JudgedTo(c.rejUid)'
    BY <2>1, <2>3, JudgedStays
  <2>5. ScanHolds'
    BY <2>1 DEF ScanHolds, IdleScan
  <2> QED BY <2>4, <2>5 DEF ScanInv
<1>12. CASE ScanOffline \/ RestartMail
  BY <1>12, ElsewhereKeepsScan DEF ScanOffline, RestartMail, IdleScan, IdleFetch
<1>13. CASE LoadForTest \/ SaveTest \/ Disconnect \/ SaveGmailConfig
  BY <1>13, ElsewhereKeepsScan DEF LoadForTest, SaveTest, Disconnect, SaveGmailConfig
<1> QED BY <1>1, <1>2, <1>3, <1>4, <1>5, <1>6, <1>7, <1>8, <1>9, <1>10, <1>11, <1>12, <1>13
        DEF MailNext, Senders

-----------------------------------------------------------------------------
\* The same of the alerts.
LEMMA TakenStays ==
  ASSUME UNCHANGED box, Taken \subseteq Taken', NEW n, TakenTo(n)
  PROVE  TakenTo(n)'
BY DEF TakenTo, Present

\* The lowest mark leaves no alert behind.
LEMMA NothingToTake ==
  ASSUME MailTypeOK
  PROVE  TakenTo(Zero.lastUid)
<1>1. Zero.lastUid = 0 /\ box.top \in 0..MaxUid /\ MaxUid \in Nat
  BY MailAssumption DEF Zero, MailTypeOK
<1>2. \A u \in Present : ~(u <= 0)
  BY <1>1 DEF Present
<1> QED BY <1>1, <1>2 DEF TakenTo

\* A step away from the fetcher's work keeps its invariant.
LEMMA ElsewhereKeepsFetch ==
  ASSUME MailTypeOK, FetchInv, UNCHANGED <<box, fetcher, ingested>>,
         Copies' \subseteq Copies \cup {Zero}
           \/ \E s \in Copies : mailState'.lastUid = s.lastUid /\ Copies' \subseteq Copies \cup {mailState', Zero}
  PROVE  FetchInv'
<1>1. FetchHolds'
  <2>1. FetchHolds' <=> FetchHolds
    BY DEF FetchHolds, Present, Highest
  <2> QED BY <2>1 DEF FetchInv
<1>2. \A s \in Copies' : TakenTo(s.lastUid)
  BY NothingToTake DEF FetchInv
<1>3. Taken' = Taken
  BY DEF Taken
<1>4. \A s \in Copies' : TakenTo(s.lastUid)'
  BY <1>2, <1>3, TakenStays
<1> QED BY <1>1, <1>4 DEF FetchInv

\* The fetcher's mark is a message that is there.
LEMMA MarkIsPresent ==
  ASSUME MailTypeOK, FetchInv
  PROVE  /\ Highest(fetcher.saw.lastUid, fetcher.got) \in Nat
         /\ Highest(fetcher.saw.lastUid, fetcher.got) <= box.top
<1>1. fetcher.saw.lastUid \in 0..MaxUid /\ fetcher.got \in SUBSET Uids /\ MaxUid \in Nat
  BY MailAssumption DEF MailTypeOK, State
<1>2. /\ Highest(fetcher.saw.lastUid, fetcher.got) \in {fetcher.saw.lastUid} \cup fetcher.got
      /\ Highest(fetcher.saw.lastUid, fetcher.got) \in 0..MaxUid
  BY <1>1, HighestOf
<1>3. fetcher.saw.lastUid <= box.top /\ \A u \in fetcher.got : u <= box.top
  BY DEF FetchInv, FetchHolds, Copies, TakenTo, Present
<1> QED BY <1>1, <1>2, <1>3

\* Every action keeps it.
LEMMA NextKeepsFetch ==
  ASSUME MailTypeOK, FetchCalm, FetchInv, [MailNext]_mailVars
  PROVE  FetchInv'
<1> USE DEF Copies
<1>1. CASE UNCHANGED mailVars
  BY <1>1, ElsewhereKeepsFetch DEF mailVars
<1>2. ASSUME NEW s \in Senders, NEW alert \in BOOLEAN, Arrive(s, alert)
      PROVE  FetchInv'
  <2>1. /\ Present' = Present \cup {box.top + 1} /\ box'.top = box.top + 1 /\ box.top \in Nat
        /\ \A u \in Present : box'.alert[u] = box.alert[u] /\ box'.sender[u] = box.sender[u]
    BY <1>2, ArrivesAbove
  <2>2. fetcher.pc # "second" /\ UNCHANGED <<mailState, fetcher, detector, ingested, loginTest>>
    BY <1>2 DEF Arrive, Searching, FetchCalm
  <2> DEFINE mark == Highest(fetcher.saw.lastUid, fetcher.got)
  <2>3. mark \in Nat /\ mark <= box.top /\ mark' = mark
    BY <2>2, MarkIsPresent DEF Highest
  <2>4. Taken' = Taken
    BY <2>2 DEF Taken
  <2>5. FetchHolds'
    <3> HIDE DEF mark
    <3>1. fetcher.pc = "save" => \A u \in Present : box.alert[u] /\ u <= mark => u \in ingested \cup fetcher.got
      BY DEF FetchInv, FetchHolds, mark
    <3>2. fetcher.pc = "save" =>
            \A u \in Present' : box'.alert[u] /\ u <= mark => u \in ingested \cup fetcher.got
      BY <2>1, <2>3, <3>1
    <3>3. fetcher.got \subseteq Present'
      BY <2>1 DEF FetchInv, FetchHolds
    <3> QED BY <2>2, <2>3, <3>2, <3>3 DEF FetchHolds, mark
  <2>6. ASSUME NEW c \in Copies PROVE TakenTo(c.lastUid)'
    <3>1. TakenTo(c.lastUid) /\ c.lastUid \in Nat
      BY MailAssumption DEF FetchInv, MailTypeOK, State
    <3> QED BY <2>1, <2>4, <3>1 DEF TakenTo
  <2> QED BY <2>2, <2>5, <2>6 DEF FetchInv
<1>3. CASE GrowOld \/ ResetMailbox \/ RestartMail
  BY <1>3 DEF GrowOld, ResetMailbox, RestartMail, FetchCalm
<1>4. CASE LoadForAlerts
  <2>1. /\ fetcher.pc = "idle" /\ fetcher' = [pc |-> "first", saw |-> mailState, got |-> {}]
        /\ UNCHANGED <<box, mailState, detector, ingested, loginTest>>
    BY <1>4 DEF LoadForAlerts
  <2>2. FetchHolds' /\ Taken' = Taken
    BY <2>1 DEF FetchHolds, Taken
  <2>3. \A c \in Copies' : TakenTo(c.lastUid)'
    BY <2>1, <2>2, TakenStays DEF FetchInv
  <2> QED BY <2>2, <2>3 DEF FetchInv
<1>5. ASSUME NEW s \in Senders, NEW next \in {"second", "save"}, SearchAlerts(s, next),
             next = "save" <=> s = "second"
      PROVE  FetchInv'
  <2>1. /\ fetcher'.pc = next /\ fetcher'.saw = fetcher.saw
        /\ fetcher.got \subseteq fetcher'.got /\ fetcher'.got \subseteq fetcher.got \cup Present
        /\ {u \in AlertWindow : box.sender[u] = s /\ box.alert[u] = TRUE} \subseteq fetcher'.got
    BY <1>5, FetchSearches DEF FetchCalm
  <2>2. fetcher.pc = s /\ UNCHANGED <<box, mailState, detector, ingested, loginTest>>
    BY <1>5 DEF SearchAlerts
  <2>3. Taken = ingested /\ Taken' = Taken
    BY <2>1, <2>2 DEF Taken, Senders
  <2>4. \A c \in Copies' : TakenTo(c.lastUid)'
    BY <2>1, <2>2, <2>3, TakenStays DEF FetchInv
  <2>5. \A u \in Present : u > fetcher.saw.lastUid => u \in AlertWindow
    BY WindowsHold
  <2>6. /\ \A u \in Present : u \in Nat /\ box.alert[u] \in BOOLEAN /\ box.sender[u] \in {"first", "second"}
        /\ fetcher.saw.lastUid \in Nat
    <3>1. Present \subseteq Uids
      BY WindowsHold
    <3>2. /\ box.sender \in [Uids -> {"first", "second"}] /\ box.alert \in [Uids -> BOOLEAN]
          /\ fetcher.saw.lastUid \in 0..MaxUid
      BY DEF MailTypeOK, State, Senders
    <3>3. Uids \subseteq Nat /\ 0..MaxUid \subseteq Nat
      BY MailAssumption DEF Uids
    <3> QED BY <3>1, <3>2, <3>3
  <2>7. TakenTo(fetcher.saw.lastUid)
    BY DEF FetchInv
  <2>8. \A u \in Present : box.alert[u] /\ box.sender[u] = s => u \in ingested \cup fetcher'.got
    BY <2>1, <2>3, <2>5, <2>6, <2>7 DEF TakenTo
  <2>9. \A u \in Present : s = "second" /\ box.alert[u] => u \in ingested \cup fetcher'.got
    <3>1. s = "second" => \A u \in Present : box.alert[u] /\ box.sender[u] = "first"
                                              => u \in ingested \cup fetcher.got
      BY <2>2 DEF FetchInv, FetchHolds
    <3> QED BY <2>1, <2>6, <2>8, <3>1
  <2>10. fetcher.got \subseteq Present
    BY DEF FetchInv, FetchHolds
  <2>11. FetchHolds'
    <3>1. s \in {"first", "second"} /\ Present' = Present /\ UNCHANGED <<box, ingested>>
      BY <2>2 DEF Senders, Present
    <3> QED BY <1>5, <2>1, <2>8, <2>9, <2>10, <3>1 DEF FetchHolds
  <2> QED BY <2>4, <2>11 DEF FetchInv
<1>6. CASE SaveAlerts
  <2> DEFINE mark == Highest(fetcher.saw.lastUid, fetcher.got)
  <2>1. /\ mailState'.lastUid = mark /\ fetcher.pc = "save"
        /\ fetcher'.pc = "ingest" /\ fetcher'.got = fetcher.got /\ fetcher'.saw = Zero
        /\ UNCHANGED <<box, detector, ingested, loginTest>>
    BY <1>6, FetchSaves DEF SaveAlerts
  <2>2. Taken' = ingested \cup fetcher.got /\ Taken = ingested
    BY <2>1 DEF Taken
  <2>3. mark <= box.top /\ \A u \in Present : box.alert[u] /\ u <= mark => u \in ingested \cup fetcher.got
    BY <2>1, MarkIsPresent DEF FetchInv, FetchHolds
  <2> HIDE DEF mark
  <2>4. PICK m : m = mark
    OBVIOUS
  <2>5. \A u \in Present : box.alert[u] /\ u <= m => u \in ingested \cup fetcher.got
    BY <2>3, <2>4
  <2>6. TakenTo(m)'
    BY <2>1, <2>2, <2>3, <2>4, <2>5 DEF TakenTo, Present
  <2>7. \A c \in Copies : TakenTo(c.lastUid)'
    BY <2>1, <2>2, TakenStays DEF FetchInv
  <2>8. FetchHolds'
    BY <2>1 DEF FetchInv, FetchHolds, Present
  <2>9. \A c \in Copies' : c \in Copies \/ c.lastUid = m \/ c = Zero
    BY <2>1, <2>4
  <2>12. TakenTo(Zero.lastUid)'
    BY <2>1, <2>2, NothingToTake, TakenStays
  <2>10. \A c \in Copies' : TakenTo(c.lastUid)'
    BY <2>6, <2>7, <2>9, <2>12
  <2> QED BY <2>8, <2>10 DEF FetchInv
<1>7. CASE IngestAlerts \/ FetchOffline
  <2>1. /\ fetcher' = IdleFetch /\ mailState' \in {mailState, fetcher.saw}
        /\ UNCHANGED <<box, detector, loginTest>>
    BY <1>7 DEF IngestAlerts, FetchOffline
  <2>2. Taken \subseteq Taken'
    BY <1>7 DEF IngestAlerts, FetchOffline, Taken, Senders
  <2>3. FetchHolds'
    BY <2>1 DEF FetchHolds, IdleFetch
  <2>4. \A c \in Copies' : TakenTo(c.lastUid)
    BY <2>1, NothingToTake DEF FetchInv, IdleFetch
  <2>5. \A c \in Copies' : TakenTo(c.lastUid)'
    BY <2>1, <2>2, <2>4, TakenStays
  <2> QED BY <2>3, <2>5 DEF FetchInv
<1>8. ASSUME NEW mode \in {"step", "backlog", "oneshot"}, LoadForScan(mode)
      PROVE  FetchInv'
  BY <1>8, ElsewhereKeepsFetch DEF LoadForScan
<1>9. CASE SearchRejections("first", "second") \/ SearchRejections("second", "judge")
  <2>1. detector'.saw = detector.saw
    BY <1>9, ScanSearches DEF Senders
  <2> QED BY <1>9, <2>1, ElsewhereKeepsFetch DEF SearchRejections
<1>10. ASSUME NEW u \in Uids, Judge(u)
       PROVE  FetchInv'
  <2>1. detector'.saw = detector.saw /\ UNCHANGED <<box, fetcher, ingested, mailState, loginTest>>
    BY <1>10 DEF Judge, MailTypeOK
  <2> QED BY <2>1, ElsewhereKeepsFetch
<1>11. CASE SaveScan
  <2>1. /\ detector' = IdleScan /\ IdleScan.saw = Zero
        /\ mailState' = mailState \/ mailState'.lastUid = detector.saw.lastUid
        /\ UNCHANGED <<box, fetcher, ingested, loginTest>>
    BY <1>11, ScanSaves DEF SaveScan, IdleScan
  <2> QED BY <2>1, ElsewhereKeepsFetch
<1>12. CASE ScanOffline
  BY <1>12, ElsewhereKeepsFetch DEF ScanOffline, IdleScan
<1>13. CASE LoadForTest \/ SaveTest \/ Disconnect \/ SaveGmailConfig
  BY <1>13, ElsewhereKeepsFetch DEF LoadForTest, SaveTest, Disconnect, SaveGmailConfig
<1> QED BY <1>1, <1>2, <1>3, <1>4, <1>5, <1>6, <1>7, <1>8, <1>9, <1>10, <1>11, <1>12, <1>13
        DEF MailNext, Senders

\* What the copies of the checkpoints hold is true of the mailbox from the start, and every
\* search, judgement and save keeps it.
LEMMA MailInvHolds == MailSpec => []MailInv
<1>1. MailInit => MailInv
  <2>1. SUFFICES ASSUME MailInit PROVE MailInv
    OBVIOUS
  <2>2. MailTypeOK
    BY <2>1, MailAssumption
       DEF MailInit, MailTypeOK, EmptyBox, Zero, State, IdleFetch, IdleScan, Senders, Uids
  <2>3. \A s \in Copies : s = Zero
    BY <2>1 DEF MailInit, Copies, IdleFetch, IdleScan
  <2>4. ScanHolds /\ FetchHolds
    BY <2>1 DEF MailInit, ScanHolds, FetchHolds, IdleFetch, IdleScan
  <2> QED BY <2>2, <2>3, <2>4, NothingToJudge, NothingToTake DEF MailInv, ScanInv, FetchInv
<1>2. MailInv /\ [MailNext]_mailVars => MailInv'
  <2>1. SUFFICES ASSUME MailInv, [MailNext]_mailVars PROVE MailInv'
    OBVIOUS
  <2>2. MailTypeOK'
    BY <2>1, MailNextIsTyped DEF MailInv
  <2>3. mailFaults' = mailFaults
    BY <2>1 DEF MailNext, mailVars, Arrive, GrowOld, ResetMailbox, LoadForAlerts, SearchAlerts,
         SaveAlerts, IngestAlerts, FetchOffline, LoadForScan, SearchRejections, ScanOffline,
         Judge, SaveScan, LoadForTest, SaveTest, Disconnect, SaveGmailConfig, RestartMail
  <2>4. (ScanCalm' <=> ScanCalm) /\ (FetchCalm' <=> FetchCalm)
    BY <2>3 DEF ScanCalm, FetchCalm
  <2> QED BY <2>1, <2>2, <2>4, NextKeepsScan, NextKeepsFetch DEF MailInv
<1> QED BY <1>1, <1>2, PTL DEF MailSpec

\* In a mailbox that is not renumbered, with every FETCH answered and nothing arriving
\* between the two searches, a rejection at or below the detector's checkpoint has been
\* judged and an alert at or below the fetcher's is in the run's hands, whichever of the
\* three writers of gmail_state.json saves last (gmail_imap.py, detect_rejections.py).
THEOREM NoMailIsLeftBehind == MailSpec => []CheckpointsAreProcessed
<1>1. MailInv => CheckpointsAreProcessed
  <2>1. ASSUME MailInv, ScanCalm, NEW u \in Present, ~box.alert[u], u <= mailState.rejUid
        PROVE  u \in judged
    BY <2>1 DEF MailInv, ScanInv, Copies, JudgedTo
  <2>2. ASSUME MailInv, FetchCalm, NEW u \in Present, box.alert[u], u <= mailState.lastUid
        PROVE  u \in ingested \cup fetcher.got
    BY <2>2 DEF MailInv, FetchInv, Copies, TakenTo, Taken
  <2> QED BY <2>1, <2>2 DEF CheckpointsAreProcessed, ScanCalm, FetchCalm
<1> QED BY <1>1, MailInvHolds, PTL

\* Whatever arrives, is searched, judged or taken, the mailbox, the checkpoints and the
\* copies in flight keep their types (gmail_imap.py, detect_rejections.py).
THEOREM MailTypeCorrect == MailSpec => []MailTypeOK
<1>1. MailInv => MailTypeOK
  BY DEF MailInv
<1> QED BY <1>1, MailInvHolds, PTL

------------------------------------------------------------------------------
(***************************************************************************)
(* Side by side.  A behaviour moves one component and leaves the others    *)
(* where they began, so each behaves as it does alone.                     *)
(***************************************************************************)

\* What each component is specified to do, those that stand still too: of the
\* migrations the steps, since a runner that stands still is not treated fairly.
EdgeParts ==
  /\ MailSpec /\ SpendSpec /\ ChatSpec /\ InjectSpec /\ Migrating
  /\ RestoreSpec /\ ExportSpec /\ SettingSpec /\ ViewSpec /\ LogSpec

\* A step moves one component by a step of its own.
LEMMA StepsAreTheirOwn ==
  ASSUME [EdgeNext]_edgeVars
  PROVE  /\ [MailNext]_mailVars /\ [SpendNext]_spendVars /\ [ChatNext]_chatVars
         /\ [InjectNext]_injectVars /\ [MigNext]_migVars /\ [RestoreNext]_restoreVars
         /\ [ExportNext]_exportVars /\ [SettingNext]_settingVars /\ [ViewNext]_viewVars
         /\ [LogNext]_logVars /\ UNCHANGED edge
BY DEF EdgeNext, edgeVars, onboardVars, stackVars, viewsVars, operatorVars

\* Putting the components side by side adds no behaviour to any of them: whatever the
\* mailbox scans, the ceiling, onboarding, the schema, restore, export, the settings, the
\* views and the log do in MCStackEdge, they do by their own specifications.
THEOREM PartsBehaveAsAlone == EdgeSpec => EdgeParts
<1>1. EdgeInit => /\ MailInit /\ SpendInit /\ ChatInit /\ InjectInit /\ MigInit
                  /\ RestoreInit /\ ExportInit /\ SettingInit /\ ViewInit /\ LogInit
  BY DEF EdgeInit
<1>2. [EdgeNext]_edgeVars =>
        /\ [MailNext]_mailVars /\ [SpendNext]_spendVars /\ [ChatNext]_chatVars
        /\ [InjectNext]_injectVars /\ [MigNext]_migVars /\ [RestoreNext]_restoreVars
        /\ [ExportNext]_exportVars /\ [SettingNext]_settingVars /\ [ViewNext]_viewVars
        /\ [LogNext]_logVars
  BY StepsAreTheirOwn
<1>3. EdgeFairness => SpendFairness
  BY PTL DEF EdgeFairness
<1> QED
  BY <1>1, <1>2, <1>3, PTL
     DEF EdgeSpec, EdgeParts, MailSpec, SpendSpec, ChatSpec, InjectSpec, Migrating, RestoreSpec,
         ExportSpec, SettingSpec, ViewSpec, LogSpec

\* The names of the components.
EdgeNames == {"mail", "spend", "chat", "inject", "migrations", "restore", "export",
              "settings", "views", "log"}

\* Every component keeps its types, whichever of them moves, for every value of
\* their constants.
THEOREM EdgeTypeCorrect == EdgeSpec => []EdgeTypeOK
<1>1. EdgeInit => edge \in EdgeNames
  BY EdgeAssumption DEF EdgeInit, EdgeNames
<1>2. edge \in EdgeNames /\ [EdgeNext]_edgeVars => (edge \in EdgeNames)'
  BY StepsAreTheirOwn DEF EdgeNames
<1>3. /\ edge \in EdgeNames
      /\ MailTypeOK /\ SpendTypeOK /\ ChatTypeOK /\ InjectTypeOK /\ MigTypeOK
      /\ RestoreTypeOK /\ ExportTypeOK /\ SettingTypeOK /\ ViewTypeOK /\ LogTypeOK
      => EdgeTypeOK
  BY DEF EdgeNames, EdgeTypeOK
<1>4. Migrating => []MigTypeOK
  <2>1. MigTypes => MigTypeOK
    BY DEF MigTypes, Databases, Progress, MigTypeOK
  <2> QED BY <2>1, LockedInv, PTL
<1>5. EdgeSpec => [](edge \in EdgeNames)
  BY <1>1, <1>2, PTL DEF EdgeSpec
<1>6. EdgeParts => [](/\ MailTypeOK /\ SpendTypeOK /\ ChatTypeOK /\ InjectTypeOK /\ MigTypeOK
                      /\ RestoreTypeOK /\ ExportTypeOK /\ SettingTypeOK /\ ViewTypeOK /\ LogTypeOK)
  BY <1>4, MailTypeCorrect, SpendTypeCorrect, ChatTypeCorrect, InjectTypeCorrect,
     RestoreTypeCorrect, ExportTypeCorrect, SettingTypeCorrect, ViewTypeCorrect,
     LogTypeCorrect, PTL DEF EdgeParts
<1> QED BY <1>3, <1>5, <1>6, PartsBehaveAsAlone, PTL

\* The safety the components have alone they have side by side, whichever moves: nothing
\* in the composition hides a fault of one of them.
THEOREM EdgeIsSafe ==
  EdgeSpec => /\ [](/\ CheckpointsAreProcessed /\ OvershootBounded /\ RefusalIsAnnounced
                    /\ SettingsTakeEffect /\ NothingHiddenUnasked /\ NoSilentDeath /\ OneTriage)
              /\ CrashKeepsFiles /\ QuietExportVerifies
<1>1. EdgeParts => /\ [](/\ CheckpointsAreProcessed /\ OvershootBounded /\ RefusalIsAnnounced
                         /\ SettingsTakeEffect /\ NothingHiddenUnasked /\ NoSilentDeath /\ OneTriage)
                   /\ CrashKeepsFiles /\ QuietExportVerifies
  BY NoMailIsLeftBehind, OvershootIsBounded, RefusalsAreAnnounced, QuietExportsVerify,
     SettingsAreRead, RemovedFiltersStayRemoved, NoFeedDiesInSilence, NeverTwoTriages,
     SwapKeepsFiles, PTL DEF EdgeParts
<1> QED BY <1>1, PartsBehaveAsAlone, PTL

\* So do the properties that need more: transcripts as long as appends to a session do not
\* overlap, backups as long as finalizations do not, stamps as long as migration runs do not.
THEOREM EdgeIsSafeInTurn ==
  EdgeSpec => /\ []AppendsAlone => []CapturedIsInTranscript
              /\ []OneFinalization => []OverwrittenIsBackedUp
              /\ []OneRunner => []StampMeansSchema /\ StampClimbs
<1>1. EdgeParts => /\ []AppendsAlone => []CapturedIsInTranscript
                   /\ []OneFinalization => []OverwrittenIsBackedUp
                   /\ []OneRunner => []StampMeansSchema
  BY StampsAreTrue, CapturedStaysInTranscript, BackupHolds, PTL DEF EdgeParts
<1>2. EdgeParts => ([]OneRunner => StampClimbs)
  BY StampsClimb, PTL DEF EdgeParts
<1> QED BY <1>1, <1>2, PartsBehaveAsAlone, PTL
================================================================================
