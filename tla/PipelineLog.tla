------------------------------ MODULE PipelineLog ------------------------------
(* logs/pipeline.jsonl and those who believe it: the triage runs write what     *)
(* each source brought, the daily health check reads it back to tell which      *)
(* feeds have died, and the operator panel reads from it whether a triage is    *)
(* running.  Time goes by half days: the night's triage and its 07:00 check,    *)
(* then an afternoon of manual runs.  A full log is renamed and compressed,     *)
(* and its backups are read by nobody.                                          *)
EXTENDS Integers, FiniteSets, FiniteSetsExt

CONSTANTS
  Feeds,       \* the addresses asked, each of one source
  SourceOf,    \* feed -> source
  Triages,     \* the processes triage runs in
  Clerks,      \* handlers of the panel's POST
  WeekSlots,   \* half days of the week before the last 25 hours (12)
  LastSlot,    \* bound: half days
  MaxLaunches, \* bound: triage runs from the panel
  LogFaults    \* sets of faults: "volume", "kill", "race", "slow"

ASSUME LogAssumption ==
  /\ IsFiniteSet(Feeds) /\ {WeekSlots, LastSlot, MaxLaunches} \subseteq Nat
  /\ LastSlot >= 2 * WeekSlots + 4

VARIABLES
  slot,       \* the half day: even ones are nights
  current,    \* the current file as its readers see it: the fetches, the newest cron event
  triage,     \* [phase, attempt, by] of the triage in a process
  launches,   \* triage runs from the panel
  on,         \* the sources active and with their key
  clerk,      \* handlers that have looked and found nothing running
  world,      \* what really happened to a feed, and when
  report,     \* what the health check has just said
  logFaults

logVars == <<slot, current, triage, launches, on, clerk, world, report, logFaults>>

Sources == {SourceOf[f] : f \in Feeds}
Answers == {"jobs", "none", "gone"}   \* rows, an empty board, a 404
Night(s) == s % 2 = 0
FirstSlot == 2 * WeekSlots + 4   \* a night, with a week behind it
NoTriage == [phase |-> "none", attempt |-> 0, by |-> "cron"]
NoReport == [dead |-> {}, gone |-> {}, quiet |-> {}, lost |-> {}]

------------------------------------------------------------------------------
(* The file.                                                               *)

\* before an event is written a full file is set aside
WriteLog(fetches, cron) ==
  \/ current' = [fetches |-> current.fetches \cup fetches, cron |-> cron]
  \/ "volume" \in logFaults /\ current' = [fetches |-> fetches, cron |-> cron]

NoEvent == [event |-> "none", slot |-> 0]
Started == [event |-> "cron_started", slot |-> slot]
Finished == [NoEvent EXCEPT !.event = "cron_finished"]   \* nobody asks when

\* the newest cron event is a start, and not 120 minutes old (ExpireStart): that
\* may be a start of the half day before; the panel reads the file's last
\* megabyte only
SeenRunning == current.cron.event = "cron_started" /\ current.cron.slot >= slot - 1
MayMiss == "volume" \in logFaults

------------------------------------------------------------------------------
(* Triage runs.                                                            *)

Alive(t) == triage[t].phase # "none"

\* a new process; which one is of no interest
Spawn(by) == /\ \E t \in Triages : ~Alive(t)
             /\ LET t == CHOOSE u \in Triages : ~Alive(u) IN
                triage' = [triage EXCEPT ![t] = [phase |-> "spawned", attempt |-> 0, by |-> by]]

\* the scheduled triage has a timeout of 7200 seconds, one from the panel has none
MayTakeLonger(t) == "slow" \in logFaults /\ triage[t].by = "panel"

\* the night begins with the scheduled triage, which looks at nothing
NextSlot ==
  /\ slot < LastSlot
  /\ \A t \in Triages : Alive(t) => MayTakeLonger(t)
  /\ "race" \in logFaults \/ clerk = {}
  /\ slot' = slot + 1
  /\ IF Night(slot) THEN UNCHANGED triage ELSE Spawn("cron")
  /\ UNCHANGED <<current, launches, on, clerk, world, logFaults>>

\* 120 minutes after the newest start: it says nothing any more
ExpireStart ==
  /\ SeenRunning /\ \A t \in Triages : Alive(t) => MayTakeLonger(t)
  /\ current' = [fetches |-> current.fetches, cron |-> NoEvent]
  /\ UNCHANGED <<slot, triage, launches, on, clerk, world, logFaults>>

\* the operator picks sources and keys
ChangeSources ==
  /\ clerk = {} /\ \A t \in Triages : ~Alive(t)
  /\ on' \in (SUBSET Sources) \ {on}
  /\ UNCHANGED <<slot, current, triage, launches, clerk, world, logFaults>>

Enters(t, phase, attempt) ==
  triage' = [triage EXCEPT ![t] = [phase |-> phase, attempt |-> attempt, by |-> triage[t].by]]

BeginTriage(t) ==
  /\ triage[t].phase = "spawned"
  /\ Enters(t, "fetch", 1)
  /\ WriteLog({}, Started)
  /\ UNCHANGED <<slot, launches, on, clerk, world, logFaults>>

\* jobs_fetched with every active source's count, after a fetch_skip for each
\* feed that answers 404
Fetched(asked) == [slot |-> slot,
                   counts |-> [s \in on |-> Cardinality({f \in DOMAIN asked :
                                               SourceOf[f] = s /\ asked[f] = "jobs"})],
                   gone |-> {f \in DOMAIN asked : asked[f] = "gone"}]

\* one attempt, over every active source; the network decides on the next
FetchJobs(t) == \E asked \in [{f \in Feeds : SourceOf[f] \in on} -> Answers], online \in BOOLEAN :
  LET empty == \A f \in DOMAIN asked : asked[f] # "jobs"
      again == empty /\ triage[t].attempt < 3 /\ ~online IN
  /\ triage[t].phase = "fetch"
  /\ ~online => \A f \in DOMAIN asked : asked[f] = "none"
  /\ WriteLog({Fetched(asked)}, current.cron)
  /\ IF again THEN Enters(t, "fetch", triage[t].attempt + 1) ELSE Enters(t, "score", 0)
  /\ world' = [f \in Feeds |->
       IF f \notin DOMAIN asked THEN world[f]
       ELSE [world[f] EXCEPT !.asked = slot,
                             !.good = IF asked[f] = "jobs" THEN slot ELSE @,
                             !.gone = IF asked[f] = "gone" THEN slot ELSE @]]
  /\ UNCHANGED <<slot, launches, on, clerk, logFaults>>

EndTriage(t) ==
  /\ triage[t].phase = "score"
  /\ triage' = [triage EXCEPT ![t] = NoTriage]
  /\ WriteLog({}, Finished)
  /\ UNCHANGED <<slot, launches, on, clerk, world, logFaults>>

\* an exception, the timeout's SIGTERM, a SIGKILL
StopTriage(t) ==
  /\ Alive(t) /\ "kill" \in logFaults
  /\ triage' = [triage EXCEPT ![t] = NoTriage]
  /\ \/ triage[t].phase \in {"fetch", "score"} /\ WriteLog({}, Finished)
     \/ UNCHANGED current
  /\ UNCHANGED <<slot, launches, on, clerk, world, logFaults>>

------------------------------------------------------------------------------
(* The panel.                                                              *)

\* unless they race, a click comes after the first one's answer, and not in the
\* second the scheduled triage takes to start
LookAtPanel(c) ==
  /\ c \notin clerk
  /\ \/ "race" \in logFaults
     \/ clerk = {} /\ \A t \in Triages : triage[t].phase = "spawned" => triage[t].by = "panel"
  /\ ~SeenRunning \/ MayMiss
  /\ clerk' = clerk \cup {c}
  /\ UNCHANGED <<slot, current, triage, launches, on, world, logFaults>>

RefuseLaunch(c) ==
  /\ c \in clerk /\ clerk' = clerk \ {c}
  /\ UNCHANGED <<slot, current, triage, launches, on, world, logFaults>>

\* mutant: the start is left for the child to write
LaunchUnannounced(c) ==
  /\ c \in clerk /\ clerk' = clerk \ {c}
  /\ launches < MaxLaunches /\ launches' = launches + 1 /\ Spawn("panel")
  /\ UNCHANGED <<slot, current, on, world, logFaults>>

\* the start is written before the child exists
LaunchTriage(c) ==
  /\ c \in clerk /\ clerk' = clerk \ {c}
  /\ WriteLog({}, Started)
  /\ launches < MaxLaunches /\ launches' = launches + 1 /\ Spawn("panel")
  /\ UNCHANGED <<slot, on, world, logFaults>>

\* no child: the start is taken back
LaunchFails(c) ==
  /\ c \in clerk /\ clerk' = clerk \ {c}
  /\ WriteLog({}, Finished)
  /\ UNCHANGED <<slot, triage, launches, on, world, logFaults>>

------------------------------------------------------------------------------
(* The health check.                                                       *)

\* 25 hours before 07:00 lie yesterday's afternoon and tonight; in the afternoon
\* they reach a slot further
WindowFrom == IF Night(slot) THEN slot - 1 ELSE slot - 2
WeekFrom == WindowFrom - WeekSlots

Recent(from) == {e \in current.fetches : e.slot >= from}

Peak(events, s) == Max({0} \cup {e.counts[s] : e \in {d \in events : s \in DOMAIN d.counts}})

\* mutant: only the last run of the window counts
DeadInLastRun(window, week) ==
  {s \in Sources : /\ Peak(week, s) > 0
                   /\ \E e \in window : s \in DOMAIN e.counts
                   /\ Peak({e \in window : \A d \in window : d.slot <= e.slot}, s) = 0}

DeadFeeds(window, week) ==
  {s \in Sources : /\ Peak(week, s) > 0
                   /\ \E e \in window : s \in DOMAIN e.counts
                   /\ Peak(window, s) = 0}

DeadSlugs(window) == UNION {e.gone : e \in window}

\* what a source has been through: asked, rows, 404s since a half day
Since(s, field, from) == \E f \in Feeds : SourceOf[f] = s /\ world[f][field] >= from

HealthCheck ==
  LET window == Recent(WindowFrom)
      week == Recent(WeekFrom) IN
  /\ clerk = {} /\ \A t \in Triages : Alive(t) => MayTakeLonger(t)
  /\ report' = [dead |-> DeadFeeds(window, week),
                gone |-> DeadSlugs(window),
                quiet |-> {s \in Sources : /\ Since(s, "asked", WindowFrom)
                                          /\ ~Since(s, "good", WindowFrom)
                                          /\ Since(s, "good", WeekFrom)},
                lost |-> {f \in Feeds : world[f].gone >= WindowFrom}]
  /\ UNCHANGED <<slot, current, triage, launches, on, clerk, world, logFaults>>

LogInit ==
  /\ slot = FirstSlot /\ current = [fetches |-> {}, cron |-> NoEvent] /\ report = NoReport
  /\ triage = [t \in Triages |-> NoTriage] /\ launches = 0
  /\ on = Sources /\ clerk = {}
  /\ world = [f \in Feeds |-> [asked |-> 0, good |-> 0, gone |-> 0]]
  /\ logFaults \in LogFaults

LogNext ==
  \/ HealthCheck
  \/ /\ report' = NoReport
     /\ \/ NextSlot \/ ExpireStart \/ ChangeSources
        \/ \E t \in Triages : BeginTriage(t) \/ FetchJobs(t) \/ EndTriage(t) \/ StopTriage(t)
        \/ \E c \in Clerks : LookAtPanel(c) \/ RefuseLaunch(c) \/ LaunchTriage(c) \/ LaunchFails(c)

LogSpec == LogInit /\ [][LogNext]_logVars

------------------------------------------------------------------------------
(* Properties.                                                             *)

LogTypeOK ==
  /\ slot \in FirstSlot..LastSlot /\ launches \in 0..MaxLaunches
  /\ \A e \in current.fetches : e.slot \in FirstSlot..slot
  /\ triage \in [Triages -> [phase : {"none", "spawned", "fetch", "score"}, attempt : 0..3,
                             by : {"cron", "panel"}]]
  /\ on \subseteq Sources /\ clerk \subseteq Clerks
  /\ world \in [Feeds -> [asked : 0..LastSlot, good : 0..LastSlot, gone : 0..LastSlot]]
  /\ report.dead \subseteq Sources /\ report.gone \subseteq Feeds
  /\ logFaults \in LogFaults

\* No source dies in silence.  The health check names the sources that brought
\* jobs within the week and, though asked, none in the last 25 hours, and the
\* feeds that answered 404; it never names another.  A file set aside may hide
\* a death, and never invents one (notifications/health_check.py:50-82, 91-118).
NoSilentDeath ==
  /\ report.dead \subseteq report.quiet /\ report.gone \subseteq report.lost
  /\ "volume" \notin logFaults => report.quiet \subseteq report.dead /\ report.lost \subseteq report.gone

\* One triage at a time.  Clicks that do not race launch no triage while one is
\* running, whether its child has begun or not (web/cron_dispatch.py:63-66).
\* Left out: a file set aside, and a triage that takes longer than its start counts.
OneTriage ==
  logFaults \cap {"volume", "race", "slow"} = {} =>
    \A t, u \in Triages : Alive(t) /\ Alive(u) => t = u
=============================================================================
