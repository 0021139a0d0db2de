------------------------------ MODULE StackProofs ------------------------------
(***************************************************************************)
(* What holds of a stack's schema and of its copies: of the migration      *)
(* runner, types and the rows' place for any number of runners at once     *)
(* and, when no two overlap, that a stamp means its schema and only        *)
(* climbs; of a restore, that no file is lost; of an export, that a quiet  *)
(* one verifies.                                                           *)
(***************************************************************************)
EXTENDS Migrations, StackRestore, StateExport, FiniteSetTheorems, SequenceTheorems, TLAPS

(***************************************************************************)
(* Migrations.                                                             *)
(***************************************************************************)

\* The tables and columns that some script or helper looks at.
Things == {"jobs", "loose_fingerprint", "network_depth", "gdrive_folder_url", "onboarding_sessions",
           "tester_keys", "user_keys", "notifications", "background_tasks", "rejection_suggestions",
           "notes_history", "view_prefs", "config_changes", "company_tier", "gemini_key",
           "cost_calibration"}

\* The types of a database and of a runner's progress, all fields of them.
Databases ==
    [version : 0 .. HeadVersion \cup {NoVersion}, has : SUBSET Things, lacks : SUBSET AllValues,
     tiers : BOOLEAN, rows : {"jobs", "legacy"}, needsInfo : BOOLEAN, lostStamp : BOOLEAN]
Progress ==
    [pc : {"off", "read", "infer", "stamp", "next", "script", "helper", "renamed"},
     version : 0 .. HeadVersion, stmt : Nat \ {0}, helper : 1 .. Len(Helpers) + 1]

MigTypes ==
    /\ db \in Databases /\ work \in Databases
    /\ writer \in Runners \cup {NoRunner}
    /\ runner \in [Runners -> Progress]
    /\ stops \in 0 .. MaxStops /\ boots \in 0 .. MaxBoots

\* Who is inside a transaction holds the write lock, and the rows are in the
\* table except inside a rebuild.
Locked ==
    /\ db.rows = "jobs"
    /\ \A r \in Runners :
          /\ runner[r].pc = "script" => writer = r /\ work.rows = "jobs" /\ runner[r].version < HeadVersion
          /\ runner[r].pc = "renamed" => writer = r
          /\ writer = r => runner[r].pc \in {"script", "helper", "renamed"}
          /\ writer = r /\ runner[r].pc = "helper" => work.rows = "jobs"
          /\ runner[r].pc = "infer" => runner[r].version = 0
          /\ runner[r].pc \in {"helper", "renamed"} => runner[r].version \in {0, HeadVersion}

-----------------------------------------------------------------------------
\* A stamped schema, up to columns that a later script takes.
Retired == {"gdrive_folder_url", "network_depth"}
Between(shape, has) == shape \subseteq has /\ has \ shape \subseteq Retired

\* What the scripts up to v, and the next one's statements before k, have left.
DoneSoFar(v, k) == UpTo(v) \cup {Script[v + 1][i] : i \in 1 .. k - 1}
Midway(v, k) == (UNION {Brings(st) : st \in DoneSoFar(v, k)}) \ (UNION {Takes(st) : st \in DoneSoFar(v, k)})

\* A database without a stamp is empty or the one of v0.10, bridged so far.
OldTables == {"jobs", "network_depth", "gdrive_folder_url", "onboarding_sessions"}
Bridged == OldTables \cup {"loose_fingerprint", "tester_keys"}
Unstamped(has) ==
    has = {} \/ (OldTables \subseteq has /\ has \subseteq Bridged \cup {"cost_calibration"})

Coherent(d) ==
    /\ d.version = NoVersion => Unstamped(d.has)
    /\ d.version = 0 => d.has \in {{}, Bridged}
    /\ d.version \in 1 .. HeadVersion => Between(Shape[d.version], d.has)

\* The first script fills in what an empty or a bridged database lacks; a
\* later one brings and takes what it names.
ScriptSoFar(v, k, has) ==
    IF v = 0 THEN has \in {Midway(0, k), Midway(0, k) \cup Bridged} ELSE Between(Midway(v, k), has)

\* What a runner that is alone has read is so, and what it is writing comes
\* from what it has read.
Sure(r) ==
    /\ runner[r].pc = "infer" => db.version = NoVersion
    /\ runner[r].pc \in {"next", "script"} => db.version = runner[r].version
    /\ runner[r].pc \in {"helper", "renamed"} =>
          IF runner[r].version < HeadVersion THEN db.version = NoVersion /\ writer = r /\ "jobs" \in db.has
                                             ELSE db.version = HeadVersion
    /\ runner[r].pc = "script" =>
          /\ work.lostStamp = db.lostStamp /\ runner[r].stmt <= Len(ScriptOf(r)) + 1
          /\ ~db.lostStamp => ScriptSoFar(runner[r].version, runner[r].stmt, work.has)
    /\ writer = r /\ runner[r].pc \in {"helper", "renamed"} =>
          work.has = db.has /\ work.version = db.version /\ work.lostStamp = db.lostStamp

StampInv == (~db.lostStamp => Coherent(db)) /\ \A r \in Runners : Sure(r)
-----------------------------------------------------------------------------
(***************************************************************************)
(* The scripts: what they name, and what their prefixes leave.             *)
(***************************************************************************)

\* There are ten scripts and seven helpers.
LEMMA Counts == HeadVersion = 10 /\ Len(Helpers) = 7
<1>1. HeadVersion = 10
  BY DEF HeadVersion, Script
<1>2. Len(Helpers) = 7
  BY DEF Helpers
<1> QED BY <1>1, <1>2

\* What a later script takes.
TakenBack == Retired \cup {"tester_keys"}

\* The scripts one by one.
LEMMA ScriptTable ==
  /\ Script[1] = Initial /\ Script[2] = BackgroundTasks /\ Script[3] = RejectionSuggestions
  /\ Script[4] = NotesHistory /\ Script[5] = ViewPrefs /\ Script[6] = RenameKeys
  /\ Script[7] = TuningLoop /\ Script[8] = GeminiKey /\ Script[9] = DropGdrive
  /\ Script[10] = DropDepth
BY DEF Script

\* The first script takes nothing, a later one takes no more than TakenBack, brings
\* nothing of it and creates tables alone.
Proper(w, st) ==
    /\ Brings(st) \subseteq Things
    /\ IF w = 1 THEN Takes(st) = {}
       ELSE /\ Takes(st) \subseteq TakenBack /\ Brings(st) \cap TakenBack = {}
            /\ st.op = "create" => Brings(st) = {st.thing}

\* Scripts are never empty, and each of their statements is proper.
LEMMA ScriptsAreProper ==
  ASSUME NEW w \in 1 .. HeadVersion
  PROVE  /\ Len(Script[w]) \in Nat \ {0}
         /\ \A i \in 1 .. Len(Script[w]) : Proper(w, Script[w][i])
         /\ ToSet(Script[w]) = {Script[w][i] : i \in 1 .. Len(Script[w])}
<1>1. w \in 1 .. 10
  BY Counts
<1>2. ASSUME NEW st, Script[w] = <<st>>, Proper(w, st)
      PROVE  /\ Len(Script[w]) \in Nat \ {0}
             /\ \A i \in 1 .. Len(Script[w]) : Proper(w, Script[w][i])
             /\ ToSet(Script[w]) = {Script[w][i] : i \in 1 .. Len(Script[w])}
  BY <1>2 DEF ToSet
<1>3. CASE w = 2
  <2>1. Proper(2, Create("background_tasks", {}))
    BY DEF Proper, Things, TakenBack, Retired, Brings, Takes, Create, AddColumn, DropColumn,
       RenameColumn
  <2> QED BY <1>3, <1>2, <2>1, ScriptTable DEF BackgroundTasks
<1>4. CASE w = 3
  <2>1. Proper(3, Create("rejection_suggestions", {}))
    BY DEF Proper, Things, TakenBack, Retired, Brings, Takes, Create, AddColumn, DropColumn,
       RenameColumn
  <2> QED BY <1>4, <1>2, <2>1, ScriptTable DEF RejectionSuggestions
<1>5. CASE w = 4
  <2>1. Proper(4, Create("notes_history", {}))
    BY DEF Proper, Things, TakenBack, Retired, Brings, Takes, Create, AddColumn, DropColumn,
       RenameColumn
  <2> QED BY <1>5, <1>2, <2>1, ScriptTable DEF NotesHistory
<1>6. CASE w = 5
  <2>1. Proper(5, Create("view_prefs", {}))
    BY DEF Proper, Things, TakenBack, Retired, Brings, Takes, Create, AddColumn, DropColumn,
       RenameColumn
  <2> QED BY <1>6, <1>2, <2>1, ScriptTable DEF ViewPrefs
<1>7. CASE w = 6
  <2>1. Proper(6, RenameColumn("tester_keys", "user_keys"))
    BY DEF Proper, Things, TakenBack, Retired, Brings, Takes, Create, AddColumn, DropColumn,
       RenameColumn
  <2> QED BY <1>7, <1>2, <2>1, ScriptTable DEF RenameKeys
<1>8. CASE w = 8
  <2>1. Proper(8, AddColumn("gemini_key"))
    BY DEF Proper, Things, TakenBack, Retired, Brings, Takes, Create, AddColumn, DropColumn,
       RenameColumn
  <2> QED BY <1>8, <1>2, <2>1, ScriptTable DEF GeminiKey
<1>9. CASE w = 9
  <2>1. Proper(9, DropColumn("gdrive_folder_url"))
    BY DEF Proper, Things, TakenBack, Retired, Brings, Takes, Create, AddColumn, DropColumn,
       RenameColumn
  <2> QED BY <1>9, <1>2, <2>1, ScriptTable DEF DropGdrive
<1>10. CASE w = 10
  <2>1. Proper(10, DropColumn("network_depth"))
    BY DEF Proper, Things, TakenBack, Retired, Brings, Takes, Create, AddColumn, DropColumn,
       RenameColumn
  <2> QED BY <1>10, <1>2, <2>1, ScriptTable DEF DropDepth
<1>11. CASE w = 1
  <2>1. /\ Proper(1, Create("jobs", JobsDDL)) /\ Proper(1, Create("notifications", {}))
        /\ Proper(1, Create("onboarding_sessions", {"tester_keys"}))
    BY DEF Proper, Things, JobsDDL, Brings, Takes, Create
  <2> QED BY <1>11, <2>1, ScriptTable DEF Initial, ToSet
<1>12. CASE w = 7
  <2>1. Proper(7, Create("config_changes", {})) /\ Proper(7, AddColumn("company_tier"))
    BY DEF Proper, Things, TakenBack, Retired, Brings, Takes, Create, AddColumn, DropColumn,
       RenameColumn
  <2> QED BY <1>12, <2>1, ScriptTable DEF TuningLoop, ToSet
<1> QED BY <1>1, <1>3, <1>4, <1>5, <1>6, <1>7, <1>8, <1>9, <1>10, <1>11, <1>12

\* The statements of the scripts up to v + 1 are those up to v and its own.
LEMMA UpToNext ==
  ASSUME NEW v \in 0 .. HeadVersion - 1
  PROVE  UpTo(v + 1) = UpTo(v) \cup {Script[v + 1][i] : i \in 1 .. Len(Script[v + 1])}
<1>1. v + 1 \in 1 .. HeadVersion /\ 1 .. (v + 1) = (1 .. v) \cup {v + 1}
  BY Counts
<1>2. UpTo(v + 1) = UpTo(v) \cup ToSet(Script[v + 1])
  BY <1>1 DEF UpTo
<1> QED BY <1>1, <1>2, ScriptsAreProper

\* Each statement so far is one of a script, and proper there.
LEMMA UpToProper ==
  ASSUME NEW v \in 0 .. HeadVersion, NEW st \in UpTo(v)
  PROVE  \E w \in 1 .. HeadVersion : w <= v /\ Proper(w, st)
<1>1. PICK w \in 1 .. v : st \in ToSet(Script[w])
  BY DEF UpTo
<1>2. w \in 1 .. HeadVersion /\ w <= v
  BY Counts
<1>3. PICK i \in 1 .. Len(Script[w]) : st = Script[w][i]
  BY <1>1, <1>2, ScriptsAreProper
<1> QED BY <1>2, <1>3, ScriptsAreProper

\* The schema in the middle of a script, statement by statement.
LEMMA MidwayNext ==
  ASSUME NEW v \in 0 .. HeadVersion - 1, NEW k \in 1 .. Len(Script[v + 1])
  PROVE  Midway(v, k + 1)
           = (Midway(v, k) \ Takes(Script[v + 1][k])) \cup Brings(Script[v + 1][k])
<1> DEFINE st == Script[v + 1][k]
<1>1. v + 1 \in 1 .. HeadVersion /\ v \in 0 .. HeadVersion
  BY Counts
<1>2. Len(Script[v + 1]) \in Nat /\ k \in Nat \ {0}
  BY <1>1, ScriptsAreProper
<1>3. 1 .. (k + 1) - 1 = (1 .. k - 1) \cup {k}
  BY <1>2
<1>4. DoneSoFar(v, k + 1) = DoneSoFar(v, k) \cup {st}
  BY <1>3 DEF DoneSoFar
<1>5. Proper(v + 1, st)
  BY <1>1, <1>2, ScriptsAreProper
<1>6. ASSUME NEW su \in DoneSoFar(v, k) \cup {st}
      PROVE  Takes(su) \cap Brings(st) = {}
  <2>1. \E w \in 1 .. HeadVersion : w <= v + 1 /\ Proper(w, su)
    <3>1. CASE su \in UpTo(v)
      <4>1. PICK w \in 1 .. HeadVersion : w <= v /\ Proper(w, su)
        BY <1>1, <3>1, UpToProper
      <4>2. w <= v + 1
        BY <1>1, <4>1, Counts
      <4> QED BY <4>1, <4>2
    <3>2. CASE su \notin UpTo(v)
      <4>1. PICK i \in 1 .. Len(Script[v + 1]) : su = Script[v + 1][i]
        BY <1>2, <3>2 DEF DoneSoFar
      <4>2. Proper(v + 1, su)
        BY <1>1, <4>1, ScriptsAreProper
      <4>3. v + 1 <= v + 1
        BY <1>1, Counts
      <4> QED BY <1>1, <4>2, <4>3
    <3> QED BY <3>1, <3>2
  <2>2. PICK w \in 1 .. HeadVersion : w <= v + 1 /\ Proper(w, su)
    BY <2>1
  <2>3. CASE w = 1
    BY <2>2, <2>3 DEF Proper
  <2>4. CASE w # 1
    <3>1. v + 1 # 1
      BY <2>2, <2>4, <1>1, Counts
    <3> QED BY <2>2, <2>4, <3>1, <1>5 DEF Proper
  <2> QED BY <2>3, <2>4
<1> HIDE DEF st
<1>7. Midway(v, k + 1) = (Midway(v, k) \ Takes(st)) \cup Brings(st)
  <2>1. (UNION {Brings(su) : su \in DoneSoFar(v, k + 1)})
          = (UNION {Brings(su) : su \in DoneSoFar(v, k)}) \cup Brings(st)
    BY <1>4
  <2>2. (UNION {Takes(su) : su \in DoneSoFar(v, k + 1)})
          = (UNION {Takes(su) : su \in DoneSoFar(v, k)}) \cup Takes(st)
    BY <1>4
  <2>3. (UNION {Takes(su) : su \in DoneSoFar(v, k + 1)}) \cap Brings(st) = {}
    BY <1>4, <1>6
  <2> QED BY <2>1, <2>2, <2>3 DEF Midway
<1> QED BY <1>7 DEF st

\* A script begins with the schema of its predecessor and ends with its own.
LEMMA MidwayEnds ==
  ASSUME NEW v \in 0 .. HeadVersion - 1
  PROVE  Midway(v, 1) = Shape[v] /\ Midway(v, Len(Script[v + 1]) + 1) = Shape[v + 1]
<1>1. v + 1 \in 0 .. HeadVersion /\ v \in 0 .. HeadVersion /\ v + 1 \in 1 .. HeadVersion
  BY Counts
<1>2. Len(Script[v + 1]) \in Nat
  BY <1>1, ScriptsAreProper
<1>3. DoneSoFar(v, 1) = UpTo(v)
  BY DEF DoneSoFar
<1>4. DoneSoFar(v, Len(Script[v + 1]) + 1) = UpTo(v + 1)
  <2>1. (Len(Script[v + 1]) + 1) - 1 = Len(Script[v + 1])
    BY <1>2
  <2> QED BY <2>1, UpToNext DEF DoneSoFar
<1> QED BY <1>1, <1>3, <1>4 DEF Midway, Shape

\* A schema names things; what no script takes stays in it.
LEMMA ShapeNames ==
  ASSUME NEW v \in 0 .. HeadVersion
  PROVE  Shape[v] \subseteq Things
BY UpToProper DEF Shape, Proper

\* No script takes back the two columns the helpers look for, so head has them.
LEMMA HeadNames == {"loose_fingerprint", "company_tier"} \subseteq Shape[HeadVersion]
<1>1. ASSUME NEW st \in UpTo(HeadVersion), NEW x \in Brings(st), x \notin TakenBack
      PROVE  x \in Shape[HeadVersion]
  <2>1. HeadVersion \in 0 .. HeadVersion
    BY Counts
  <2>2. \A su \in UpTo(HeadVersion) : Takes(su) \subseteq TakenBack
    BY <2>1, UpToProper DEF Proper
  <2> QED BY <1>1, <2>1, <2>2 DEF Shape
<1>2. 1 \in 1 .. HeadVersion /\ 7 \in 1 .. HeadVersion
  BY Counts
<1>3. Initial[1] \in UpTo(HeadVersion) /\ TuningLoop[2] \in UpTo(HeadVersion)
  <2>1. Initial[1] \in ToSet(Initial) /\ TuningLoop[2] \in ToSet(TuningLoop)
    BY DEF Initial, TuningLoop, ToSet
  <2> QED BY <1>2, <2>1, ScriptTable DEF UpTo
<1>4. "loose_fingerprint" \in Brings(Initial[1]) /\ "company_tier" \in Brings(TuningLoop[2])
  BY DEF Initial, TuningLoop, Brings, Create, AddColumn, JobsDDL
<1>5. "loose_fingerprint" \notin TakenBack /\ "company_tier" \notin TakenBack
  BY DEF TakenBack, Retired
<1> QED BY <1>1, <1>3, <1>4, <1>5

\* The first script, from an empty database and from a bridged one.
LEMMA FirstScript ==
  /\ Len(Script[1]) = 3
  /\ Midway(0, 1) = {} /\ Midway(0, 2) = {"jobs"} \cup JobsDDL
  /\ Midway(0, 3) = Bridged /\ Midway(0, 4) = Bridged \cup {"notifications"}
  /\ Shape[1] = Bridged \cup {"notifications"}
<1>1. 0 \in 0 .. HeadVersion - 1 /\ 0 \in 0 .. HeadVersion /\ 0 + 1 = 1
  BY Counts
<1>2. Len(Script[1]) = 3
  BY ScriptTable DEF Initial
<1>3. Midway(0, 1) = {}
  <2>1. UpTo(0) = {}
    BY DEF UpTo
  <2>2. DoneSoFar(0, 1) = {}
    BY <2>1 DEF DoneSoFar
  <2> QED BY <2>2 DEF Midway
<1>4. \A k \in 1 .. 3 : Midway(0, k + 1) = (Midway(0, k) \ Takes(Initial[k])) \cup Brings(Initial[k])
  BY <1>1, <1>2, MidwayNext, ScriptTable
<1>5. /\ Takes(Initial[1]) = {} /\ Brings(Initial[1]) = {"jobs"} \cup JobsDDL
      /\ Takes(Initial[2]) = {} /\ Brings(Initial[2]) = {"onboarding_sessions", "tester_keys"}
      /\ Takes(Initial[3]) = {} /\ Brings(Initial[3]) = {"notifications"}
  BY DEF Initial, Takes, Brings, Create
<1>6. Midway(0, 2) = {"jobs"} \cup JobsDDL
  <2>1. Midway(0, 1 + 1) = (Midway(0, 1) \ Takes(Initial[1])) \cup Brings(Initial[1])
    BY <1>4
  <2> QED BY <2>1, <1>3, <1>5
<1>7. Midway(0, 3) = Bridged
  <2>1. Midway(0, 2 + 1) = (Midway(0, 2) \ Takes(Initial[2])) \cup Brings(Initial[2])
    BY <1>4
  <2> QED BY <2>1, <1>6, <1>5 DEF Bridged, OldTables, JobsDDL
<1>8. Midway(0, 4) = Bridged \cup {"notifications"}
  <2>1. Midway(0, 3 + 1) = (Midway(0, 3) \ Takes(Initial[3])) \cup Brings(Initial[3])
    BY <1>4
  <2> QED BY <2>1, <1>7, <1>5
<1>9. Shape[1] = Midway(0, 4)
  <2>1. Midway(0, Len(Script[0 + 1]) + 1) = Shape[0 + 1]
    BY <1>1, MidwayEnds
  <2>2. 0 + 1 = 1 /\ 3 + 1 = 4
    OBVIOUS
  <2> QED BY <1>2, <2>1, <2>2
<1> QED BY <1>2, <1>3, <1>6, <1>7, <1>8, <1>9

-----------------------------------------------------------------------------
(***************************************************************************)
(* Types, and where the rows are, for any number of runners.               *)
(***************************************************************************)

\* The CHECK values that earlier releases lack are among those the helpers add.
LEMMA Values ==
  /\ {"needs_info", "briefing_ready", "withdrawn_fallback", "podcast", "study_guide", "fallback"}
        \subseteq AllValues
  /\ ValuesOf("jobs") \subseteq AllValues
<1>1. /\ <<"jobs", "needs_info">> \in ToSet(Helpers) /\ <<"jobs", "briefing_ready">> \in ToSet(Helpers)
      /\ <<"jobs", "withdrawn_fallback">> \in ToSet(Helpers)
      /\ <<"background_tasks", "podcast">> \in ToSet(Helpers)
      /\ <<"background_tasks", "study_guide">> \in ToSet(Helpers)
      /\ <<"view_prefs", "fallback">> \in ToSet(Helpers)
  BY DEF Helpers, ToSet
<1>2. \A h \in ToSet(Helpers) : ValuesOf(h[1]) \subseteq AllValues /\ h[2] \in ValuesOf(h[1])
  BY DEF AllValues, ValuesOf
<1>3. ASSUME NEW t, NEW x, <<t, x>> \in ToSet(Helpers)
      PROVE  ValuesOf(t) \subseteq AllValues /\ x \in AllValues
  BY <1>2, <1>3
<1> QED BY <1>1, <1>3

\* The databases of earlier releases have their types.
LEMMA InitialDatabases ==
  ASSUME MigInit
  PROVE  db \in Databases /\ db.rows = "jobs"
<1>1. Fresh \in Databases /\ Fresh.rows = "jobs"
  BY DEF Fresh, Databases
<1>2. Legacy \in Databases /\ Legacy.rows = "jobs"
  <2>1. {"jobs", "network_depth", "gdrive_folder_url", "onboarding_sessions", "cost_calibration"}
           \subseteq Things
    BY DEF Things
  <2> QED BY <1>1, <2>1, Values DEF Legacy, Databases
<1>3. LostStamp \in Databases /\ LostStamp.rows = "jobs"
  <2>1. Shape[HeadVersion] \subseteq Things
    BY ShapeNames, Counts
  <2> QED BY <1>1, <2>1 DEF LostStamp, Databases
<1>4. ASSUME NEW v \in 1 .. HeadVersion, NEW d \in Stamped(v)
      PROVE  d \in Databases /\ d.rows = "jobs"
  <2>1. Shape[v] \subseteq Things /\ v \in 0 .. HeadVersion
    BY ShapeNames, Counts
  <2>2. \A old \in Before(v) : old \subseteq AllValues
    BY Values DEF Before
  <2>3. Lacking(v) \subseteq SUBSET AllValues
    BY <2>2 DEF Lacking
  <2>4. WithNeedsInfo(v) \subseteq BOOLEAN
    BY Zenon DEF WithNeedsInfo
  <2>6. (v \in 7 .. HeadVersion) \in BOOLEAN
    OBVIOUS
  <2>5. PICK lacks \in Lacking(v), needsInfo \in WithNeedsInfo(v) :
          d = [version |-> v, has |-> Shape[v], lacks |-> lacks, tiers |-> v \in 7 .. HeadVersion,
               rows |-> "jobs", needsInfo |-> needsInfo, lostStamp |-> FALSE]
    BY DEF Stamped
  <2> QED BY <2>1, <2>3, <2>4, <2>5, <2>6 DEF Databases
<1> QED BY <1>1, <1>2, <1>3, <1>4 DEF MigInit

\* They are typed and the rows are in their table at the start.
LEMMA LockedInit == MigInit => MigTypes /\ Locked
<1> SUFFICES ASSUME MigInit PROVE MigTypes /\ Locked
  OBVIOUS
<1>1. Idle \in Progress
  BY Counts DEF Idle, Progress
<1>2. MigTypes
  BY <1>1, InitialDatabases, MigrationsAssumption DEF MigInit, MigTypes
<1>3. Locked
  <2>1. \A r \in Runners : writer # r /\ runner[r].pc = "off"
    BY MigrationsAssumption DEF MigInit, Idle
  <2> QED BY <2>1, InitialDatabases DEF Locked
<1> QED BY <1>2, <1>3

\* A statement leaves what has a name.
LEMMA EffectNames ==
  ASSUME NEW w \in 1 .. HeadVersion, NEW i \in 1 .. Len(Script[w]), NEW has \in SUBSET Things
  PROVE  Effect(Script[w][i], has) \in SUBSET Things
BY ScriptsAreProper DEF Effect, Proper

\* The columns a rebuild puts back have names.
LEMMA LaterNames ==
  ASSUME NEW table
  PROVE  LaterColumns(table) \subseteq {"company_tier"}
BY DEF LaterColumns

\* A runner's progress after a step, whichever fields it sets.
Advanced(next, r, pc, version, stmt, helper) ==
    /\ next \in [Runners -> Progress]
    /\ next[r].pc = pc /\ next[r].version = version
    /\ next[r].stmt = stmt /\ next[r].helper = helper
    /\ \A s \in Runners \ {r} : next[s] = runner[s]

\* What each action makes of the runner that takes it; BeginRebuild and a
\* statement of the bridge leave it where it is.
LEMMA RunnerMoves ==
  ASSUME MigTypes, NEW r \in Runners,
         runner[r].pc = "script" => runner[r].version < HeadVersion,
         runner[r].pc = "infer" => runner[r].version = 0
  PROVE  /\ Boot(r) => Advanced(runner', r, "read", runner[r].version, runner[r].stmt, runner[r].helper)
         /\ ReadVersion(r) => Advanced(runner', r,
                             (IF db.version = NoVersion THEN "infer" ELSE "next"),
                             (IF db.version = NoVersion THEN 0 ELSE db.version), runner[r].stmt, runner[r].helper)
         /\ StampBaseline(r) => Advanced(runner', r,
                             "next", Baseline, runner[r].stmt, runner[r].helper)
         /\ BeginScript(r) => Advanced(runner', r, "script", runner[r].version, 1, runner[r].helper)
         /\ Statement(r) => Advanced(runner', r,
                             "script", runner[r].version, runner[r].stmt + 1, runner[r].helper)
         /\ CommitScript(r) => Advanced(runner', r,
                             "next", runner[r].version + 1, runner[r].stmt, runner[r].helper)
         /\ ScriptFails(r) => Advanced(runner', r, "off", 0, 1, 1)
         /\ ScriptsDone(r) => Advanced(runner', r, "helper", runner[r].version, runner[r].stmt, 1)
         /\ HelperSkips(r) => Advanced(runner', r,
                             "helper", runner[r].version, runner[r].stmt, runner[r].helper + 1)
         /\ TightenRefuses(r) => Advanced(runner', r, "off", 0, 1, 1)
         /\ RenameTable(r) => Advanced(runner', r,
                             "renamed", runner[r].version, runner[r].stmt, runner[r].helper)
         /\ CommitRebuild(r) => Advanced(runner', r,
                             (IF runner[r].version < HeadVersion THEN "infer" ELSE "helper"),
                             runner[r].version, runner[r].stmt, runner[r].helper)
         /\ HelpersDone(r) => Advanced(runner', r, "off", 0, 1, 1)
         /\ MigKill(r) => Advanced(runner', r, "off", 0, 1, 1)
         /\ BridgeStep(r) => runner' = runner \/ Advanced(runner', r,
                             "helper", 0, runner[r].stmt, runner[r].helper)
<1>1. runner \in [Runners -> Progress] /\ db.version \in 0 .. HeadVersion \cup {NoVersion}
  BY DEF MigTypes, Databases
<1>0. Idle \in Progress /\ Idle.pc = "off" /\ Idle.version = 0 /\ Idle.stmt = 1 /\ Idle.helper = 1
  BY Counts DEF Idle, Progress
<1>2. ASSUME Boot(r)
      PROVE  Advanced(runner', r, "read", runner[r].version, runner[r].stmt, runner[r].helper)
  BY <1>2, <1>1 DEF Boot, Go, Progress, Advanced
<1>3. ASSUME ReadVersion(r)
      PROVE  Advanced(runner', r, (IF db.version = NoVersion THEN "infer" ELSE "next"),
               (IF db.version = NoVersion THEN 0 ELSE db.version), runner[r].stmt, runner[r].helper)
  <2> DEFINE p == [[runner[r] EXCEPT !.pc = IF db.version = NoVersion THEN "infer" ELSE "next"]
                    EXCEPT !.version = IF db.version = NoVersion THEN 0 ELSE db.version]
  <2>1. runner' = [runner EXCEPT ![r] = p]
    BY <1>3, <1>1 DEF ReadVersion, Progress
  <2>3. runner[r] \in Progress /\ (IF db.version = NoVersion THEN 0 ELSE db.version) \in 0 .. HeadVersion
    BY <1>1, Counts DEF Baseline
  <2>2. /\ p \in Progress /\ p.pc = (IF db.version = NoVersion THEN "infer" ELSE "next")
        /\ p.version = (IF db.version = NoVersion THEN 0 ELSE db.version)
        /\ p.stmt = runner[r].stmt /\ p.helper = runner[r].helper
    BY <2>3 DEF Progress
  <2> HIDE DEF p
  <2> QED BY <1>1, <2>1, <2>2 DEF Advanced
<1>4. ASSUME StampBaseline(r)
      PROVE  Advanced(runner', r, "next", Baseline, runner[r].stmt, runner[r].helper)
  <2> DEFINE p == [[runner[r] EXCEPT !.pc = "next"] EXCEPT !.version = Baseline]
  <2>1. runner' = [runner EXCEPT ![r] = p]
    BY <1>4, <1>1 DEF StampBaseline, Progress
  <2>3. runner[r] \in Progress /\ Baseline \in 0 .. HeadVersion
    BY <1>1, Counts DEF Baseline
  <2>2. /\ p \in Progress /\ p.pc = ("next") /\ p.version = (Baseline)
        /\ p.stmt = runner[r].stmt /\ p.helper = runner[r].helper
    BY <2>3 DEF Progress
  <2> HIDE DEF p
  <2> QED BY <1>1, <2>1, <2>2 DEF Advanced
<1>5. ASSUME BeginScript(r)
      PROVE  Advanced(runner', r, "script", runner[r].version, 1, runner[r].helper)
  <2> DEFINE p == [[runner[r] EXCEPT !.pc = "script"] EXCEPT !.stmt = 1]
  <2>1. runner' = [runner EXCEPT ![r] = p]
    BY <1>5, <1>1 DEF BeginScript, Progress
  <2>3. runner[r] \in Progress /\ 1 \in Nat \ {0}
    BY <1>1, Counts DEF Baseline
  <2>2. /\ p \in Progress /\ p.pc = ("script") /\ p.stmt = (1)
        /\ p.version = runner[r].version /\ p.helper = runner[r].helper
    BY <2>3 DEF Progress
  <2> HIDE DEF p
  <2> QED BY <1>1, <2>1, <2>2 DEF Advanced
<1>6. ASSUME Statement(r)
      PROVE  Advanced(runner', r, "script", runner[r].version, runner[r].stmt + 1, runner[r].helper)
  <2> DEFINE p == [runner[r] EXCEPT !.stmt = @ + 1]
  <2>1. runner' = [runner EXCEPT ![r] = p]
    BY <1>6, <1>1 DEF Statement, Progress
  <2>3. runner[r] \in Progress /\ runner[r].pc = "script" /\ runner[r].stmt + 1 \in Nat \ {0}
    BY <1>6, <1>1, Counts DEF Statement, In, InHelpers, Progress
  <2>2. /\ p \in Progress
        /\ p.pc = "script" /\ p.version = runner[r].version
        /\ p.stmt = runner[r].stmt + 1 /\ p.helper = runner[r].helper
    BY <2>3 DEF Progress
  <2> HIDE DEF p
  <2> QED BY <1>1, <2>1, <2>2 DEF Advanced
<1>7. ASSUME CommitScript(r)
      PROVE  Advanced(runner', r, "next", runner[r].version + 1, runner[r].stmt, runner[r].helper)
  <2> DEFINE p == [[runner[r] EXCEPT !.pc = "next"] EXCEPT !.version = runner[r].version + 1]
  <2>1. runner' = [runner EXCEPT ![r] = p]
    BY <1>7, <1>1 DEF CommitScript, Progress
  <2>3. runner[r] \in Progress /\ runner[r].version + 1 \in 0 .. HeadVersion
    BY <1>7, <1>1, Counts DEF CommitScript, In, InHelpers, Progress
  <2>2. /\ p \in Progress
        /\ p.pc = "next" /\ p.version = runner[r].version + 1
        /\ p.stmt = runner[r].stmt /\ p.helper = runner[r].helper
    BY <2>3 DEF Progress
  <2> HIDE DEF p
  <2> QED BY <1>1, <2>1, <2>2 DEF Advanced
<1>8. ASSUME ScriptFails(r)
      PROVE  Advanced(runner', r, "off", 0, 1, 1)
  BY <1>8, <1>0, <1>1 DEF ScriptFails, Advanced
<1>9. ASSUME ScriptsDone(r)
      PROVE  Advanced(runner', r, "helper", runner[r].version, runner[r].stmt, 1)
  <2> DEFINE p == [[runner[r] EXCEPT !.pc = "helper"] EXCEPT !.helper = 1]
  <2>1. runner' = [runner EXCEPT ![r] = p]
    BY <1>9, <1>1 DEF ScriptsDone, Progress
  <2>3. runner[r] \in Progress /\ 1 \in 1 .. Len(Helpers) + 1
    BY <1>1, Counts DEF Baseline
  <2>2. /\ p \in Progress /\ p.pc = ("helper") /\ p.helper = (1)
        /\ p.version = runner[r].version /\ p.stmt = runner[r].stmt
    BY <2>3 DEF Progress
  <2> HIDE DEF p
  <2> QED BY <1>1, <2>1, <2>2 DEF Advanced
<1>10. ASSUME HelperSkips(r)
      PROVE  Advanced(runner', r, "helper", runner[r].version, runner[r].stmt, runner[r].helper + 1)
  <2> DEFINE p == [runner[r] EXCEPT !.helper = @ + 1]
  <2>1. runner' = [runner EXCEPT ![r] = p]
    BY <1>10, <1>1 DEF HelperSkips, Progress
  <2>3. runner[r] \in Progress /\ runner[r].pc = "helper" /\ runner[r].helper + 1 \in 1 .. Len(Helpers) + 1
    BY <1>10, <1>1, Counts DEF HelperSkips, In, InHelpers, Progress
  <2>2. /\ p \in Progress
        /\ p.pc = "helper" /\ p.version = runner[r].version
        /\ p.stmt = runner[r].stmt /\ p.helper = runner[r].helper + 1
    BY <2>3 DEF Progress
  <2> HIDE DEF p
  <2> QED BY <1>1, <2>1, <2>2 DEF Advanced
<1>11. ASSUME TightenRefuses(r)
      PROVE  Advanced(runner', r, "off", 0, 1, 1)
  BY <1>11, <1>0, <1>1 DEF TightenRefuses, Advanced
<1>12. ASSUME RenameTable(r)
      PROVE  Advanced(runner', r, "renamed", runner[r].version, runner[r].stmt, runner[r].helper)
  BY <1>12, <1>1 DEF RenameTable, Go, Progress, Advanced
<1>13. ASSUME CommitRebuild(r)
      PROVE  Advanced(runner', r, (IF runner[r].version < HeadVersion THEN "infer" ELSE "helper"),
               runner[r].version, runner[r].stmt, runner[r].helper)
  BY <1>13, <1>1 DEF CommitRebuild, Go, Progress, Advanced
<1>14. ASSUME HelpersDone(r)
      PROVE  Advanced(runner', r, "off", 0, 1, 1)
  BY <1>14, <1>0, <1>1 DEF HelpersDone, Advanced
<1>15. ASSUME MigKill(r)
      PROVE  Advanced(runner', r, "off", 0, 1, 1)
  BY <1>15, <1>0, <1>1 DEF MigKill, Advanced
<1>16. ASSUME BridgeStep(r)
      PROVE  runner' = runner \/ Advanced(runner', r, "helper", 0, runner[r].stmt, runner[r].helper)
  BY <1>16, <1>1, Counts DEF BridgeStep, In, Go, Progress, Advanced
<1> QED BY <1>2, <1>3, <1>4, <1>5, <1>6, <1>7, <1>8, <1>9, <1>10, <1>11, <1>12, <1>13, <1>14,
           <1>15, <1>16

\* The next version is one, too.
LEMMA NextVersion ==
  ASSUME NEW v \in 0 .. HeadVersion, v < HeadVersion
  PROVE  v + 1 \in 1 .. HeadVersion /\ v + 1 \in 0 .. HeadVersion /\ v \in 0 .. HeadVersion - 1
BY Counts

\* A step of one runner keeps the types and the rows in their table.
LEMMA LockedStep ==
  ASSUME MigTypes, Locked, NEW r \in Runners, Boot(r) \/ Runs(r) \/ MigKill(r)
  PROVE  MigTypes' /\ Locked'
<1> USE MigrationsAssumption
<1>1. /\ runner[r].pc = "script" => runner[r].version < HeadVersion
      /\ runner[r].pc = "infer" => runner[r].version = 0
  BY DEF Locked
<1>2. CASE Boot(r)
  <2>1. Advanced(runner', r, "read", runner[r].version, runner[r].stmt, runner[r].helper)
    BY <1>1, <1>2, RunnerMoves
  <2>2. MigTypes'
    BY <1>1, <1>2, <2>1, Counts DEF MigTypes, Advanced, Boot, Bounds, NoTransaction
  <2> QED BY <1>2, <2>1, <2>2 DEF Locked, MigTypes, Databases, Advanced, In, Boot, Bounds,
             NoTransaction
<1>3. CASE ReadVersion(r)
  <2>1. Advanced(runner', r, (IF db.version = NoVersion THEN "infer" ELSE "next"),
               (IF db.version = NoVersion THEN 0 ELSE db.version), runner[r].stmt, runner[r].helper)
    BY <1>1, <1>3, RunnerMoves
  <2>2. MigTypes'
    BY <1>1, <1>3, <2>1, Counts DEF MigTypes, Advanced, ReadVersion, Bounds, NoTransaction
  <2> QED BY <1>3, <2>1, <2>2 DEF Locked, MigTypes, Databases, Advanced, In, ReadVersion, Bounds,
             NoTransaction
<1>4. CASE StampBaseline(r)
  <2>1. Advanced(runner', r, "next", Baseline, runner[r].stmt, runner[r].helper)
    BY <1>1, <1>4, RunnerMoves
  <2>2. MigTypes'
    BY <1>1, <1>4, <2>1, Counts DEF MigTypes, Databases, Advanced, StampBaseline, Bounds,
       NoTransaction, Baseline
  <2> QED BY <1>4, <2>1, <2>2 DEF Locked, MigTypes, Databases, Advanced, In, StampBaseline,
             Bounds, NoTransaction, Baseline
<1>5. CASE BeginScript(r)
  <2>1. Advanced(runner', r, "script", runner[r].version, 1, runner[r].helper)
    BY <1>1, <1>5, RunnerMoves
  <2>2. MigTypes'
    BY <1>1, <1>5, <2>1, Counts DEF MigTypes, Advanced, BeginScript, Bounds
  <2> QED BY <1>5, <2>1, <2>2 DEF Locked, MigTypes, Databases, Advanced, In, BeginScript, Bounds
<1>6. CASE Statement(r)
  <2>1. Advanced(runner', r, "script", runner[r].version, runner[r].stmt + 1, runner[r].helper)
    BY <1>1, <1>6, RunnerMoves
  <2>3. Effect(ScriptOf(r)[runner[r].stmt], work.has) \in SUBSET Things
    <3>1. /\ runner[r].version + 1 \in 1 .. HeadVersion
          /\ runner[r].stmt \in 1 .. Len(Script[runner[r].version + 1])
      <4>1. /\ runner[r].version \in 0 .. HeadVersion /\ runner[r].version < HeadVersion
            /\ runner[r].stmt \in Nat \ {0} /\ runner[r].stmt <= Len(Script[runner[r].version + 1])
        BY <1>6, <1>1 DEF Statement, In, ScriptOf, MigTypes, Progress
      <4>2. runner[r].version + 1 \in 1 .. HeadVersion
        BY <4>1, NextVersion
      <4>3. Len(Script[runner[r].version + 1]) \in Nat
        BY <4>2, ScriptsAreProper
      <4> QED BY <4>1, <4>2, <4>3
    <3> QED BY <3>1, EffectNames DEF ScriptOf, MigTypes, Databases
  <2>2. MigTypes'
    BY <1>1, <1>6, <2>1, <2>3, Counts DEF MigTypes, Databases, Advanced, Statement, Bounds, Written
  <2> QED BY <1>6, <2>1, <2>2, <2>3 DEF Locked, MigTypes, Databases, Advanced, In, Statement,
             Bounds, Written
<1>7. CASE CommitScript(r)
  <2>1. Advanced(runner', r, "next", runner[r].version + 1, runner[r].stmt, runner[r].helper)
    BY <1>1, <1>7, RunnerMoves
  <2>3. db' \in Databases /\ db'.rows = work.rows
    <3>1. runner[r].version + 1 \in 0 .. HeadVersion /\ work \in Databases
      <4>1. runner[r].version \in 0 .. HeadVersion /\ runner[r].version < HeadVersion
        BY <1>7, <1>1 DEF CommitScript, In, MigTypes, Progress
      <4> QED BY <4>1, NextVersion DEF MigTypes
    <3> QED BY <1>7, <3>1 DEF CommitScript, Databases
  <2>2. MigTypes'
    BY <1>1, <1>7, <2>1, <2>3, Counts DEF MigTypes, Advanced, CommitScript, Bounds
  <2> QED BY <1>7, <2>1, <2>2, <2>3 DEF Locked, MigTypes, Databases, Advanced, In, CommitScript,
             Bounds
<1>8. CASE ScriptFails(r)
  <2>1. Advanced(runner', r, "off", 0, 1, 1)
    BY <1>1, <1>8, RunnerMoves
  <2>2. MigTypes'
    BY <1>1, <1>8, <2>1, Counts DEF MigTypes, Advanced, ScriptFails
  <2> QED BY <1>8, <2>1, <2>2 DEF Locked, MigTypes, Databases, Advanced, In, ScriptFails
<1>9. CASE ScriptsDone(r)
  <2>1. Advanced(runner', r, "helper", runner[r].version, runner[r].stmt, 1)
    BY <1>1, <1>9, RunnerMoves
  <2>2. MigTypes'
    BY <1>1, <1>9, <2>1, Counts DEF MigTypes, Advanced, ScriptsDone, Bounds, NoTransaction
  <2> QED BY <1>9, <2>1, <2>2 DEF Locked, MigTypes, Databases, Advanced, In, ScriptsDone, Bounds,
             NoTransaction
<1>10. CASE HelperSkips(r)
  <2>1. Advanced(runner', r, "helper", runner[r].version, runner[r].stmt, runner[r].helper + 1)
    BY <1>1, <1>10, RunnerMoves
  <2>2. MigTypes'
    BY <1>1, <1>10, <2>1, Counts DEF MigTypes, Advanced, HelperSkips, Bounds, NoTransaction,
       InHelpers
  <2> QED BY <1>10, <2>1, <2>2 DEF Locked, MigTypes, Databases, Advanced, In, HelperSkips,
             Bounds, NoTransaction, InHelpers
<1>11. CASE TightenRefuses(r)
  <2>1. Advanced(runner', r, "off", 0, 1, 1)
    BY <1>1, <1>11, RunnerMoves
  <2>2. MigTypes'
    BY <1>1, <1>11, <2>1, Counts DEF MigTypes, Advanced, TightenRefuses, NoTransaction, InHelpers
  <2> QED BY <1>11, <2>1, <2>2 DEF Locked, MigTypes, Databases, Advanced, In, TightenRefuses,
             NoTransaction, InHelpers
<1>12. CASE RenameTable(r)
  <2>1. Advanced(runner', r, "renamed", runner[r].version, runner[r].stmt, runner[r].helper)
    BY <1>1, <1>12, RunnerMoves
  <2>2. MigTypes'
    BY <1>1, <1>12, <2>1, Counts DEF MigTypes, Databases, Advanced, RenameTable, Bounds, Written
  <2> QED BY <1>12, <2>1, <2>2 DEF Locked, MigTypes, Databases, Advanced, In, RenameTable,
             Bounds, Written
<1>13. CASE CommitRebuild(r)
  <2>1. Advanced(runner', r, (IF runner[r].version < HeadVersion THEN "infer" ELSE "helper"),
               runner[r].version, runner[r].stmt, runner[r].helper)
    BY <1>1, <1>13, RunnerMoves
  <2>3. Rebuilt(Table(r)) \in Databases /\ Rebuilt(Table(r)).rows = "jobs"
    <3>1. work \in Databases /\ LaterColumns(Table(r)) \subseteq Things /\ JobsDDL \subseteq Things
      BY LaterNames DEF MigTypes, Things, JobsDDL
    <3> QED BY <3>1 DEF Rebuilt, Databases
  <2>4. /\ runner'[r].pc \in {"infer", "helper"} /\ runner'[r].version \in {0, HeadVersion}
        /\ runner'[r].pc = "infer" => runner'[r].version = 0
    BY <1>13, <2>1, Counts DEF CommitRebuild, In, Locked, Advanced
  <2>2. MigTypes'
    BY <1>1, <1>13, <2>1, <2>3, Counts DEF MigTypes, Advanced, CommitRebuild, Bounds
  <2>5. \A s \in Runners : writer' # s
    BY <1>13 DEF CommitRebuild
  <2>6. db'.rows = "jobs" /\ \A s \in Runners \ {r} : runner'[s] = runner[s] /\ writer # s
    BY <1>13, <2>1, <2>3 DEF CommitRebuild, Advanced
  <2> QED BY <2>2, <2>4, <2>5, <2>6 DEF Locked
<1>14. CASE HelpersDone(r)
  <2>1. Advanced(runner', r, "off", 0, 1, 1)
    BY <1>1, <1>14, RunnerMoves
  <2>2. MigTypes'
    BY <1>1, <1>14, <2>1, Counts DEF MigTypes, Advanced, HelpersDone, Bounds, NoTransaction
  <2> QED BY <1>14, <2>1, <2>2 DEF Locked, MigTypes, Databases, Advanced, In, HelpersDone,
             Bounds, NoTransaction
<1>15. CASE MigKill(r)
  <2>1. Advanced(runner', r, "off", 0, 1, 1)
    BY <1>1, <1>15, RunnerMoves
  <2>2. MigTypes'
    BY <1>1, <1>15, <2>1, Counts DEF MigTypes, Advanced, MigKill
  <2> QED BY <1>15, <2>1, <2>2 DEF Locked, MigTypes, Databases, Advanced, In, MigKill
<1>16. CASE BridgeStep(r)
  <2>1. MigTypes'
    <3>1. Bridge(db.has) \in SUBSET Things
      BY DEF Bridge, MigTypes, Databases, Things
    <3>2. runner' \in [Runners -> Progress]
      BY <1>1, <1>16, RunnerMoves DEF Advanced, MigTypes
    <3> QED BY <1>16, <3>1, <3>2 DEF MigTypes, Databases, BridgeStep, Bounds, NoTransaction
  <2>2. CASE runner' = runner /\ writer' = writer /\ work' = work /\ db'.rows = db.rows
    BY <2>1, <2>2 DEF Locked
  <2>3. CASE /\ Advanced(runner', r, "helper", 0, runner[r].stmt, runner[r].helper)
             /\ writer = NoRunner /\ writer' = r /\ work' = db /\ db' = db
    BY <2>1, <2>3 DEF Locked, MigTypes, Advanced
  <2>4. writer = NoRunner /\ runner[r].pc = "infer" /\ db \in Databases
    BY <1>16 DEF BridgeStep, In, MigTypes
  <2>5. CASE "loose_fingerprint" \in db.has /\ "not_selected" \in db.lacks
    <3>1. Advanced(runner', r, "helper", 0, runner[r].stmt, runner[r].helper)
      <4>1. runner'[r].pc = "helper"
        BY <1>16, <2>5 DEF BridgeStep, Go, MigTypes, Progress
      <4>2. runner' # runner
        BY <4>1, <2>4
      <4> QED BY <1>1, <1>16, <4>2, RunnerMoves
    <3> QED BY <1>16, <2>3, <2>4, <2>5, <3>1 DEF BridgeStep
  <2>6. CASE ~("loose_fingerprint" \in db.has /\ "not_selected" \in db.lacks)
    BY <1>16, <2>2, <2>4, <2>6 DEF BridgeStep, NoTransaction, Databases
  <2> QED BY <2>1, <2>5, <2>6
<1>17. CASE BeginRebuild(r)
  BY <1>17 DEF BeginRebuild, InHelpers, In, Bounds, MigTypes, Databases, Locked
<1> QED BY <1>2, <1>3, <1>4, <1>5, <1>6, <1>7, <1>8, <1>9, <1>10, <1>11, <1>12, <1>13, <1>14,
           <1>15, <1>16, <1>17 DEF Runs

\* MigSpec without its fairness: whichever of the runners ever go on.
Migrating == MigInit /\ [][MigNext]_migVars

\* The types and the rows' place are an invariant.
LEMMA LockedInv == Migrating => [](MigTypes /\ Locked)
<1>1. MigInit => MigTypes /\ Locked
  BY LockedInit
<1>2. (MigTypes /\ Locked) /\ [MigNext]_migVars => (MigTypes /\ Locked)'
  <2> SUFFICES ASSUME MigTypes, Locked, [MigNext]_migVars PROVE (MigTypes /\ Locked)'
    OBVIOUS
  <2>1. CASE MigNext
    BY <2>1, LockedStep DEF MigNext
  <2>2. CASE UNCHANGED migVars
    BY <2>2 DEF migVars, MigTypes, Locked
  <2> QED BY <2>1, <2>2
<1> QED BY <1>1, <1>2, PTL DEF Migrating

\* The committed database, the copy a transaction works on, the write lock and
\* every runner keep their types, for any number of runners and whatever bound
\* on their stops and starts.
THEOREM MigTypeCorrect == MigSpec => []MigTypeOK
<1>1. MigTypes => MigTypeOK
  BY DEF MigTypes, Databases, Progress, MigTypeOK
<1> QED BY <1>1, LockedInv, PTL DEF MigSpec, Migrating

\* Wherever a rebuild is cut off, and however many runners there are, the
\* committed rows are in the table and not in the renamed shell
\* (migrate.py:276-287).
THEOREM RowsAreKept == MigSpec => []RowsStayInTable
<1>1. Locked => RowsStayInTable
  BY DEF Locked, RowsStayInTable
<1> QED BY <1>1, LockedInv, PTL DEF MigSpec, Migrating

-----------------------------------------------------------------------------
(***************************************************************************)
(* One runner at a time: a stamp means its schema, and only climbs.        *)
(***************************************************************************)

\* A statement of a later script makes of a schema, and of what is beyond it,
\* the same.
LEMMA LaterStatement ==
  ASSUME NEW v \in 0 .. HeadVersion - 1, v # 0, NEW k \in 1 .. Len(Script[v + 1]), NEW has,
         Between(Midway(v, k), has)
  PROVE  Between(Midway(v, k + 1), Effect(Script[v + 1][k], has))
<1> DEFINE st == Script[v + 1][k]
           mid == Midway(v, k)
<1>1. v + 1 \in 1 .. HeadVersion /\ v + 1 # 1
  BY Counts
<1>2. Proper(v + 1, st)
  BY <1>1, ScriptsAreProper
<1>3. st.op = "create" => Brings(st) = {st.thing} /\ Takes(st) = {}
  BY <1>1, <1>2 DEF Proper, Takes
<1>4. Midway(v, k + 1) = (mid \ Takes(st)) \cup Brings(st)
  BY MidwayNext
<1>5. Between(mid, has)
  OBVIOUS
<1> HIDE DEF st, mid
<1>6. Effect(st, has) = (has \ Takes(st)) \cup Brings(st)
  BY <1>3 DEF Effect
<1>7. Between((mid \ Takes(st)) \cup Brings(st), (has \ Takes(st)) \cup Brings(st))
  BY <1>5 DEF Between
<1> QED BY <1>4, <1>6, <1>7 DEF st

\* A statement of the first script fills in what is missing.
LEMMA FirstStatement ==
  ASSUME NEW k \in 1 .. 3, NEW has, has \in {Midway(0, k), Midway(0, k) \cup Bridged}
  PROVE  Effect(Script[1][k], has) \in {Midway(0, k + 1), Midway(0, k + 1) \cup Bridged}
<1>1. Script[1] = Initial
  BY ScriptTable
<1>2. Midway(0, 1) = {} /\ Midway(0, 2) = {"jobs"} \cup JobsDDL
  BY FirstScript
<1>3. Midway(0, 3) = Bridged /\ Midway(0, 4) = Bridged \cup {"notifications"}
  BY FirstScript
<1>4. CASE k = 1
  <2>1. Effect(Initial[1], {}) = {"jobs"} \cup JobsDDL
    BY DEF Initial, Effect, Brings, Takes, Create
  <2>2. Effect(Initial[1], Bridged) = Bridged
    BY DEF Initial, Effect, Create, Bridged, OldTables
  <2>3. ({"jobs"} \cup JobsDDL) \cup Bridged = Bridged /\ 1 + 1 = 2 /\ {} \cup Bridged = Bridged
    BY DEF Bridged, OldTables, JobsDDL
  <2> QED BY <1>1, <1>2, <1>4, <2>1, <2>2, <2>3
<1>5. CASE k = 2
  <2>1. Effect(Initial[2], {"jobs"} \cup JobsDDL) = Bridged
    BY DEF Initial, Effect, Brings, Takes, Create, Bridged, OldTables, JobsDDL
  <2>2. Effect(Initial[2], Bridged) = Bridged
    BY DEF Initial, Effect, Create, Bridged, OldTables
  <2>3. ({"jobs"} \cup JobsDDL) \cup Bridged = Bridged /\ 2 + 1 = 3
    BY DEF Bridged, OldTables, JobsDDL
  <2> QED BY <1>1, <1>2, <1>3, <1>5, <2>1, <2>2, <2>3
<1>6. CASE k = 3
  <2>1. Effect(Initial[3], Bridged) = Bridged \cup {"notifications"}
    BY DEF Initial, Effect, Brings, Takes, Create, Bridged, OldTables
  <2>2. Bridged \cup Bridged = Bridged /\ 3 + 1 = 4
    OBVIOUS
  <2> QED BY <1>1, <1>3, <1>6, <2>1, <2>2
<1> QED BY <1>4, <1>5, <1>6

\* So a statement keeps a script's database on its way.
LEMMA StatementSoFar ==
  ASSUME NEW v \in 0 .. HeadVersion - 1, NEW k \in 1 .. Len(Script[v + 1]), NEW has,
         ScriptSoFar(v, k, has)
  PROVE  ScriptSoFar(v, k + 1, Effect(Script[v + 1][k], has))
<1>1. CASE v = 0
  <2>1. Script[v + 1] = Script[1] /\ Len(Script[1]) = 3
    BY <1>1, FirstScript
  <2>2. k \in 1 .. 3 /\ has \in {Midway(0, k), Midway(0, k) \cup Bridged}
    BY <1>1, <2>1 DEF ScriptSoFar
  <2> QED BY <1>1, <2>1, <2>2, FirstStatement DEF ScriptSoFar
<1>2. CASE v # 0
  BY <1>2, LaterStatement DEF ScriptSoFar
<1> QED BY <1>1, <1>2

\* It starts from what the stamp says, and ends at what the next one says.
LEMMA ScriptBegins ==
  ASSUME NEW v \in 0 .. HeadVersion - 1, NEW d, d.version = v, Coherent(d)
  PROVE  ScriptSoFar(v, 1, d.has)
<1>1. CASE v = 0
  BY <1>1, FirstScript DEF Coherent, ScriptSoFar
<1>2. CASE v # 0
  <2>1. v \in 1 .. HeadVersion
    BY <1>2, Counts
  <2> QED BY <1>2, <2>1, MidwayEnds DEF Coherent, ScriptSoFar
<1> QED BY <1>1, <1>2

\* Past its last statement a script has built the next version's schema.
LEMMA ScriptEnds ==
  ASSUME NEW v \in 0 .. HeadVersion - 1, NEW has,
         ScriptSoFar(v, Len(Script[v + 1]) + 1, has)
  PROVE  Between(Shape[v + 1], has)
<1>1. CASE v = 0
  <2>1. Script[v + 1] = Script[1] /\ Len(Script[1]) + 1 = 4 /\ v + 1 = 1
    BY <1>1, FirstScript
  <2>2. has \in {Midway(0, 4), Midway(0, 4) \cup Bridged}
    BY <1>1, <2>1 DEF ScriptSoFar
  <2>3. Midway(0, 4) = Bridged \cup {"notifications"} /\ Shape[1] = Bridged \cup {"notifications"}
    BY FirstScript
  <2> QED BY <2>1, <2>2, <2>3 DEF Between
<1>2. CASE v # 0
  BY <1>2, MidwayEnds DEF ScriptSoFar
<1> QED BY <1>1, <1>2

\* The bridge leads from the tables of v0.10 to the bridged ones, and no
\* further; neither is what the baseline takes for the head's schema.
LEMMA BridgeKeeps ==
  ASSUME NEW has, Unstamped(has), "jobs" \in has
  PROVE  /\ Unstamped(Bridge(has))
         /\ Bridge(has) = has => has = Bridged
<1>1. OldTables \subseteq has /\ has \subseteq Bridged \cup {"cost_calibration"}
  BY DEF Unstamped
<1> QED BY <1>1 DEF Unstamped, Bridge, Bridged, OldTables

\* An unstamped database is baselined at 0, as empty or as bridged.
LEMMA BaselineIsZero ==
  ASSUME Unstamped(db.has), ~Drifted
  PROVE  Baseline = 0 /\ db.has \in {{}, Bridged}
<1>1. "user_keys" \notin db.has
  BY DEF Unstamped, Bridged, OldTables
<1>2. ~Equilibrium
  BY <1>1 DEF Equilibrium
<1>3. CASE db.has = {}
  BY <1>2, <1>3 DEF Baseline
<1>4. CASE db.has # {}
  <2>1. "jobs" \in db.has
    BY <1>4 DEF Unstamped, OldTables
  <2>2. Bridge(db.has) = db.has
    BY <1>2, <2>1 DEF Drifted
  <2> QED BY <1>2, <2>1, <2>2, BridgeKeeps DEF Baseline
<1> QED BY <1>3, <1>4

\* A rebuild of the jobs table, of an unstamped database and of the head's,
\* brings back no column but retired ones.
LEMMA RebuildKeeps ==
  ASSUME NEW table, work \in Databases
  PROVE  /\ Rebuilt(table).version = work.version /\ Rebuilt(table).lostStamp = work.lostStamp
         /\ work.version = NoVersion /\ "jobs" \in work.has /\ Unstamped(work.has)
               => Unstamped(Rebuilt(table).has)
         /\ work.version = HeadVersion /\ Between(Shape[HeadVersion], work.has)
               => Between(Shape[HeadVersion], Rebuilt(table).has)
<1>1. /\ Rebuilt(table).version = work.version /\ Rebuilt(table).lostStamp = work.lostStamp
      /\ Rebuilt(table).has = IF table = "jobs"
              THEN (work.has \ {"company_tier"}) \cup JobsDDL \cup LaterColumns(table) ELSE work.has
  BY DEF Rebuilt, Databases
<1>2. ASSUME table = "jobs", work.version = NoVersion, "jobs" \in work.has, Unstamped(work.has)
      PROVE  Unstamped(Rebuilt(table).has)
  <2>1. LaterColumns(table) = {}
    BY <1>2 DEF LaterColumns
  <2>2. Rebuilt(table).has = (work.has \ {"company_tier"}) \cup JobsDDL
    BY <1>1, <1>2, <2>1
  <2>3. OldTables \subseteq work.has /\ work.has \subseteq Bridged \cup {"cost_calibration"}
    BY <1>2 DEF Unstamped
  <2> QED BY <2>2, <2>3 DEF Unstamped, Bridged, OldTables, JobsDDL
<1>3. ASSUME table = "jobs", work.version = HeadVersion, Between(Shape[HeadVersion], work.has)
      PROVE  Between(Shape[HeadVersion], Rebuilt(table).has)
  <2>1. "company_tier" \in LaterColumns(table) /\ LaterColumns(table) \subseteq {"company_tier"}
    <3>1. 7 \in 1 .. HeadVersion /\ 7 <= work.version /\ work.version # NoVersion
      BY <1>3, Counts, MigrationsAssumption
    <3>2. AddColumn("company_tier") \in ToSet(Script[7])
      BY ScriptTable DEF TuningLoop, ToSet
    <3>3. AddColumn("company_tier").thing = "company_tier"
      BY DEF AddColumn
    <3> DEFINE seen == UNION {ToSet(Script[v]) : v \in {w \in 1 .. HeadVersion :
                                work.version # NoVersion /\ w <= work.version}}
    <3>4. AddColumn("company_tier") \in seen
      BY <3>1, <3>2
    <3>5. LaterColumns(table) = {st.thing : st \in seen} \cap {"company_tier"}
      BY <1>3 DEF LaterColumns
    <3> HIDE DEF seen
    <3>6. "company_tier" \in {st.thing : st \in seen}
      BY <3>3, <3>4
    <3> QED BY <3>5, <3>6
  <2>2. Rebuilt(table).has = work.has \cup JobsDDL \cup {"company_tier"}
    BY <1>1, <1>3, <2>1
  <2>3. JobsDDL \cup {"company_tier"} \subseteq Shape[HeadVersion] \cup Retired
    BY HeadNames DEF JobsDDL, Retired
  <2> QED BY <1>3, <2>2, <2>3 DEF Between
<1> QED BY <1>1, <1>2, <1>3

\* With one runner, the databases at the start are coherent.
LEMMA StampInit == MigInit => StampInv
<1> SUFFICES ASSUME MigInit PROVE StampInv
  OBVIOUS
<1>1. NoVersion \notin 0 .. HeadVersion
  BY MigrationsAssumption, Counts
<1>2. Coherent(Fresh)
  BY <1>1, MigrationsAssumption, Counts DEF Fresh, Coherent, Unstamped
<1>3. Coherent(Legacy)
  BY <1>1, MigrationsAssumption, Counts DEF Legacy, Fresh, Coherent, Unstamped, OldTables, Bridged
<1>4. ASSUME NEW v \in 1 .. HeadVersion, NEW d \in Stamped(v)
      PROVE  Coherent(d)
  <2>1. d.version = v /\ d.has = Shape[v]
    BY DEF Stamped
  <2>2. v # NoVersion /\ v # 0
    BY <1>1, Counts
  <2> QED BY <2>1, <2>2 DEF Coherent, Between
<1>5. LostStamp.lostStamp
  BY DEF LostStamp, Fresh
<1>6. ~db.lostStamp => Coherent(db)
  BY <1>2, <1>3, <1>4, <1>5 DEF MigInit
<1>7. ASSUME NEW r \in Runners
      PROVE  Sure(r)
  <2>1. runner[r].pc = "off" /\ writer # r
    BY MigrationsAssumption DEF MigInit, Idle
  <2> QED BY <2>1 DEF Sure
<1> QED BY <1>6, <1>7 DEF StampInv

\* What setting one field of a database leaves.
LEMMA SetFields ==
  ASSUME NEW d \in Databases, NEW has, NEW version
  PROVE  /\ [d EXCEPT !.has = has].has = has /\ [d EXCEPT !.has = has].lostStamp = d.lostStamp
         /\ [d EXCEPT !.version = version].has = d.has
         /\ [d EXCEPT !.version = version].version = version
         /\ [d EXCEPT !.version = version].lostStamp = d.lostStamp
BY DEF Databases

\* A step of the only runner that is up keeps them so.
LEMMA StampStep ==
  ASSUME MigTypes, Locked, StampInv, NEW r \in Runners,
         \A s \in Runners \ {r} : runner[s].pc = "off",
         Boot(r) \/ Runs(r) \/ MigKill(r)
  PROVE  (~db.lostStamp => Coherent(db))' /\ Sure(r)'
<1>1. /\ runner[r].pc = "script" => runner[r].version < HeadVersion /\ writer = r
      /\ runner[r].pc = "infer" => runner[r].version = 0
      /\ writer \in {r, NoRunner} /\ r # NoRunner
      /\ writer = r => runner[r].pc \in {"script", "helper", "renamed"}
      /\ runner[r].pc \in {"helper", "renamed"} => runner[r].version \in {0, HeadVersion}
  BY MigrationsAssumption DEF Locked, MigTypes
<1>2. Sure(r) /\ (~db.lostStamp => Coherent(db))
  BY DEF StampInv
<1>4. HeadVersion # 0 /\ 0 < HeadVersion /\ ~(HeadVersion < HeadVersion) /\ HeadVersion \in 1 .. HeadVersion
  BY Counts
<1>5. NoVersion \notin 0 .. HeadVersion /\ runner[r] \in Progress /\ db \in Databases /\ work \in Databases
  BY MigrationsAssumption, Counts DEF MigTypes
<1>6. ASSUME Advanced(runner', r, "off", 0, 1, 1), db' = db
      PROVE  (~db.lostStamp => Coherent(db))' /\ Sure(r)'
  BY <1>2, <1>6 DEF Advanced, Sure
<1>7. CASE ScriptFails(r)
  <2>1. Advanced(runner', r, "off", 0, 1, 1)
    BY <1>1, <1>7, RunnerMoves
  <2> QED BY <1>6, <1>7, <2>1 DEF ScriptFails
<1>8. CASE TightenRefuses(r)
  <2>1. Advanced(runner', r, "off", 0, 1, 1)
    BY <1>1, <1>8, RunnerMoves
  <2> QED BY <1>6, <1>8, <2>1 DEF TightenRefuses
<1>9. CASE HelpersDone(r)
  <2>1. Advanced(runner', r, "off", 0, 1, 1)
    BY <1>1, <1>9, RunnerMoves
  <2> QED BY <1>6, <1>9, <2>1 DEF HelpersDone
<1>10. CASE MigKill(r)
  <2>1. Advanced(runner', r, "off", 0, 1, 1)
    BY <1>1, <1>10, RunnerMoves
  <2> QED BY <1>6, <1>10, <2>1 DEF MigKill
<1>11. CASE Boot(r)
  <2>1. Advanced(runner', r, "read", runner[r].version, runner[r].stmt, runner[r].helper)
    BY <1>1, <1>11, RunnerMoves
  <2> QED BY <1>2, <1>11, <2>1 DEF Boot, Advanced, Sure
<1>12. CASE ReadVersion(r)
  <2>1. Advanced(runner', r, (IF db.version = NoVersion THEN "infer" ELSE "next"), 
               (IF db.version = NoVersion THEN 0 ELSE db.version), runner[r].stmt, runner[r].helper)
    BY <1>1, <1>12, RunnerMoves
  <2> QED BY <1>2, <1>12, <2>1 DEF ReadVersion, Advanced, Sure
<1>13. CASE BridgeStep(r)
  <2>1. /\ db.version = NoVersion
        /\ runner[r].version = 0 /\ writer = NoRunner /\ runner[r].pc = "infer"
    BY <1>1, <1>2, <1>13 DEF BridgeStep, In, Sure
  <2>2. CASE "loose_fingerprint" \in db.has /\ "not_selected" \in db.lacks
    <3>1. /\ runner'[r].pc = "helper"
          /\ runner'[r].version = 0 /\ work' = db /\ writer' = r /\ db' = db
          /\ "jobs" \in db.has
      BY <1>13, <1>5, <2>1, <2>2 DEF BridgeStep, Drifted, Go, MigTypes, Progress
    <3> QED BY <1>2, <1>4, <2>1, <3>1 DEF Sure
  <2>3. CASE ~("loose_fingerprint" \in db.has /\ "not_selected" \in db.lacks)
    <3>1. runner' = runner /\ writer' = writer /\ db' = [db EXCEPT !.has = Bridge(db.has)]
      BY <1>13, <2>3 DEF BridgeStep, NoTransaction
    <3>2. db'.version = NoVersion /\ db'.lostStamp = db.lostStamp /\ db'.has = Bridge(db.has)
      BY <1>5, <2>1, <3>1 DEF Databases
    <3>3. "jobs" \in db.has
      BY <1>13 DEF BridgeStep, Drifted
    <3>4. ~db.lostStamp => Unstamped(db'.has)
      BY <1>2, <2>1, <3>2, <3>3, BridgeKeeps DEF Coherent
    <3>5. (~db.lostStamp => Coherent(db))'
      BY <1>5, <3>2, <3>4, Counts, MigrationsAssumption DEF Coherent
    <3>6. Sure(r)'
      BY <1>1, <2>1, <3>1, <3>2 DEF Sure
    <3> QED BY <3>5, <3>6
  <2> QED BY <2>2, <2>3
<1>14. CASE StampBaseline(r)
  <2>1. Advanced(runner', r, "next", Baseline, runner[r].stmt, runner[r].helper)
    BY <1>1, <1>14, RunnerMoves
  <2>2. db' = [db EXCEPT !.version = Baseline] /\ writer' = writer /\ writer = NoRunner /\ ~Drifted
    BY <1>14 DEF StampBaseline, NoTransaction
  <2>3. db'.version = Baseline /\ db'.lostStamp = db.lostStamp /\ db'.has = db.has
    BY <1>5, <2>2 DEF Databases
  <2>4. db.version = NoVersion
    BY <1>2, <1>14 DEF StampBaseline, In, Sure
  <2>5. ~db.lostStamp => Baseline = 0 /\ db.has \in {{}, Bridged}
    BY <1>2, <2>2, <2>4, BaselineIsZero DEF Coherent
  <2>6. (~db.lostStamp => Coherent(db))'
    BY <2>3, <2>5, Counts, MigrationsAssumption DEF Coherent
  <2>7. Sure(r)'
    BY <1>1, <2>1, <2>2, <2>3 DEF Sure, Advanced
  <2> QED BY <2>6, <2>7
<1>15. CASE BeginScript(r)
  <2>1. Advanced(runner', r, "script", runner[r].version, 1, runner[r].helper)
    BY <1>1, <1>15, RunnerMoves
  <2>2. /\ runner[r].version < HeadVersion
        /\ writer' = r /\ work' = db /\ db' = db /\ db.version = runner[r].version
    BY <1>2, <1>15 DEF BeginScript, In, Bounds, Sure
  <2>3. runner[r].version \in 0 .. HeadVersion - 1 /\ runner[r].version + 1 \in 1 .. HeadVersion
    BY <1>5, <2>2, NextVersion DEF Progress
  <2>4. ~db.lostStamp => ScriptSoFar(runner[r].version, 1, db.has)
    BY <1>2, <2>2, <2>3, ScriptBegins
  <2>5. Len(Script[runner[r].version + 1]) \in Nat
    BY <2>3, ScriptsAreProper
  <2>6. runner'[r].version = runner[r].version /\ runner'[r].stmt = 1 /\ runner'[r].pc = "script"
    BY <2>1 DEF Advanced
  <2> QED BY <1>2, <2>2, <2>4, <2>5, <2>6 DEF Sure, ScriptOf
<1>16. CASE Statement(r)
  <2>1. Advanced(runner', r, "script", runner[r].version, runner[r].stmt + 1, runner[r].helper)
    BY <1>1, <1>16, RunnerMoves
  <2> DEFINE v == runner[r].version
             k == runner[r].stmt
  <2>2. /\ v < HeadVersion /\ writer' = r /\ db' = db /\ db.version = v
        /\ k <= Len(Script[v + 1]) /\ work' = [work EXCEPT !.has = Effect(Script[v + 1][k], work.has)]
        /\ work.lostStamp = db.lostStamp
        /\ ~db.lostStamp => ScriptSoFar(v, k, work.has)
    BY <1>1, <1>2, <1>16 DEF Statement, In, Written, ScriptOf, Sure
  <2>3. v \in 0 .. HeadVersion - 1 /\ v + 1 \in 1 .. HeadVersion
    BY <1>5, <2>2, NextVersion DEF Progress
  <2>4. Len(Script[v + 1]) \in Nat /\ k \in Nat \ {0}
    BY <1>5, <2>3, ScriptsAreProper DEF Progress
  <2>5. k \in 1 .. Len(Script[v + 1]) /\ k + 1 <= Len(Script[v + 1]) + 1
    BY <2>2, <2>4
  <2>6. work'.has = Effect(Script[v + 1][k], work.has) /\ work'.lostStamp = db.lostStamp
    <3> DEFINE has == Effect(Script[v + 1][k], work.has)
    <3>1. work' = [work EXCEPT !.has = has] /\ work.lostStamp = db.lostStamp
      BY <2>2
    <3> HIDE DEF has, v, k
    <3>2. work'.has = has /\ work'.lostStamp = db.lostStamp
      BY <1>5, <3>1, SetFields
    <3> QED BY <3>2 DEF has
  <2>7. ~db.lostStamp => ScriptSoFar(v, k + 1, work'.has)
    BY <2>2, <2>3, <2>5, <2>6, StatementSoFar
  <2>8. runner'[r].version = v /\ runner'[r].stmt = k + 1 /\ runner'[r].pc = "script"
    BY <2>1 DEF Advanced
  <2> HIDE DEF v, k
  <2> QED BY <1>2, <2>2, <2>5, <2>6, <2>7, <2>8 DEF Sure, ScriptOf
<1>17. CASE CommitScript(r)
  <2>1. Advanced(runner', r, "next", runner[r].version + 1, runner[r].stmt, runner[r].helper)
    BY <1>1, <1>17, RunnerMoves
  <2> DEFINE v == runner[r].version
             k == runner[r].stmt
  <2>2. /\ v < HeadVersion /\ writer' = NoRunner /\ db' = [work EXCEPT !.version = v + 1]
        /\ k > Len(Script[v + 1]) /\ k <= Len(Script[v + 1]) + 1
        /\ work.lostStamp = db.lostStamp
        /\ ~db.lostStamp => ScriptSoFar(v, k, work.has)
    BY <1>1, <1>2, <1>17 DEF CommitScript, In, ScriptOf, Sure
  <2>3. v \in 0 .. HeadVersion - 1 /\ v + 1 \in 1 .. HeadVersion
    BY <1>5, <2>2, NextVersion DEF Progress
  <2>4. Len(Script[v + 1]) \in Nat /\ k \in Nat \ {0}
    BY <1>5, <2>3, ScriptsAreProper DEF Progress
  <2>5. k = Len(Script[v + 1]) + 1
    <3> DEFINE len == Len(Script[v + 1])
    <3>1. len \in Nat /\ k \in Nat /\ k > len /\ k <= len + 1
      BY <2>2, <2>4
    <3> HIDE DEF k, len, v
    <3>2. k = len + 1
      BY <3>1
    <3> QED BY <3>2 DEF len
  <2>6. db'.has = work.has /\ db'.version = v + 1 /\ db'.lostStamp = db.lostStamp
    <3> DEFINE next == v + 1
    <3>1. db' = [work EXCEPT !.version = next] /\ work.lostStamp = db.lostStamp
      BY <2>2
    <3> HIDE DEF next, v, k
    <3>2. db'.has = work.has /\ db'.version = next /\ db'.lostStamp = db.lostStamp
      BY <1>5, <3>1, SetFields
    <3> QED BY <3>2 DEF next
  <2>7. ~db.lostStamp => Between(Shape[v + 1], db'.has)
    BY <2>2, <2>3, <2>5, <2>6, ScriptEnds
  <2>8. runner'[r].version = v + 1 /\ runner'[r].pc = "next"
    BY <2>1 DEF Advanced
  <2>9. v + 1 # 0 /\ v + 1 # NoVersion
    BY <2>3, MigrationsAssumption, Counts
  <2> HIDE DEF v, k
  <2>10. (~db.lostStamp => Coherent(db))'
    BY <2>6, <2>7, <2>9 DEF Coherent
  <2>11. Sure(r)'
    BY <1>1, <2>2, <2>6, <2>8 DEF Sure
  <2> QED BY <2>10, <2>11
<1>18. CASE ScriptsDone(r)
  <2>1. Advanced(runner', r, "helper", runner[r].version, runner[r].stmt, 1)
    BY <1>1, <1>18, RunnerMoves
  <2>2. /\ runner[r].version = HeadVersion
        /\ db' = db /\ writer' = writer /\ runner[r].pc = "next" /\ db.version = runner[r].version
    BY <1>2, <1>18 DEF ScriptsDone, In, NoTransaction, Sure
  <2>3. runner'[r].version = HeadVersion /\ runner'[r].pc = "helper"
    BY <2>1, <2>2 DEF Advanced
  <2> QED BY <1>1, <1>2, <1>4, <2>2, <2>3 DEF Sure
<1>19. CASE HelperSkips(r)
  <2>1. Advanced(runner', r, "helper", runner[r].version, runner[r].stmt, runner[r].helper + 1)
    BY <1>1, <1>19, RunnerMoves
  <2>2. db' = db /\ writer' = writer /\ writer # r /\ runner[r].pc = "helper"
    BY <1>19 DEF HelperSkips, InHelpers, In, NoTransaction
  <2>3. runner'[r].version = runner[r].version /\ runner'[r].pc = "helper"
    BY <2>1 DEF Advanced
  <2> QED BY <1>2, <2>2, <2>3 DEF Sure
<1>20. CASE BeginRebuild(r)
  <2>1. /\ db' = db
        /\ writer # r /\ writer' = r /\ work' = db /\ runner' = runner /\ runner[r].pc = "helper"
    BY <1>20 DEF BeginRebuild, InHelpers, In
  <2> QED BY <1>2, <2>1 DEF Sure
<1>21. CASE RenameTable(r)
  <2>1. Advanced(runner', r, "renamed", runner[r].version, runner[r].stmt, runner[r].helper)
    BY <1>1, <1>21, RunnerMoves
  <2>2. /\ db' = db /\ writer = r /\ writer' = r /\ runner[r].pc = "helper"
        /\ work' = IF Table(r) = "jobs" THEN [work EXCEPT !.rows = "legacy"] ELSE work
    BY <1>21 DEF RenameTable, In, Written
  <2>3. work'.has = work.has /\ work'.version = work.version /\ work'.lostStamp = work.lostStamp
    BY <1>5, <2>2 DEF Databases
  <2>4. runner'[r].version = runner[r].version /\ runner'[r].pc = "renamed"
    BY <2>1 DEF Advanced
  <2> QED BY <1>2, <2>2, <2>3, <2>4 DEF Sure
<1>22. CASE CommitRebuild(r)
  <2>1. Advanced(runner', r, (IF runner[r].version < HeadVersion THEN "infer" ELSE "helper"), 
               runner[r].version, runner[r].stmt, runner[r].helper)
    BY <1>1, <1>22, RunnerMoves
  <2>2. /\ db' = Rebuilt(Table(r)) /\ writer = r /\ writer' = NoRunner /\ runner[r].pc = "renamed"
        /\ work.has = db.has /\ work.version = db.version /\ work.lostStamp = db.lostStamp
    BY <1>2, <1>22 DEF CommitRebuild, In, Sure
  <2>3. /\ runner'[r].version = runner[r].version
        /\ runner'[r].pc = IF runner[r].version < HeadVersion THEN "infer" ELSE "helper"
    BY <2>1 DEF Advanced
  <2>4. db'.version = db.version /\ db'.lostStamp = db.lostStamp
    BY <1>5, <2>2 DEF Rebuilt, Databases
  <2>5. IF runner[r].version < HeadVersion THEN db.version = NoVersion /\ "jobs" \in work.has
                                       ELSE db.version = HeadVersion
    BY <1>2, <2>2 DEF Sure
  <2>6. Sure(r)'
    BY <1>1, <2>2, <2>3, <2>4, <2>5 DEF Sure
  <2>7. CASE db.version = NoVersion
    <3>3. "jobs" \in work.has
      BY <1>4, <1>5, <2>5, <2>7
    <3>4. ~db.lostStamp => Unstamped(work.has)
      BY <1>2, <2>2, <2>7 DEF Coherent
    <3>1. ~db.lostStamp => Unstamped(db'.has)
      BY <1>5, <2>2, <2>7, <3>3, <3>4, RebuildKeeps
    <3>2. (~db.lostStamp => Coherent(db))'
      BY <2>4, <2>7, <3>1, Counts, MigrationsAssumption DEF Coherent
    <3> QED BY <2>6, <3>2
  <2>8. CASE db.version = HeadVersion
    <3>1. ~db.lostStamp => Between(Shape[HeadVersion], db'.has)
      BY <1>2, <1>4, <1>5, <2>2, <2>8, RebuildKeeps DEF Coherent
    <3>2. (~db.lostStamp => Coherent(db))'
      BY <1>4, <1>5, <2>4, <2>8, <3>1 DEF Coherent
    <3> QED BY <2>6, <3>2
  <2> QED BY <2>5, <2>7, <2>8
<1> QED BY <1>7, <1>8, <1>9, <1>10, <1>11, <1>12, <1>13, <1>14, <1>15, <1>16, <1>17, <1>18,
           <1>19, <1>20, <1>21, <1>22 DEF Runs

\* No two runners are up at once: one container starts when the other's run is over.
OneRunner == \A r, s \in Runners : ~In(r, "off") /\ ~In(s, "off") => r = s

\* Who steps is the only one up, before and after.
LEMMA StepsAlone ==
  ASSUME MigTypes, Locked, OneRunner, OneRunner', NEW r \in Runners,
         Boot(r) \/ Runs(r) \/ MigKill(r)
  PROVE  /\ \A s \in Runners \ {r} : runner[s].pc = "off" /\ runner'[s].pc = "off"
         /\ writer' \in {writer, r, NoRunner}
<1>1. \A s \in Runners \ {r} : runner'[s] = runner[s]
  <2>1. /\ runner[r].pc = "script" => runner[r].version < HeadVersion
        /\ runner[r].pc = "infer" => runner[r].version = 0
    BY DEF Locked
  <2>2. CASE Boot(r) \/ ReadVersion(r) \/ StampBaseline(r) \/ BeginScript(r) \/ Statement(r)
    BY <2>1, <2>2, RunnerMoves DEF Advanced
  <2>3. CASE CommitScript(r) \/ ScriptFails(r) \/ ScriptsDone(r) \/ HelperSkips(r)
             \/ TightenRefuses(r)
    BY <2>1, <2>3, RunnerMoves DEF Advanced
  <2>4. CASE RenameTable(r) \/ CommitRebuild(r) \/ HelpersDone(r) \/ MigKill(r)
    BY <2>1, <2>4, RunnerMoves DEF Advanced
  <2>5. CASE BridgeStep(r) \/ BeginRebuild(r)
    BY <2>1, <2>5, RunnerMoves DEF Advanced, BeginRebuild
  <2> QED BY <2>2, <2>3, <2>4, <2>5 DEF Runs
<1>2. writer' \in {writer, r, NoRunner}
  BY DEF Boot, Runs, MigKill, ReadVersion, BridgeStep, StampBaseline, BeginScript,
         Statement, CommitScript, ScriptFails, ScriptsDone, HelperSkips, TightenRefuses,
         BeginRebuild, RenameTable, CommitRebuild, HelpersDone, NoTransaction
<1>3. runner[r].pc # "off" \/ runner'[r].pc # "off"
  <2>1. CASE Boot(r)
    BY <2>1 DEF Boot, Go, MigTypes, Progress
  <2>2. CASE Runs(r) \/ MigKill(r)
    BY <2>2 DEF Runs, MigKill, ReadVersion, BridgeStep, StampBaseline, BeginScript,
         Statement, CommitScript, ScriptFails, ScriptsDone, HelperSkips, TightenRefuses,
         InHelpers, BeginRebuild, RenameTable, CommitRebuild, HelpersDone, In
  <2> QED BY <2>1, <2>2
<1> QED BY <1>1, <1>2, <1>3 DEF OneRunner, In

\* One runner at a time, what a stamp promises stays in the schema.
LEMMA StampNext ==
  ASSUME MigTypes, Locked, OneRunner, OneRunner', StampInv, [MigNext]_migVars
  PROVE  StampInv'
<1>1. CASE MigNext
  <2>1. PICK r \in Runners : Boot(r) \/ Runs(r) \/ MigKill(r)
    BY <1>1 DEF MigNext
  <2>2. /\ \A s \in Runners \ {r} : runner[s].pc = "off" /\ runner'[s].pc = "off"
        /\ writer' \in {writer, r, NoRunner}
    BY <2>1, StepsAlone
  <2>3. (~db.lostStamp => Coherent(db))' /\ Sure(r)'
    BY <2>1, <2>2, StampStep
  <2>4. \A s \in Runners \ {r} : writer # s
    BY <2>2 DEF Locked
  <2>5. \A s \in Runners \ {r} : Sure(s)'
    BY <2>2, <2>4, MigrationsAssumption DEF Sure
  <2> QED BY <2>3, <2>5 DEF StampInv
<1>2. CASE UNCHANGED migVars
  BY <1>2 DEF migVars, StampInv, Sure, ScriptOf
<1> QED BY <1>1, <1>2

\* So it does in every behaviour.
LEMMA StampInvariant == Migrating /\ []OneRunner => []StampInv
<1>1. MigInit => StampInv
  BY StampInit
<1>2. (MigTypes /\ Locked) /\ OneRunner /\ OneRunner' /\ StampInv /\ [MigNext]_migVars => StampInv'
  BY StampNext
<1> QED BY <1>1, <1>2, LockedInv, PTL DEF Migrating

\* With one runner up at a time, of however many, the stamp means the schema: what the
\* scripts up to it bring is there, and nothing else but the two retired columns, wherever a
\* run is killed or fails, from every earlier release (migrate.py:21-28).
THEOREM StampsAreTrue == Migrating /\ []OneRunner => []StampMeansSchema
<1>1. StampInv => StampMeansSchema
  BY DEF StampInv, Coherent, Between, Retired, StampMeansSchema
<1> QED BY <1>1, StampInvariant, PTL

\* A database that has a stamp keeps it or moves to the next one (migrate.py:673-690).
StampClimbs ==
  [][db.version # NoVersion => db'.version \in {db.version, db.version + 1}]_migVars

\* Under the same circumstance the stamp climbs the scripts one by one, whether boots are
\* cut off, repeated or refused, and no rebuild of a table touches it (migrate.py:673-690).
THEOREM StampsClimb == Migrating /\ []OneRunner => StampClimbs
<1>1. ASSUME MigTypes, Locked, StampInv, [MigNext]_migVars
      PROVE  [db.version # NoVersion => db'.version \in {db.version, db.version + 1}]_migVars
  <2> SUFFICES ASSUME MigNext, db.version # NoVersion
               PROVE  db'.version \in {db.version, db.version + 1}
    BY <1>1
  <2>1. PICK r \in Runners : Boot(r) \/ Runs(r) \/ MigKill(r)
    BY DEF MigNext
  <2>2. Sure(r) /\ db \in Databases /\ work \in Databases
    BY <1>1 DEF StampInv, MigTypes
  <2>3. CASE BridgeStep(r) \/ StampBaseline(r)
    BY <2>2, <2>3 DEF BridgeStep, StampBaseline, In, Sure
  <2>4. CASE CommitScript(r)
    <3>1. db.version = runner[r].version
      BY <2>2, <2>4 DEF CommitScript, In, Sure
    <3> DEFINE next == runner[r].version + 1
    <3>2. db' = [work EXCEPT !.version = next]
      BY <2>4 DEF CommitScript
    <3>3. db'.version = next
      BY <2>2, <3>2, SetFields
    <3> QED BY <3>1, <3>3
  <2>5. CASE CommitRebuild(r)
    <3>1. work.version = db.version /\ db' = Rebuilt(Table(r))
      BY <2>2, <2>5 DEF CommitRebuild, In, Sure
    <3> QED BY <2>2, <3>1, RebuildKeeps
  <2>6. CASE UNCHANGED db
    BY <2>6
  <2>7. BridgeStep(r) \/ StampBaseline(r) \/ CommitScript(r) \/ CommitRebuild(r) \/ UNCHANGED db
    BY <2>1 DEF Boot, Runs, MigKill, ReadVersion, BeginScript, Statement, Written, ScriptFails,
         ScriptsDone, HelperSkips, TightenRefuses, BeginRebuild, RenameTable, HelpersDone
  <2> QED BY <2>3, <2>4, <2>5, <2>6, <2>7
<1>2. /\ MigTypes /\ Locked /\ StampInv /\ [MigNext]_migVars
      => [db.version # NoVersion => db'.version \in {db.version, db.version + 1}]_migVars
  BY <1>1
<1> QED BY <1>2, StampInvariant, LockedInv, PTL DEF Migrating, StampClimbs

(***************************************************************************)
(* Restore.  As long as no move fails, a kill, a failed extraction or a    *)
(* failed migration costs no file.                                         *)
(***************************************************************************)

\* The directories to go are state directories, and the trees are over them.
RestoreShapes == RestoreTypeOK /\ restore = [step |-> restore.step, todo |-> restore.todo]

\* Only a failed move leads to the rollback.
TreesInv ==
  /\ RestoreShapes
  /\ restore.step = "undo" => "move_error" \in restoreFaults

\* what CrashKeepsFiles says of a step
StepKeepsFiles ==
  outcome' # "ok" /\ "move_error" \notin restoreFaults =>
    \A d \in Dirs : (live[d] \cup rollback[d]) \cap Own \subseteq live'[d] \cup rollback'[d]

-----------------------------------------------------------------------------
\* The stack at first.
LEMMA RestoreInitIsShaped == RestoreInit => RestoreShapes
<1> SUFFICES ASSUME RestoreInit PROVE RestoreShapes
  OBVIOUS
<1>1. NoChildren \in [Dirs -> SUBSET (Own \cup Backed)] /\ NoCopies \in [Dirs -> BOOLEAN]
  BY DEF NoChildren, NoCopies
<1>2. [d \in Dirs |-> Own] \in [Dirs -> SUBSET (Own \cup Backed)]
  OBVIOUS
<1> QED BY <1>1, <1>2 DEF RestoreInit, RestoreShapes, RestoreTypeOK

\* Every action keeps the types of a restore.
LEMMA RestoreNextIsShaped ==
  ASSUME RestoreShapes, [RestoreNext]_restoreVars
  PROVE  RestoreShapes'
<1> DEFINE Tree == [Dirs -> SUBSET (Own \cup Backed)]
           RestoreSteps == {"none", "extract", "keep", "out", "in", "migrate", "clean", "undo"}
           Outcomes == {"none", "refused", "invalid", "failed", "ok", "killed"}
<1>1. /\ live \in Tree /\ rollback \in Tree /\ staging \in Tree
      /\ rollbackDir \in BOOLEAN /\ hasCopy \in [Dirs -> BOOLEAN] /\ onboarded \in BOOLEAN
      /\ restore.step \in RestoreSteps /\ restore.todo \subseteq Dirs
      /\ restore = [step |-> restore.step, todo |-> restore.todo]
      /\ outcome \in Outcomes /\ restoreFaults \in RestoreFaults
  BY DEF RestoreShapes, RestoreTypeOK
<1>2. SUFFICES /\ live' \in Tree /\ rollback' \in Tree /\ staging' \in Tree
               /\ rollbackDir' \in BOOLEAN /\ hasCopy' \in [Dirs -> BOOLEAN] /\ onboarded' \in BOOLEAN
               /\ \E step \in RestoreSteps, todo \in SUBSET Dirs : restore' = [step |-> step, todo |-> todo]
               /\ outcome' \in Outcomes /\ restoreFaults' \in RestoreFaults
  BY DEF RestoreShapes, RestoreTypeOK
<1>3. NoChildren \in Tree /\ NoCopies \in [Dirs -> BOOLEAN]
  BY DEF NoChildren, NoCopies
<1>4. ASSUME NEW step \in RestoreSteps, RGo(step)
      PROVE  restore' = [step |-> step, todo |-> restore.todo]
  BY <1>1, <1>4 DEF RGo
<1> HIDE DEF RestoreSteps, Outcomes
<1>5. {"none", "extract", "keep", "out", "in", "migrate", "clean", "undo"} \subseteq RestoreSteps
  BY DEF RestoreSteps
<1>6. {"none", "refused", "invalid", "failed", "ok", "killed"} \subseteq Outcomes
  BY DEF Outcomes
<1>7. ASSUME NEW o \in Outcomes, Answer(o)
      PROVE  /\ outcome' \in Outcomes
             /\ \E step \in RestoreSteps, todo \in SUBSET Dirs : restore' = [step |-> step, todo |-> todo]
  BY <1>5, <1>7 DEF Answer
<1>8. CASE \E confirmed, valid \in BOOLEAN : Upload(confirmed, valid)
  BY <1>1, <1>4, <1>5, <1>6, <1>7, <1>8 DEF Upload, Trees
<1>9. CASE Extract
  <2>1. PICK held \in SUBSET Dirs : staging' = [d \in Dirs |-> IF d \in held THEN Backed ELSE {}]
    BY <1>9 DEF Extract
  <2>2. staging' \in Tree
    BY <2>1
  <2> DEFINE todo == {d \in Dirs : staging'[d] # {}}
  <2>3. restore' = [step |-> "keep", todo |-> todo] /\ todo \in SUBSET Dirs
    BY <1>9 DEF Extract
  <2> QED BY <1>1, <1>5, <1>9, <2>2, <2>3 DEF Extract
<1>10. CASE ExtractFails \/ MigrateFails \/ RestoreKilled
  BY <1>1, <1>6, <1>7, <1>10 DEF ExtractFails, MigrateFails, RestoreKilled, Trees
<1>11. CASE MoveOut
  <2>1. PICK c \in live[Current] :
          /\ live' = [live EXCEPT ![Current] = @ \ {c}]
          /\ rollback' = [rollback EXCEPT ![Current] = @ \cup {c}]
    BY <1>11 DEF MoveOut
  <2>2. Current \in Dirs => c \in Own \cup Backed
    BY <1>1, <2>1
  <2>3. live' \in Tree /\ rollback' \in Tree
    BY <1>1, <2>1, <2>2
  <2> QED BY <1>1, <1>11, <2>3 DEF MoveOut
<1>12. CASE MoveIn
  <2>1. PICK c \in staging[Current] :
          /\ staging' = [staging EXCEPT ![Current] = @ \ {c}]
          /\ live' = [live EXCEPT ![Current] = @ \cup {c}]
    BY <1>12 DEF MoveIn
  <2>2. Current \in Dirs => c \in Own \cup Backed
    BY <1>1, <2>1
  <2>3. live' \in Tree /\ staging' \in Tree
    BY <1>1, <2>1, <2>2
  <2> QED BY <1>1, <1>12, <2>3 DEF MoveIn
<1>13. CASE AllOut \/ AllIn \/ MigrateOk \/ MoveFails
  BY <1>1, <1>4, <1>5, <1>13 DEF AllOut, AllIn, MigrateOk, MoveFails, Trees
<1>14. CASE CleanUp \/ Undone
  BY <1>1, <1>3, <1>6, <1>7, <1>14 DEF CleanUp, Undone
<1>15. CASE UndoDir
  <2>1. CASE ~hasCopy[Current]
    BY <1>1, <1>15, <2>1 DEF UndoDir, Trees
  <2>2. CASE hasCopy[Current] /\ Current = DataDir
    BY <1>1, <1>3, <1>6, <1>7, <1>15, <2>2 DEF UndoDir
  <2>3. CASE hasCopy[Current] /\ Current # DataDir
    BY <1>1, <1>15, <2>3 DEF UndoDir
  <2> QED BY <2>1, <2>2, <2>3
<1>16. CASE UNCHANGED restoreVars
  BY <1>1, <1>16 DEF restoreVars
<1>17. CASE KeepDir
  BY <1>1, <1>4, <1>5, <1>17 DEF KeepDir
<1> QED
  BY <1>8, <1>9, <1>10, <1>11, <1>12, <1>13, <1>14, <1>15, <1>16, <1>17 DEF RestoreNext

\* Every action preserves the invariant.
LEMMA TreesStay ==
  ASSUME TreesInv, [RestoreNext]_restoreVars
  PROVE  TreesInv'
<1>1. RestoreShapes'
  BY RestoreNextIsShaped DEF TreesInv
<1>2. restore = [step |-> restore.step, todo |-> restore.todo]
  BY DEF TreesInv, RestoreShapes
<1> USE DEF RIn, RGo, Answer
<1>3. CASE MoveFails
  BY <1>1, <1>3 DEF MoveFails, TreesInv
<1>4. CASE UndoDir
  BY <1>1, <1>2, <1>4 DEF UndoDir, TreesInv
<1>5. CASE UNCHANGED restoreVars
  BY <1>1, <1>5 DEF restoreVars, TreesInv
<1>6. ASSUME restore'.step # "undo" PROVE TreesInv'
  BY <1>1, <1>6 DEF TreesInv
<1>7. CASE Extract \/ ExtractFails \/ MigrateFails \/ CleanUp \/ Undone \/ RestoreKilled
  BY <1>6, <1>7 DEF Extract, ExtractFails, MigrateFails, CleanUp, Undone, RestoreKilled
<1>8. CASE KeepDir \/ MoveOut \/ AllOut \/ MoveIn \/ AllIn \/ MigrateOk
  BY <1>2, <1>6, <1>8 DEF KeepDir, MoveOut, AllOut, MoveIn, AllIn, MigrateOk
<1>9. CASE \E confirmed, valid \in BOOLEAN : Upload(confirmed, valid)
  <2>1. restore' = [step |-> "none", todo |-> {}] \/ restore' = [restore EXCEPT !.step = "extract"]
    BY <1>9 DEF Upload
  <2>2. restore'.step \in {"none", "extract"}
    BY <1>2, <2>1
  <2> QED BY <1>6, <2>2
<1> QED BY <1>3, <1>4, <1>5, <1>7, <1>8, <1>9 DEF RestoreNext

\* No action takes a file of the stack away.
LEMMA NextKeepsFiles ==
  ASSUME TreesInv, [RestoreNext]_restoreVars
  PROVE  StepKeepsFiles
<1> USE DEF StepKeepsFiles
<1>0. /\ live \in [Dirs -> SUBSET (Own \cup Backed)] /\ rollback \in [Dirs -> SUBSET (Own \cup Backed)]
      /\ restore.step = "undo" => "move_error" \in restoreFaults
  BY DEF TreesInv, RestoreShapes, RestoreTypeOK
<1>1. CASE UNCHANGED <<live, rollback>>
  BY <1>1
<1>2. CASE MoveOut
  BY <1>0, <1>2 DEF MoveOut
<1>3. CASE MoveIn
  BY <1>0, <1>3 DEF MoveIn
<1>4. CASE CleanUp
  BY <1>4 DEF CleanUp, Answer
<1>5. CASE UndoDir
  BY <1>0, <1>5 DEF UndoDir, RIn
<1> QED
  BY <1>1, <1>2, <1>3, <1>4, <1>5
     DEF RestoreNext, restoreVars, Trees, Upload, Extract, ExtractFails, KeepDir, AllOut, AllIn,
         MigrateOk, MigrateFails, MoveFails, Undone, RestoreKilled

-----------------------------------------------------------------------------
\* As long as no move fails, every file the stack had is in place or in the
\* rollback directory until the restore has succeeded, for any directories
\* (web/restore.py:137-168).
THEOREM SwapKeepsFiles == RestoreSpec => CrashKeepsFiles
<1>1. RestoreInit => TreesInv
  BY RestoreInitIsShaped DEF RestoreInit, TreesInv
<1>2. TreesInv /\ [RestoreNext]_restoreVars => TreesInv'
  BY TreesStay
<1>3. TreesInv /\ [RestoreNext]_restoreVars => [StepKeepsFiles]_restoreVars
  BY NextKeepsFiles
<1> QED BY <1>1, <1>2, <1>3, PTL DEF RestoreSpec, CrashKeepsFiles, StepKeepsFiles

\* A restore keeps its types, for any directories and names (web/restore.py:70-216).
THEOREM RestoreTypeCorrect == RestoreSpec => []RestoreTypeOK
<1>1. RestoreShapes /\ [RestoreNext]_restoreVars => RestoreShapes'
  BY RestoreNextIsShaped
<1>2. RestoreShapes => RestoreTypeOK
  BY DEF RestoreShapes
<1> QED BY <1>1, <1>2, RestoreInitIsShaped, PTL DEF RestoreSpec

(***************************************************************************)
(* The export.  A stack that writes nothing meanwhile arrives as it was.   *)
(***************************************************************************)

Stack == [main : Nat, log : Nat, companies : Nat, context : Nat]
Owned == [log : 0 .. 1, companies : 0 .. 1, context : 0 .. 1]
Figures == [rows : Nat, sha : Nat, companies : Nat, context : Nat]

\* the steps of the export that come after step
Later(step) ==
  CASE step = "checkpoint" -> ExportSteps \ {"checkpoint"}
    [] step = "rows" -> ExportSteps \ {"checkpoint", "wal", "rows"}
    [] step = "sha" -> ExportSteps \ {"checkpoint", "wal", "rows", "sha"}
    [] step = "files" -> {"tar_db", "tar_wal", "tar_companies", "tar_context", "done"}
    [] step = "tar_db" -> {"tar_wal", "tar_companies", "tar_context", "done"}
    [] step = "tar_companies" -> {"tar_context", "done"}
    [] OTHER -> {"done"}

(* What each step has recorded is what the source still holds: its log is       *)
(* empty, so the file alone is the database.                                    *)
AsRecorded ==
  /\ export.step # "dirty"
  /\ tarball.log = 0
  /\ export.step \in Later("checkpoint") => source.log = 0
  /\ export.step \in Later("rows") => export.manifest.rows = TrackedRows(Commits)
  /\ export.step \in Later("sha") => export.manifest.sha = Commits
  /\ export.step \in Later("files") => /\ export.manifest.companies = source.companies
                                       /\ export.manifest.context = source.context
  /\ export.step \in Later("tar_db") => tarball.main = Commits
  /\ export.step \in Later("tar_companies") => tarball.companies = source.companies
  /\ export.step = "done" => tarball.context = source.context

\* What is about to be verified is the finished tarball.
Unpacked == target.step = "unpacked" => target.tree = tarball /\ export.step = "done"

\* what QuietExportVerifies says of a step
QuietIsVerified ==
  target.step = "unpacked" /\ target'.step = "rejected"
    => Commits > before \/ source.context = 0 \/ target.own # Vacant

(* The records have their shapes, and the source holds the commits there were.   *)
ExportShapes ==
  /\ counted \in Seq(BOOLEAN) /\ before \in Nat /\ before <= Commits
  /\ source \in Stack /\ source.main + source.log = Commits
  /\ export \in [step : ExportSteps, manifest : Figures]
  /\ tarball \in Stack
  /\ target \in [step : {"none", "unpacked", "verified", "rejected"}, tree : Stack, own : Owned]

Quiet == Commits = before /\ source.context # 0

ExportInv == ExportShapes /\ (Quiet => AsRecorded /\ Unpacked)

\* A count of rows is a number.
LEMMA RowsAreCounted ==
  ASSUME counted \in Seq(BOOLEAN), NEW n \in Nat
  PROVE  TrackedRows(n) \in Nat
<1> DEFINE rows == {i \in 1 .. n : counted[i]}
<1>1. IsFiniteSet(1 .. n)
  BY FS_Interval
<1>2. IsFiniteSet(rows)
  BY <1>1, FS_Subset
<1> QED BY <1>2, FS_CardinalityType DEF TrackedRows

\* The export's step moves on, the manifest gains a figure.
LEMMA RecordsAFigure ==
  ASSUME ExportShapes, NEW step \in ExportSteps, NEW field \in {"rows", "sha"},
         NEW value \in Nat, Records(step, field, value)
  PROVE  /\ export' \in [step : ExportSteps, manifest : Figures]
         /\ export'.step = step
         /\ export'.manifest[field] = value
         /\ \A f \in {"rows", "sha", "companies", "context"} \ {field} :
              export'.manifest[f] = export.manifest[f]
<1> DEFINE figures == [export.manifest EXCEPT ![field] = value]
<1>1. export' = [step |-> step, manifest |-> figures]
  BY DEF Records, ExportShapes
<1>2. /\ figures \in Figures /\ figures[field] = value
      /\ \A f \in {"rows", "sha", "companies", "context"} \ {field} : figures[f] = export.manifest[f]
  BY DEF ExportShapes, Figures
<1> HIDE DEF figures
<1> QED BY <1>1, <1>2

\* A commit makes the export a disturbed one.
LEMMA WritesAreCommits ==
  ASSUME ExportInv, Write
  PROVE  ExportInv'
<1>1. PICK row \in BOOLEAN, file \in BOOLEAN :
        /\ counted' = Append(counted, row)
        /\ source' = [source EXCEPT !.log = @ + 1,
                          !.companies = IF file /\ @ < MaxFiles THEN @ + 1 ELSE @]
  BY DEF Write
<1>2. counted' \in Seq(BOOLEAN) /\ Commits' = Commits + 1 /\ Commits \in Nat
  BY <1>1 DEF ExportInv, ExportShapes, Commits
<1>3. source \in Stack /\ source.companies \in Nat /\ source.log \in Nat /\ source.main \in Nat
  BY DEF ExportInv, ExportShapes, Stack
<1>4. PICK n \in Nat : source' = [[source EXCEPT !.log = source.log + 1] EXCEPT !.companies = n]
  <2> DEFINE n == IF file /\ source.companies < MaxFiles THEN source.companies + 1
                                                        ELSE source.companies
  <2>1. n \in Nat
    BY <1>3
  <2>2. source' = [[source EXCEPT !.log = source.log + 1] EXCEPT !.companies = n]
    BY <1>1, Zenon
  <2> HIDE DEF n
  <2> QED BY <2>1, <2>2
<1>5. source' \in Stack /\ source'.main = source.main /\ source'.log = source.log + 1
  <2> DEFINE written == [source EXCEPT !.log = source.log + 1]
  <2>1. written \in Stack /\ written.main = source.main /\ written.log = source.log + 1
    BY <1>3 DEF Stack
  <2>2. source' = [written EXCEPT !.companies = n]
    BY <1>4
  <2> HIDE DEF written
  <2> QED BY <2>1, <2>2 DEF Stack
<1>7. UNCHANGED <<export, tarball, target, before>>
  BY DEF Write
<1>8. source'.main + source'.log = Commits' /\ before' <= Commits'
  BY <1>2, <1>3, <1>5, <1>7 DEF ExportInv, ExportShapes
<1>9. ExportShapes'
  BY <1>2, <1>5, <1>7, <1>8 DEF ExportInv, ExportShapes
<1>6. Commits' # before'
  BY <1>2, <1>7 DEF ExportInv, ExportShapes
<1> QED BY <1>6, <1>9 DEF ExportInv, Quiet

\* A step of the export leaves the commits, and the context, as they are.
LEMMA CountsStay ==
  ASSUME UNCHANGED Left
  PROVE  /\ Commits' = Commits /\ before' = before
         /\ TrackedRows(Commits)' = TrackedRows(Commits)
BY DEF Left, Commits, TrackedRows

\* The log is taken into the file, by the export or by SQLite.
LEMMA FlushKeepsRecords ==
  ASSUME ExportInv, source' = Flushed, UNCHANGED <<tarball, target, Left>>,
         UNCHANGED export \/ (XStep("checkpoint") /\ XGoes("wal"))
  PROVE  ExportInv'
<1>1. /\ Commits' = Commits /\ before' = before
      /\ TrackedRows(Commits)' = TrackedRows(Commits)
  BY CountsStay
<1>2. Commits \in Nat
  BY DEF ExportInv, ExportShapes, Commits
<1>3. /\ source' \in Stack /\ source'.main = Commits /\ source'.log = 0
      /\ source'.companies = source.companies /\ source'.context = source.context
  BY <1>2 DEF Flushed, ExportInv, ExportShapes, Stack
<1>4. /\ export' \in [step : ExportSteps, manifest : Figures]
      /\ export'.manifest = export.manifest
      /\ export'.step = export.step \/ (export.step = "checkpoint" /\ export'.step = "wal")
  BY DEF XStep, XGoes, ExportInv, ExportShapes, ExportSteps
<1>5. UNCHANGED <<counted, tarball, target>>
  BY DEF Left
<1>6. ExportShapes'
  BY <1>1, <1>2, <1>3, <1>4, <1>5 DEF ExportInv, ExportShapes
<1>7. Quiet' => Quiet
  BY <1>1, <1>3 DEF Quiet
<1>8. ASSUME Quiet
      PROVE  AsRecorded' /\ Unpacked'
  <2>1. AsRecorded /\ Unpacked
    BY <1>8 DEF ExportInv
  <2>2. AsRecorded'
    BY <1>1, <1>3, <1>4, <1>5, <2>1 DEF AsRecorded, Later, ExportSteps
  <2>3. Unpacked'
    BY <1>4, <1>5, <2>1 DEF Unpacked
  <2> QED BY <2>2, <2>3
<1> QED BY <1>6, <1>7, <1>8 DEF ExportInv

-----------------------------------------------------------------------------
\* Every action preserves the invariant.
LEMMA NextKeepsRecords ==
  ASSUME ExportInv, [ExportNext]_exportVars
  PROVE  ExportInv'
<1> SUFFICES ASSUME ~(Write \/ Checkpoint \/ CheckpointWal), source' = source, UNCHANGED Left
             PROVE  ExportInv'
  <2>1. CASE Write
    BY <2>1, WritesAreCommits
  <2>2. CASE Checkpoint \/ CheckpointWal
    BY <2>2, FlushKeepsRecords DEF Checkpoint, CheckpointWal
  <2>3. CASE ~(Write \/ Checkpoint \/ CheckpointWal)
    BY <2>3 DEF ExportNext, exportVars, VerifyWalEmpty, RowCounts, Sha256, CountAndSize, TarDb,
                TarWal, TarCompanies, TarContext, TargetWorks, Import, Verify, Left
  <2> QED BY <2>1, <2>2, <2>3
<1>1. /\ Commits' = Commits /\ before' = before /\ Commits \in Nat /\ counted' = counted
      /\ TrackedRows(Commits)' = TrackedRows(Commits) /\ TrackedRows(Commits) \in Nat
  BY CountsStay, RowsAreCounted DEF ExportInv, ExportShapes, Commits, Left
<1>2. /\ source \in Stack /\ tarball \in Stack /\ source.main + source.log = Commits
      /\ export \in [step : ExportSteps, manifest : Figures]
      /\ target \in [step : {"none", "unpacked", "verified", "rejected"}, tree : Stack, own : Owned]
  BY DEF ExportInv, ExportShapes
<1>3. /\ export.manifest \in Figures /\ target.tree \in Stack /\ target.own \in Owned
      /\ source.main \in Nat /\ source.log \in Nat /\ source.companies \in Nat /\ source.context \in Nat
      /\ Quiet => AsRecorded /\ Unpacked
  BY <1>2 DEF ExportInv, Stack
<1> DEFINE Shapes == /\ export \in [step : ExportSteps, manifest : Figures]
                     /\ tarball \in Stack
                     /\ target \in [step : {"none", "unpacked", "verified", "rejected"},
                                   tree : Stack, own : Owned]
           Kept == Shapes' /\ (Quiet => AsRecorded' /\ Unpacked')
<1>4. SUFFICES Kept
  BY <1>1, <1>2 DEF ExportInv, ExportShapes, Quiet
<1>5. CASE UNCHANGED exportVars
  BY <1>1, <1>2, <1>3, <1>5 DEF exportVars, AsRecorded, Unpacked
<1>6. CASE VerifyWalEmpty
  <2>1. export' = [export EXCEPT !.step = IF source.log = 0 THEN "rows" ELSE "dirty"]
    BY <1>6 DEF VerifyWalEmpty, XGoes
  <2>2. export.step = "wal" /\ UNCHANGED <<tarball, target>>
    BY <1>6 DEF VerifyWalEmpty, XStep
  <2> QED BY <1>1, <1>2, <1>3, <2>1, <2>2 DEF AsRecorded, Unpacked, Later, ExportSteps
<1>7. CASE RowCounts
  <2>1. export.step = "rows" /\ UNCHANGED <<tarball, target>>
    BY <1>7 DEF RowCounts, XStep
  <2>2. /\ export' \in [step : ExportSteps, manifest : Figures]
        /\ export'.step = "sha" /\ export'.manifest.rows = TrackedRows(Commits)
    BY <1>1, <1>7, RecordsAFigure DEF RowCounts, ExportInv, ExportSteps
  <2> QED BY <1>1, <1>2, <1>3, <2>1, <2>2 DEF AsRecorded, Unpacked, Later, ExportSteps
<1>8. CASE Sha256
  <2>1. export.step = "sha" /\ UNCHANGED <<tarball, target>>
    BY <1>8 DEF Sha256, XStep
  <2>2. /\ export' \in [step : ExportSteps, manifest : Figures] /\ export'.step = "files"
        /\ export'.manifest.sha = source.main /\ export'.manifest.rows = export.manifest.rows
    BY <1>3, <1>8, RecordsAFigure DEF Sha256, ExportInv, ExportSteps
  <2>3. Quiet => source.main = Commits
    BY <1>2, <1>3, <2>1 DEF AsRecorded, Later, ExportSteps
  <2> QED BY <1>1, <1>2, <1>3, <2>1, <2>2, <2>3 DEF AsRecorded, Unpacked, Later, ExportSteps
<1>9. CASE CountAndSize
  <2>1. export.step = "files" /\ UNCHANGED <<tarball, target>>
    BY <1>9 DEF CountAndSize, XStep
  <2>2. PICK figures \in Figures :
          /\ export' = [step |-> "tar_db", manifest |-> figures]
          /\ figures.rows = export.manifest.rows /\ figures.sha = export.manifest.sha
          /\ figures.companies = source.companies /\ figures.context = source.context
    <3> DEFINE listed == [export.manifest EXCEPT !.companies = source.companies]
               figures == [listed EXCEPT !.context = source.context]
    <3>1. /\ listed \in Figures /\ listed.companies = source.companies
          /\ listed.rows = export.manifest.rows /\ listed.sha = export.manifest.sha
      BY <1>3 DEF Figures
    <3>2. export' = [step |-> "tar_db", manifest |-> figures]
      BY <1>9 DEF CountAndSize
    <3> HIDE DEF listed
    <3>3. /\ figures \in Figures /\ figures.companies = listed.companies
          /\ figures.rows = listed.rows /\ figures.sha = listed.sha
          /\ figures.context = source.context
      BY <1>3, <3>1 DEF Figures
    <3> QED BY <3>1, <3>2, <3>3
  <2>3. /\ export' \in [step : ExportSteps, manifest : Figures]
        /\ export'.step = "tar_db" /\ export'.manifest = figures
    BY <2>2 DEF ExportSteps
  <2> QED BY <1>1, <1>2, <1>3, <2>1, <2>2, <2>3 DEF AsRecorded, Unpacked, Later, ExportSteps
<1>10. CASE TarDb \/ TarWal \/ TarCompanies \/ TarContext
  <2>1. target' = target
    BY <1>10 DEF TarDb, TarWal, TarCompanies, TarContext
  <2>2. PICK next \in {"tar_wal", "tar_companies", "tar_context", "done"} :
          export' = [export EXCEPT !.step = next]
    BY <1>10 DEF TarDb, TarWal, TarCompanies, TarContext, XGoes
  <2>3. /\ export' \in [step : ExportSteps, manifest : Figures]
        /\ export'.step = next /\ export'.manifest = export.manifest
    BY <1>2, <2>2 DEF ExportSteps
  <2>4. CASE TarDb
    BY <1>1, <1>2, <1>3, <2>1, <2>3, <2>4
       DEF TarDb, XStep, XGoes, AsRecorded, Unpacked, Later, ExportSteps, Stack
  <2>5. CASE TarWal
    BY <1>1, <1>2, <1>3, <2>1, <2>3, <2>5
       DEF TarWal, XStep, XGoes, AsRecorded, Unpacked, Later, ExportSteps, Stack
  <2>6. CASE TarCompanies
    BY <1>1, <1>2, <1>3, <2>1, <2>3, <2>6
       DEF TarCompanies, XStep, XGoes, AsRecorded, Unpacked, Later, ExportSteps, Stack
  <2>7. CASE TarContext
    BY <1>1, <1>2, <1>3, <2>1, <2>3, <2>7
       DEF TarContext, XStep, XGoes, AsRecorded, Unpacked, Later, ExportSteps, Stack
  <2> QED BY <1>10, <2>4, <2>5, <2>6, <2>7
<1>11. CASE \E force \in BOOLEAN : Import(force)
  <2> DEFINE own == IF tarball.log > 0 \/ target.step # "none"
                    THEN [target.own EXCEPT !.log = 0] ELSE target.own
  <2>1. /\ export.step = "done" /\ UNCHANGED <<export, tarball>>
        /\ target' = [step |-> "unpacked", tree |-> tarball, own |-> own]
    BY <1>11 DEF Import, XStep
  <2>2. own \in Owned
    BY <1>3 DEF Owned
  <2> HIDE DEF own
  <2> QED BY <1>1, <1>2, <1>3, <2>1, <2>2 DEF AsRecorded, Unpacked, Later
<1>12. CASE Verify
  <2>1. /\ target.step = "unpacked" /\ UNCHANGED <<export, tarball>>
        /\ target'.step \in {"verified", "rejected"}
        /\ target'.tree = target.tree /\ target'.own = target.own
        /\ target' = [step |-> target'.step, tree |-> target'.tree, own |-> target'.own]
    BY <1>2, <1>12 DEF Verify
  <2> QED BY <1>1, <1>2, <1>3, <2>1 DEF AsRecorded, Unpacked
<1>13. CASE \E part \in DOMAIN Vacant : TargetWorks(part)
  <2>1. PICK part \in DOMAIN Vacant : target' = [target EXCEPT !.own[part] = 1]
    BY <1>13 DEF TargetWorks
  <2>2. UNCHANGED <<export, tarball>>
    BY <1>13 DEF TargetWorks
  <2> DEFINE own == [target.own EXCEPT ![part] = 1]
  <2>3. own \in Owned
    BY <1>3 DEF Owned
  <2>4. target' = [target EXCEPT !.own = own]
    BY <2>1
  <2> HIDE DEF own
  <2>5. /\ target' \in [step : {"none", "unpacked", "verified", "rejected"},
                        tree : Stack, own : Owned]
        /\ target'.step = target.step /\ target'.tree = target.tree
    BY <1>2, <2>3, <2>4
  <2> QED BY <1>1, <1>2, <1>3, <2>2, <2>5 DEF AsRecorded, Unpacked
<1> QED
  BY <1>5, <1>6, <1>7, <1>8, <1>9, <1>10, <1>11, <1>12, <1>13 DEF ExportNext

\* The export of a fresh or a flushed stack starts with nothing recorded.
LEMMA ExportInitRecords ==
  ASSUME ExportInit PROVE ExportInv
<1>1. /\ counted \in Seq(BOOLEAN) /\ Commits \in Nat /\ before = Commits
  <2>1. << >> \in Seq(BOOLEAN) /\ <<TRUE>> \in Seq(BOOLEAN)
    <3>1. TRUE \in BOOLEAN
      OBVIOUS
    <3> QED BY <3>1
  <2>2. counted \in Seq(BOOLEAN)
    BY <2>1, Zenon DEF ExportInit
  <2>3. Commits \in Nat
    BY <2>2 DEF Commits
  <2> QED BY <2>2, <2>3 DEF ExportInit
<1>2. PICK n \in 0 .. MaxFiles, flushed \in BOOLEAN :
        source = [main |-> IF flushed THEN Commits ELSE 0,
                  log |-> IF flushed THEN 0 ELSE Commits,
                  companies |-> n, context |-> IF n = 0 THEN 0 ELSE 1]
  BY DEF ExportInit
<1>3. source \in Stack /\ source.main + source.log = Commits
  BY <1>1, <1>2 DEF Stack
<1>4. /\ NoTree \in Stack /\ NoTree.log = 0
      /\ NoManifest \in Figures /\ "checkpoint" \in ExportSteps /\ Vacant \in Owned
  BY DEF NoTree, Stack, NoManifest, Figures, ExportSteps, Vacant, Owned
<1>5. /\ export = [step |-> "checkpoint", manifest |-> NoManifest]
      /\ tarball = NoTree /\ target = [step |-> "none", tree |-> NoTree, own |-> Vacant]
  BY DEF ExportInit
<1>6. ExportShapes
  BY <1>1, <1>3, <1>4, <1>5 DEF ExportShapes
<1>7. AsRecorded /\ Unpacked
  BY <1>4, <1>5 DEF AsRecorded, Unpacked, Later, ExportSteps
<1> QED BY <1>6, <1>7 DEF ExportInv

\* What a quiet export recorded is what a target without a log, a company or a
\* context file of its own observes.
LEMMA VerifyAccepts ==
  ASSUME ExportInv, [ExportNext]_exportVars
  PROVE  QuietIsVerified
<1> SUFFICES ASSUME target.step = "unpacked", target'.step = "rejected", Quiet, target.own = Vacant
             PROVE  FALSE
  BY DEF QuietIsVerified, Quiet, ExportInv, ExportShapes, Commits
<1>1. /\ target \in [step : {"none", "unpacked", "verified", "rejected"}, tree : Stack, own : Owned]
      /\ target.tree = tarball /\ export.step = "done" /\ source.context # 0 /\ AsRecorded
      /\ tarball \in Stack
  BY DEF ExportInv, ExportShapes, Unpacked, Quiet
<1>2. Verify
  <2>1. ASSUME target'.step \in {target.step, "unpacked"} PROVE FALSE
    BY <2>1
  <2>2. CASE \E force \in BOOLEAN : Import(force)
    BY <2>1, <2>2 DEF Import
  <2>3. CASE \E part \in DOMAIN Vacant : TargetWorks(part)
    BY <1>1, <2>1, <2>3 DEF TargetWorks
  <2>4. CASE UNCHANGED target
    BY <2>1, <2>4
  <2> QED
    BY <2>2, <2>3, <2>4
       DEF ExportNext, exportVars, Write, Checkpoint, CheckpointWal, VerifyWalEmpty, RowCounts,
           Sha256, CountAndSize, TarDb, TarWal, TarCompanies, TarContext
<1>3. target'.step = IF Compare(export.manifest, Observed) THEN "verified" ELSE "rejected"
  BY <1>1, <1>2 DEF Verify
<1>4. /\ tarball.main = Commits /\ tarball.log = 0 /\ Commits \in Nat
      /\ tarball.main + tarball.log = Commits
  BY <1>1 DEF AsRecorded, Later, Commits, ExportInv, ExportShapes
<1>5. /\ Observed.rows = TrackedRows(Commits) /\ Observed.sha = Commits
      /\ Observed.companies = tarball.companies /\ Observed.context = tarball.context
  BY <1>1, <1>4 DEF Observed, Vacant, Stack
<1>6. Compare(export.manifest, Observed)
  BY <1>1, <1>5 DEF Compare, AsRecorded, Later, ExportSteps
<1> QED BY <1>3, <1>6

\* A stack that wrote nothing while it was exported, and has a candidate context,
\* is never rejected on a target that has nothing of its own, however long its log
\* was and however often the import is forced (migrate/wal.py:26-60).
THEOREM QuietExportsVerify == ExportSpec => QuietExportVerifies
<1>1. ExportInit => ExportInv
  BY ExportInitRecords
<1>2. ExportInv /\ [ExportNext]_exportVars => ExportInv'
  BY NextKeepsRecords
<1>3. ExportInv /\ [ExportNext]_exportVars => [QuietIsVerified]_exportVars
  BY VerifyAccepts
<1> QED BY <1>1, <1>2, <1>3, PTL DEF ExportSpec, QuietExportVerifies, QuietIsVerified

-----------------------------------------------------------------------------
\* What the bounds of the run bound: the commits, the files, and their copies.
ExportBounds ==
  /\ Commits <= MaxCommits
  /\ source.companies <= MaxFiles /\ source.context <= MaxFiles
  /\ export.manifest \in Manifest
  /\ tarball.main <= MaxCommits /\ tarball.log <= MaxCommits

\* The counts there are.
LEMMA ExportIsTyped ==
  ASSUME ExportInv, ExportBounds
  PROVE  ExportTypeOK
<1>1. /\ counted \in Seq(BOOLEAN) /\ before \in Nat /\ before <= Commits /\ Commits \in Nat
      /\ source.main + source.log = Commits
      /\ tarball.main \in Nat /\ tarball.log \in Nat
      /\ export.step \in ExportSteps /\ target.step \in {"none", "unpacked", "verified", "rejected"}
  BY DEF ExportInv, ExportShapes, Stack, Commits
<1>2. target.own \in Owned
  BY DEF ExportInv, ExportShapes
<1>3. \A part \in DOMAIN target.own : target.own[part] \in 0 .. 1
  BY <1>2 DEF Owned
<1> QED BY <1>1, <1>3, ExportAssumption DEF ExportBounds, ExportTypeOK

\* So many of the commits add a row, and no more.
LEMMA RowsAreCommits ==
  ASSUME counted \in Seq(BOOLEAN), NEW n \in Nat
  PROVE  TrackedRows(n) \in 0 .. n
<1> DEFINE rows == {i \in 1 .. n : counted[i]}
<1>1. IsFiniteSet(1 .. n) /\ Cardinality(1 .. n) = n
  BY FS_Interval
<1>2. rows \subseteq 1 .. n
  OBVIOUS
<1>3. IsFiniteSet(rows) /\ Cardinality(rows) <= n
  BY <1>1, <1>2, FS_Subset
<1> HIDE DEF rows
<1>4. Cardinality(rows) \in Nat
  BY <1>3, FS_CardinalityType
<1> QED BY <1>3, <1>4 DEF TrackedRows, rows

\* Every action keeps within the bounds.
LEMMA ExportNextIsBounded ==
  ASSUME ExportInv, ExportBounds, [ExportNext]_exportVars
  PROVE  ExportBounds'
<1>1. /\ counted \in Seq(BOOLEAN) /\ Commits \in Nat /\ Commits <= MaxCommits
      /\ source \in Stack /\ tarball \in Stack /\ source.main + source.log = Commits
      /\ source.companies \in 0 .. MaxFiles /\ source.context \in 0 .. MaxFiles
      /\ source.main \in 0 .. MaxCommits /\ source.log \in 0 .. MaxCommits
      /\ tarball.main \in 0 .. MaxCommits /\ tarball.log \in 0 .. MaxCommits
      /\ export.manifest \in Manifest /\ export = [step |-> export.step, manifest |-> export.manifest]
      /\ MaxCommits \in Nat /\ MaxFiles \in Nat
  BY ExportAssumption DEF ExportInv, ExportShapes, ExportBounds, Stack, Commits
<1>2. ASSUME UNCHANGED counted
      PROVE  Commits' = Commits
  BY <1>2 DEF Commits
<1>3. CASE Write
  <2>1. PICK row \in BOOLEAN, file \in BOOLEAN :
          /\ counted' = Append(counted, row)
          /\ source' = [source EXCEPT !.log = @ + 1,
                            !.companies = IF file /\ @ < MaxFiles THEN @ + 1 ELSE @]
    BY <1>3 DEF Write
  <2>2. Commits' = Commits + 1 /\ Commits < MaxCommits
    BY <1>1, <1>3, <2>1 DEF Write, Commits
  <2>3. /\ source'.companies = IF file /\ source.companies < MaxFiles THEN source.companies + 1
                                                                      ELSE source.companies
        /\ source'.context = source.context
    BY <1>1, <2>1 DEF Stack
  <2>4. UNCHANGED <<export, tarball>>
    BY <1>3 DEF Write
  <2> QED BY <1>1, <2>2, <2>3, <2>4 DEF ExportBounds
<1>4. CASE Checkpoint \/ CheckpointWal
  <2>1. source'.companies = source.companies /\ source'.context = source.context
    BY <1>1, <1>4 DEF Checkpoint, CheckpointWal, Flushed, Stack
  <2>2. export'.manifest = export.manifest /\ UNCHANGED <<counted, tarball>>
    BY <1>1, <1>4 DEF Checkpoint, CheckpointWal, XGoes, Left
  <2> QED BY <1>1, <1>2, <2>1, <2>2 DEF ExportBounds
<1>5. CASE VerifyWalEmpty
  <2>1. export'.manifest = export.manifest /\ UNCHANGED <<counted, source, tarball>>
    BY <1>1, <1>5 DEF VerifyWalEmpty, XGoes, Left
  <2> QED BY <1>1, <1>2, <2>1 DEF ExportBounds
<1>6. ASSUME NEW step, NEW field \in {"rows", "sha"}, NEW value \in 0 .. MaxCommits,
             Records(step, field, value), UNCHANGED <<source, tarball, Left>>
      PROVE  ExportBounds'
  <2>1. export'.manifest = [export.manifest EXCEPT ![field] = value]
    BY <1>1, <1>6 DEF Records
  <2>2. export'.manifest \in Manifest
    BY <1>1, <1>6, <2>1 DEF Manifest
  <2> QED BY <1>1, <1>2, <1>6, <2>2 DEF ExportBounds, Left
<1>7. CASE RowCounts
  <2>1. TrackedRows(Commits) \in 0 .. MaxCommits
    BY <1>1, RowsAreCommits
  <2> QED BY <1>6, <1>7, <2>1 DEF RowCounts
<1>8. CASE Sha256
  BY <1>1, <1>6, <1>8 DEF Sha256
<1>9. CASE CountAndSize
  <2>1. export'.manifest = [[export.manifest EXCEPT !.companies = source.companies] EXCEPT !.context = source.context]
    BY <1>9 DEF CountAndSize
  <2>2. export'.manifest \in Manifest
    BY <1>1, <2>1 DEF Manifest
  <2> QED BY <1>1, <1>2, <1>9, <2>2 DEF CountAndSize, ExportBounds, Left
<1>10. CASE TarDb \/ TarWal \/ TarCompanies \/ TarContext
  <2>1. export'.manifest = export.manifest /\ UNCHANGED <<counted, source>>
    BY <1>1, <1>10 DEF TarDb, TarWal, TarCompanies, TarContext, XGoes, Left
  <2>2. tarball'.main \in {tarball.main, source.main} /\ tarball'.log \in {tarball.log, source.log, 0}
    BY <1>1, <1>10 DEF TarDb, TarWal, TarCompanies, TarContext, Stack
  <2> QED BY <1>1, <1>2, <2>1, <2>2 DEF ExportBounds
<1>11. CASE \/ (\E force \in BOOLEAN : Import(force)) \/ Verify
            \/ (\E part \in DOMAIN Vacant : TargetWorks(part))
  BY <1>1, <1>2, <1>11 DEF Import, Verify, TargetWorks, ExportBounds, Left
<1>12. CASE UNCHANGED exportVars
  BY <1>1, <1>2, <1>12 DEF exportVars, ExportBounds
<1> QED
  BY <1>3, <1>4, <1>5, <1>7, <1>8, <1>9, <1>10, <1>11, <1>12 DEF ExportNext

\* The source is within the bounds when the export begins.
LEMMA ExportInitIsBounded == ExportInit => ExportBounds
<1> SUFFICES ASSUME ExportInit PROVE ExportBounds
  OBVIOUS
<1>1. PICK n \in 0 .. MaxFiles, flushed \in BOOLEAN :
        source = [main |-> IF flushed THEN Commits ELSE 0,
                  log |-> IF flushed THEN 0 ELSE Commits,
                  companies |-> n, context |-> IF n = 0 THEN 0 ELSE 1]
  BY DEF ExportInit
<1>2. source.companies <= MaxFiles /\ source.context <= MaxFiles
  BY <1>1, ExportAssumption
<1>3. NoManifest \in Manifest /\ NoTree.main = 0 /\ NoTree.log = 0
  BY ExportAssumption DEF NoManifest, Manifest, NoTree
<1>4. Commits <= MaxCommits
  <2>1. counted = <<>> \/ counted = <<TRUE>>
    BY DEF ExportInit
  <2>2. Commits = 0 \/ Commits = 1
    <3>1. Len(<<>>) = 0 /\ Len(<<TRUE>>) = 1
      OBVIOUS
    <3> QED BY <2>1, <3>1, Zenon DEF Commits
  <2>3. MaxCommits \in Nat /\ MaxCommits # 0
    BY ExportAssumption
  <2> HIDE DEF Commits
  <2> QED BY <2>2, <2>3
<1> QED BY <1>2, <1>3, <1>4, ExportAssumption DEF ExportInit, ExportBounds

\* A manifest records figures the source can have, and the tarball holds no more
\* commits than there were, for any number of commits and files (migrate/exporter.py:69-186).
THEOREM ExportTypeCorrect == ExportSpec => []ExportTypeOK
<1>1. ExportInit => ExportInv /\ ExportBounds
  BY ExportInitRecords, ExportInitIsBounded
<1>2. ExportInv /\ ExportBounds /\ [ExportNext]_exportVars => (ExportInv /\ ExportBounds)'
  BY NextKeepsRecords, ExportNextIsBounded
<1>3. ExportInv /\ ExportBounds => ExportTypeOK
  BY ExportIsTyped
<1> QED BY <1>1, <1>2, <1>3, PTL DEF ExportSpec
================================================================================
