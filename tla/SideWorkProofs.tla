----------------------------- MODULE SideWorkProofs -----------------------------
(* What holds of the research beside the prep runs, for any launches, approvals, *)
(* tasks, formats and faults.  A speculative request: its types, and that one    *)
(* offered for review names a briefing folder that was written.  A job's study   *)
(* material: its types, that what was derived has its source in the folder, and  *)
(* that the row of an on-demand request claims no artifact that was not written. *)
EXTENDS MCSideWork, TLAPS

(***************************************************************************)
(* Speculative requests.                                                   *)
(***************************************************************************)

(* The folder is written before the row names it: a launch at its final UPDATE  *)
(* has a folder, and so has the launch the row shows.  Nothing makes a folder    *)
(* absent again.                                                                *)
FolderFirst ==
  /\ \A n \in Launches : launch[n].pc = "finish" => folder[n] # "absent"
  /\ spec.shown # NoLaunch => folder[spec.shown] # "absent"
  /\ spec.status = "ready_for_review" => spec.shown # NoLaunch

SpecInv == SpeculativeTypeOK /\ FolderFirst

LaunchRow == [row : {"unused", "running", "succeeded", "failed"}, aged : BOOLEAN,
              pc : {"off", "done"} \cup HandlerPcs \cup RunnerPcs]

-----------------------------------------------------------------------------
\* The types hold at first.
LEMMA InitIsTyped ==
  ASSUME SpeculativeInit PROVE SpeculativeTypeOK
BY DEF SpeculativeInit, SpeculativeTypeOK, Status, HandlerPcs, RunnerPcs

\* A step of a launch that only moves its program counter keeps the types.
LEMMA GoIsTyped ==
  ASSUME SpeculativeTypeOK, NEW n \in Launches,
         NEW pc \in {"off", "done"} \cup HandlerPcs \cup RunnerPcs, Go(n, pc)
  PROVE  launch' \in [Launches -> LaunchRow]
BY DEF SpeculativeTypeOK, Go, LaunchRow

\* So does one that writes a whole row.
LEMMA RowIsTyped ==
  ASSUME SpeculativeTypeOK, NEW n \in Launches, NEW entry \in LaunchRow,
         launch' = [launch EXCEPT ![n] = entry]
  PROVE  launch' \in [Launches -> LaunchRow]
BY DEF SpeculativeTypeOK, LaunchRow

\* Every action preserves the types.
LEMMA NextIsTyped ==
  ASSUME SpeculativeTypeOK, [SpeculativeNext]_spVars
  PROVE  SpeculativeTypeOK'
<1> USE DEF Status, HandlerPcs, RunnerPcs, spRow, Stays
<1>1. ASSUME NEW n \in Launches, PostSpeculative(n) \/ RegenerateCheck(n) \/ Handle(n)
      PROVE  SpeculativeTypeOK'
  <2>1. CASE PostSpeculative(n)
    BY <2>1, GoIsTyped DEF LaunchRow, PostSpeculative, SpeculativeTypeOK
  <2>2. CASE RegenerateCheck(n)
    BY <2>2, GoIsTyped DEF LaunchRow, RegenerateCheck, SpeculativeTypeOK
  <2>3. CASE RegenerateUpdate(n)
    BY <2>3, GoIsTyped DEF LaunchRow, RegenerateUpdate, SpeculativeTypeOK
  <2>4. CASE RecordLaunch(n)
    <3>1. launch[n] \in LaunchRow
      BY DEF SpeculativeTypeOK, LaunchRow
    <3> DEFINE entry == [launch[n] EXCEPT !.pc = "recorded", !.row = "running"]
    <3>2. entry \in LaunchRow
      BY <3>1 DEF LaunchRow
    <3>3. launch' = [launch EXCEPT ![n] = entry]
      BY <2>4 DEF RecordLaunch, SpeculativeTypeOK
    <3>4. launch' \in [Launches -> LaunchRow]
      BY <3>2, <3>3, RowIsTyped
    <3> QED BY <2>4, <3>4 DEF RecordLaunch, SpeculativeTypeOK, LaunchRow
  <2>5. CASE SpawnResearch(n)
    BY <2>5, GoIsTyped DEF LaunchRow, SpawnResearch, SpeculativeTypeOK
  <2> QED BY <1>1, <2>1, <2>2, <2>3, <2>4, <2>5 DEF Handle
<1>2. ASSUME NEW n \in Launches, Research(n)
      PROVE  SpeculativeTypeOK'
  <2>1. CASE ReadRequest(n)
    BY <2>1, GoIsTyped DEF LaunchRow, ReadRequest, SpeculativeTypeOK
  <2>2. CASE WriteBriefing(n)
    BY <2>2, GoIsTyped DEF LaunchRow, WriteBriefing, SpeculativeTypeOK
  <2>3. CASE Synthesise(n)
    BY <2>3, GoIsTyped DEF LaunchRow, Synthesise, SpeculativeTypeOK
  <2>4. CASE WriteFolder(n)
    BY <2>4, GoIsTyped DEF LaunchRow, WriteFolder, SpeculativeTypeOK
  <2>5. CASE FinishResearch(n)
    BY <2>5, GoIsTyped DEF LaunchRow, FinishResearch, SpeculativeTypeOK
  <2>6. CASE MarkFailed(n)
    BY <2>6, GoIsTyped DEF LaunchRow, MarkFailed, SpeculativeTypeOK
  <2>7. CASE Uncaught(n)
    BY <2>7, GoIsTyped DEF LaunchRow, Uncaught, SpeculativeTypeOK
  <2>8. CASE CloseResearch(n)
    <3>1. launch[n] \in LaunchRow
      BY DEF SpeculativeTypeOK, LaunchRow
    <3> DEFINE end == IF launch[n].row # "running" THEN launch[n].row
                      ELSE IF At(n, "close_ok") THEN "succeeded" ELSE "failed"
               entry == [launch[n] EXCEPT !.row = end, !.pc = "done"]
    <3>2. entry \in LaunchRow
      BY <3>1 DEF LaunchRow
    <3>3. launch' = [launch EXCEPT ![n] = entry]
      BY <2>8 DEF CloseResearch, SpeculativeTypeOK
    <3>4. launch' \in [Launches -> LaunchRow]
      BY <3>2, <3>3, RowIsTyped
    <3> QED BY <2>8, <3>4 DEF CloseResearch, SpeculativeTypeOK, LaunchRow
  <2> QED BY <1>2, <2>1, <2>2, <2>3, <2>4, <2>5, <2>6, <2>7, <2>8 DEF Research
<1>3. ASSUME NEW n \in Launches,
             PopenResearchFails(n) \/ Watch(n) \/ SweepBriefing(n) \/ KillResearch(n)
      PROVE  SpeculativeTypeOK'
  <2>1. CASE PopenResearchFails(n)
    BY <2>1 DEF PopenResearchFails, SpeculativeTypeOK
  <2>2. CASE AgeResearch(n)
    BY <2>2 DEF AgeResearch, SpeculativeTypeOK
  <2>3. CASE ListStuck(n)
    BY <2>3 DEF ListStuck, SpeculativeTypeOK
  <2>4. CASE SweepBriefing(n)
    BY <2>4 DEF SweepBriefing, SpeculativeTypeOK
  <2>5. CASE KillResearch(n)
    BY <2>5, GoIsTyped DEF LaunchRow, KillResearch, SpeculativeTypeOK
  <2> QED BY <1>3, <2>1, <2>2, <2>3, <2>4, <2>5 DEF Watch
<1>4. ASSUME NEW a \in Approvers, ApproveRead(a) \/ ApproveWrite(a)
      PROVE  SpeculativeTypeOK'
  <2>1. CASE ApproveRead(a)
    BY <2>1 DEF ApproveRead, SpeculativeTypeOK
  <2>2. CASE ApproveWrite(a)
    <3>1. approval[a] \in Launches
      BY <2>2 DEF ApproveWrite, SpeculativeTypeOK
    <3> QED BY <2>2, <3>1 DEF ApproveWrite, SpeculativeTypeOK
  <2> QED BY <1>4, <2>1, <2>2
<1>5. CASE TrashRequest
  BY <1>5 DEF TrashRequest, SpeculativeTypeOK
<1>6. CASE CloseStuck
  <2>1. CASE dog.row \in Launches
    <3>1. launch[dog.row] \in LaunchRow
      BY <2>1 DEF SpeculativeTypeOK, LaunchRow
    <3> DEFINE end == IF launch[dog.row].row = "running" THEN "failed" ELSE launch[dog.row].row
               entry == [launch[dog.row] EXCEPT !.row = end]
    <3>2. entry \in LaunchRow
      BY <3>1 DEF LaunchRow
    <3>3. launch' = [launch EXCEPT ![dog.row] = entry]
      BY <1>6, <2>1 DEF CloseStuck, SpeculativeTypeOK
    <3>4. launch' \in [Launches -> LaunchRow]
      BY <2>1, <3>2, <3>3, RowIsTyped
    <3> QED BY <1>6, <3>4 DEF CloseStuck, SpeculativeTypeOK, LaunchRow
  <2>2. CASE dog.row \notin Launches
    <3>1. launch' = launch
      BY <1>6, <2>2 DEF CloseStuck, SpeculativeTypeOK
    <3> QED BY <1>6, <3>1 DEF CloseStuck, SpeculativeTypeOK
  <2> QED BY <2>1, <2>2
<1>7. CASE FailReaped
  BY <1>7 DEF FailReaped, SpeculativeTypeOK
<1>8. CASE RestartStack
  BY <1>8 DEF RestartStack, SpeculativeTypeOK, At
<1>9. CASE UNCHANGED spVars
  BY <1>9 DEF spVars, SpeculativeTypeOK
<1> QED
  BY <1>1, <1>2, <1>3, <1>4, <1>5, <1>6, <1>7, <1>8, <1>9 DEF SpeculativeNext, Watchdog

-----------------------------------------------------------------------------
\* A step that leaves folders and the row alone, and takes no launch to its
\* final UPDATE, keeps the order.
LEMMA OrderIsKept ==
  ASSUME SpecInv, SpeculativeTypeOK', UNCHANGED folder,
         spec'.shown \in {spec.shown, NoLaunch},
         spec'.status = "ready_for_review"
           => spec.status = "ready_for_review" /\ spec'.shown = spec.shown,
         \A n \in Launches : launch'[n].pc = "finish" => launch[n].pc = "finish"
  PROVE  FolderFirst'
BY DEF SpecInv, FolderFirst

\* A launch that moves anywhere but to its final UPDATE takes none there.
LEMMA MovesElsewhere ==
  ASSUME SpeculativeTypeOK, NEW n \in Launches, NEW pc, pc # "finish", Go(n, pc)
  PROVE  \A m \in Launches : launch'[m].pc = "finish" => launch[m].pc = "finish"
BY DEF SpeculativeTypeOK, Go

\* Every action preserves the order.
LEMMA NextKeepsOrder ==
  ASSUME SpecInv, SpeculativeTypeOK', [SpeculativeNext]_spVars
  PROVE  FolderFirst'
<1> USE DEF spRow, Stays
<1> SpeculativeTypeOK
  BY DEF SpecInv
<1>1. ASSUME NEW n \in Launches, WriteFolder(n)
      PROVE  FolderFirst'
  BY <1>1 DEF WriteFolder, Go, At, SpecInv, FolderFirst, SpeculativeTypeOK
<1>2. ASSUME NEW n \in Launches, FinishResearch(n)
      PROVE  FolderFirst'
  BY <1>2, SpeculativeAssumption
     DEF FinishResearch, Go, At, SpecInv, FolderFirst, SpeculativeTypeOK
<1>3. ASSUME NEW n \in Launches, SweepBriefing(n)
      PROVE  FolderFirst'
  BY <1>3 DEF SweepBriefing, SpecInv, FolderFirst, SpeculativeTypeOK
<1>4. ASSUME NEW n \in Launches, PostSpeculative(n) \/ RegenerateCheck(n) \/ Handle(n)
      PROVE  FolderFirst'
  <2>1. CASE PostSpeculative(n)
    BY <2>1, MovesElsewhere, OrderIsKept DEF PostSpeculative, SpeculativeTypeOK
  <2>2. CASE RegenerateCheck(n)
    BY <2>2, MovesElsewhere, OrderIsKept DEF RegenerateCheck, SpeculativeTypeOK
  <2>3. CASE RegenerateUpdate(n)
    BY <2>3, MovesElsewhere, OrderIsKept DEF RegenerateUpdate, SpeculativeTypeOK
  <2>4. CASE RecordLaunch(n)
    <3>1. \A m \in Launches : launch'[m].pc = "finish" => launch[m].pc = "finish"
      BY <2>4 DEF RecordLaunch, SpeculativeTypeOK
    <3> QED BY <2>4, <3>1, OrderIsKept DEF RecordLaunch
  <2>5. CASE SpawnResearch(n)
    BY <2>5, MovesElsewhere, OrderIsKept DEF SpawnResearch, SpeculativeTypeOK
  <2> QED BY <1>4, <2>1, <2>2, <2>3, <2>4, <2>5 DEF Handle
<1>5. ASSUME NEW n \in Launches, ReadRequest(n) \/ WriteBriefing(n) \/ Synthesise(n)
      PROVE  FolderFirst'
  <2>1. CASE ReadRequest(n)
    BY <2>1, MovesElsewhere, OrderIsKept DEF ReadRequest, SpeculativeTypeOK
  <2>2. CASE WriteBriefing(n)
    BY <2>2, MovesElsewhere, OrderIsKept DEF WriteBriefing, SpeculativeTypeOK
  <2>3. CASE Synthesise(n)
    BY <2>3, MovesElsewhere, OrderIsKept DEF Synthesise, SpeculativeTypeOK
  <2> QED BY <1>5, <2>1, <2>2, <2>3
<1>6. ASSUME NEW n \in Launches, MarkFailed(n) \/ Uncaught(n) \/ CloseResearch(n)
      PROVE  FolderFirst'
  <2>1. CASE MarkFailed(n)
    BY <2>1, MovesElsewhere, OrderIsKept DEF MarkFailed, SpeculativeTypeOK
  <2>2. CASE Uncaught(n)
    BY <2>2, MovesElsewhere, OrderIsKept DEF Uncaught, SpeculativeTypeOK
  <2>3. CASE CloseResearch(n)
    <3>1. \A m \in Launches : launch'[m].pc = "finish" => launch[m].pc = "finish"
      BY <2>3 DEF CloseResearch, SpeculativeTypeOK
    <3> QED BY <2>3, <3>1, OrderIsKept DEF CloseResearch
  <2> QED BY <1>6, <2>1, <2>2, <2>3
<1>7. ASSUME NEW n \in Launches, PopenResearchFails(n) \/ Watch(n) \/ KillResearch(n)
      PROVE  FolderFirst'
  <2>1. CASE PopenResearchFails(n)
    <3>1. \A m \in Launches : launch'[m].pc = "finish" => launch[m].pc = "finish"
      BY <2>1 DEF PopenResearchFails, SpeculativeTypeOK
    <3> QED BY <2>1, <3>1, OrderIsKept DEF PopenResearchFails
  <2>2. CASE AgeResearch(n)
    <3>1. \A m \in Launches : launch'[m].pc = "finish" => launch[m].pc = "finish"
      BY <2>2 DEF AgeResearch, SpeculativeTypeOK
    <3> QED BY <2>2, <3>1, OrderIsKept DEF AgeResearch
  <2>3. CASE ListStuck(n)
    <3>1. \A m \in Launches : launch'[m].pc = "finish" => launch[m].pc = "finish"
      BY <2>3 DEF ListStuck, SpeculativeTypeOK
    <3> QED BY <2>3, <3>1, OrderIsKept DEF ListStuck
  <2>4. CASE KillResearch(n)
    BY <2>4, MovesElsewhere, OrderIsKept DEF KillResearch, SpeculativeTypeOK
  <2> QED BY <1>7, <2>1, <2>2, <2>3, <2>4 DEF Watch
<1>8. ASSUME NEW a \in Approvers, ApproveRead(a) \/ ApproveWrite(a)
      PROVE  FolderFirst'
  BY <1>8, OrderIsKept DEF ApproveRead, ApproveWrite, SpecInv, SpeculativeTypeOK
<1>9. CASE TrashRequest \/ CloseStuck \/ FailReaped \/ RestartStack
  <2>1. CASE TrashRequest
    BY <2>1, OrderIsKept DEF TrashRequest, SpeculativeTypeOK
  <2>2. CASE CloseStuck
    <3>1. \A m \in Launches : launch'[m].pc = "finish" => launch[m].pc = "finish"
      BY <2>2 DEF CloseStuck, SpeculativeTypeOK
    <3> QED BY <2>2, <3>1, OrderIsKept DEF CloseStuck
  <2>3. CASE FailReaped
    BY <2>3, OrderIsKept DEF FailReaped, SpeculativeTypeOK
  <2>4. CASE RestartStack
    <3>1. \A m \in Launches : launch'[m].pc = "finish" => launch[m].pc = "finish"
      BY <2>4 DEF RestartStack, SpeculativeTypeOK
    <3> QED BY <2>4, <3>1, OrderIsKept DEF RestartStack
  <2> QED BY <1>9, <2>1, <2>2, <2>3, <2>4
<1>10. CASE UNCHANGED spVars
  BY <1>10 DEF spVars, SpecInv, FolderFirst
<1> QED
  BY <1>1, <1>2, <1>3, <1>4, <1>5, <1>6, <1>7, <1>8, <1>9, <1>10
     DEF SpeculativeNext, Research, Watchdog

-----------------------------------------------------------------------------
\* Every reachable state has the declared types, for any launches and faults.
THEOREM RequestTypeCorrect == SpeculativeSpec => []SpeculativeTypeOK
<1>1. SpeculativeInit => SpeculativeTypeOK
  BY InitIsTyped
<1>2. SpeculativeTypeOK /\ [SpeculativeNext]_spVars => SpeculativeTypeOK'
  BY NextIsTyped
<1> QED BY <1>1, <1>2, PTL DEF SpeculativeSpec

\* A request offered for review has cards, and the folder written for them was
\* on disk first, however launches, reapers, regenerations and crashes overlap
\* (speculative/runner.py:135-149).
THEOREM OfferedIsWritten == SpeculativeSpec => []ReadyHasBriefing
<1>1. SpeculativeInit => SpecInv
  BY InitIsTyped DEF SpeculativeInit, SpecInv, FolderFirst
<1>2. SpecInv /\ [SpeculativeNext]_spVars => SpecInv'
  BY NextIsTyped, NextKeepsOrder DEF SpecInv
<1>3. SpecInv => ReadyHasBriefing
  BY DEF SpecInv, FolderFirst, ReadyHasBriefing
<1> QED BY <1>1, <1>2, <1>3, PTL DEF SpeculativeSpec

(***************************************************************************)
(* Study material.                                                         *)
(***************************************************************************)


PrepBy(p) == [what |-> "interview_prep", by |-> p, from |-> p]

(* A generator that is to derive has a source, and the source is in the folder. *)
Deriving(t) == gen[t].pc \in OnDemand \/ (gen[t].pc = "checked" /\ InHandler(t))

SourceStands ==
  /\ \A t \in Tasks : Deriving(t) => PrepBy(gen[t].from) \in files
  /\ \A f \in files : PrepBy(f.from) \in files
  /\ \A f \in files : f.what = "interview_prep" => f.from = f.by

(* A handler makes its one artifact and closes its row by it, once.             *)
ClosesOnce(t) ==
  /\ row[t].status = "succeeded" => gen[t].pc = "done"
  /\ InHandler(t) => gen[t].pc \notin {"recorded", "look", "prep"}
  /\ InHandler(t) /\ gen[t].pc = "close_ok" => t \in written
  /\ InHandler(t) /\ row[t].status = "succeeded" => t \in written

HandlerClosesOnce == \A t \in Tasks : ClosesOnce(t)

StudyInv == StudyTypeOK /\ SourceStands /\ HandlerClosesOnce

GenRow == [pc : {"off", "done"} \cup GenPcs, path : Places,
           from : Tasks \cup {NoTaskRef}, format : Podcasts]
JobRow == [stage : Stages, was : Stages, path : Places]
TaskRow == [status : {"unused", "running", "succeeded", "failed"}, kind : Kinds, aged : BOOLEAN]

-----------------------------------------------------------------------------
\* A generator that goes on keeps its path, its source and its format.
LEMMA GotoGoes ==
  ASSUME gen \in [Tasks -> GenRow], NEW t \in Tasks,
         NEW pc \in {"off", "done"} \cup GenPcs, Goto(t, pc)
  PROVE  /\ gen' \in [Tasks -> GenRow] /\ gen'[t] = [gen[t] EXCEPT !.pc = pc]
         /\ gen'[t].pc = pc /\ gen'[t].from = gen[t].from
         /\ \A u \in Tasks : u # t => gen'[u] = gen[u]
BY DEF Goto, GenRow

\* A generator that is over has neither.
LEMMA OverEnds ==
  ASSUME gen \in [Tasks -> GenRow], NEW t \in Tasks, Over(t)
  PROVE  /\ gen' \in [Tasks -> GenRow] /\ gen'[t].pc = "done"
         /\ \A u \in Tasks : u # t => gen'[u] = gen[u]
BY StudyAssumption DEF Over, Fresh, GenRow, GenPcs, Places

\* A write adds a file, and takes at most another of the same format.
LEMMA PutAdds ==
  ASSUME files \subseteq File, NEW t \in Tasks, NEW what \in Artifact, NEW from \in Tasks,
         Put(t, what, from)
  PROVE  /\ files' \subseteq File
         /\ \A f \in files' : f \in files \/ f = [what |-> what, by |-> t, from |-> from]
         /\ [what |-> what, by |-> t, from |-> from] \in files'
         /\ \A p \in Tasks : PrepBy(p) \in files => PrepBy(p) \in files'
<1> DEFINE new == [what |-> what, by |-> t, from |-> from]
<1>1. new \in File
  BY DEF File
<1>2. files' = { f \in files : f.what # what \/ what \notin Podcasts } \cup {new}
  BY DEF Put
<1>3. \A p : PrepBy(p).what = "interview_prep"
  BY DEF PrepBy
<1> HIDE DEF new
<1>4. \A p : PrepBy(p) \in files => PrepBy(p) \in files'
  <2>1. what = "interview_prep" => what \notin Podcasts
    BY StudyAssumption
  <2> QED BY <1>2, <1>3, <2>1
<1> QED BY <1>1, <1>2, <1>4 DEF new

-----------------------------------------------------------------------------
\* What a step of one task has to respect.
LEMMA StepKeeps ==
  ASSUME StudyInv, NEW t \in Tasks,
         gen' \in [Tasks -> GenRow], row' \in [Tasks -> TaskRow],
         files' \subseteq File, written' \subseteq Tasks, job' \in JobRow,
         \A u \in Tasks : u # t => /\ gen'[u] = gen[u] /\ row'[u] = row[u]
                                   /\ u \in written => u \in written',
         \A p \in Tasks : PrepBy(p) \in files => PrepBy(p) \in files',
         \A f \in files' : \/ f \in files
                            \/ /\ PrepBy(f.from) \in files'
                               /\ f.what = "interview_prep" => f.from = f.by,
         Deriving(t)' => PrepBy(gen'[t].from) \in files',
         \A u \in Tasks : Deriving(u) => gen[u].from \in Tasks,
         ClosesOnce(t)'
  PROVE  StudyInv'
<1>1. StudyTypeOK'
  BY DEF StudyInv, StudyTypeOK, GenRow, TaskRow, JobRow
<1>2. SourceStands'
  <2>1. \A u \in Tasks : Deriving(u)' => PrepBy(gen'[u].from) \in files'
    BY DEF StudyInv, SourceStands, Deriving, InHandler, Kind
  <2>2. \A f \in files' : f \in files => PrepBy(f.from) \in files'
    BY DEF StudyInv, SourceStands, File, StudyTypeOK
  <2> QED BY <2>1, <2>2 DEF StudyInv, SourceStands
<1>3. HandlerClosesOnce'
  BY DEF StudyInv, HandlerClosesOnce, ClosesOnce, InHandler, Kind
<1> QED BY <1>1, <1>2, <1>3 DEF StudyInv

-----------------------------------------------------------------------------
\* The source of a generator that is to derive is a task.
LEMMA SourceIsTask ==
  ASSUME StudyInv
  PROVE  \A u \in Tasks : Deriving(u) => gen[u].from \in Tasks
<1> SUFFICES ASSUME NEW u \in Tasks, Deriving(u)
             PROVE  gen[u].from \in Tasks
  OBVIOUS
<1>1. PrepBy(gen[u].from) \in File
  BY DEF StudyInv, StudyTypeOK, SourceStands
<1> QED BY <1>1 DEF File, PrepBy

\* A request begins with a source, if it is to derive.
LEMMA BeginKeeps ==
  ASSUME StudyInv, NEW t \in Tasks, NEW kind \in Kinds, NEW source \in Tasks \cup {NoTaskRef},
         NEW format \in Podcasts, Begin(t, kind, source, format), job' \in JobRow,
         kind \in OnDemand => PrepBy(source) \in files
  PROVE  StudyInv'
<1> DEFINE next == [pc |-> "checked", path |-> job.path, from |-> source, format |-> format]
           close == [row[t] EXCEPT !.kind = kind]
<1>1. gen \in [Tasks -> GenRow] /\ row \in [Tasks -> TaskRow]
  BY DEF StudyInv, StudyTypeOK, GenRow, TaskRow
<1>2. next \in GenRow /\ next.pc = "checked" /\ next.from = source
  BY DEF StudyInv, StudyTypeOK, GenRow, GenPcs
<1>3. close \in TaskRow /\ close.kind = kind /\ close.status = row[t].status
  BY <1>1 DEF TaskRow
<1>4. gen' = [gen EXCEPT ![t] = next] /\ row' = [row EXCEPT ![t] = close]
  BY <1>1 DEF Begin, TaskRow
<1>5. gen[t].pc = "off" /\ UNCHANGED <<files, written>>
  BY DEF Begin
<1>6. row[t].status # "succeeded"
  BY <1>5 DEF StudyInv, HandlerClosesOnce, ClosesOnce
<1> HIDE DEF next, close
<1>7. /\ gen' \in [Tasks -> GenRow] /\ gen'[t] = next
      /\ row' \in [Tasks -> TaskRow] /\ row'[t] = close
      /\ \A u \in Tasks : u # t => gen'[u] = gen[u] /\ row'[u] = row[u]
  BY <1>1, <1>2, <1>3, <1>4
<1>8. files' \subseteq File /\ written' \subseteq Tasks
  BY <1>5 DEF StudyInv, StudyTypeOK
<1>9. Deriving(t)' => PrepBy(gen'[t].from) \in files'
  BY <1>2, <1>3, <1>5, <1>7 DEF Deriving, InHandler, Kind, OnDemand, Study
<1>10. ClosesOnce(t)'
  BY <1>2, <1>3, <1>6, <1>7 DEF ClosesOnce
<1> QED BY <1>5, <1>7, <1>8, <1>9, <1>10, SourceIsTask, StepKeeps

\* The row of a task, whatever settles it.
LEMMA SettleSettles ==
  ASSUME row \in [Tasks -> TaskRow], NEW t \in Tasks, NEW status \in {"succeeded", "failed"},
         Settle(t, status)
  PROVE  /\ row' \in [Tasks -> TaskRow] /\ row'[t].kind = row[t].kind
         /\ row'[t].status \in {row[t].status, status}
         /\ \A u \in Tasks : u # t => row'[u] = row[u]
<1> DEFINE next == [row[t] EXCEPT !.status = status, !.aged = FALSE]
<1>1. next \in TaskRow /\ next.kind = row[t].kind /\ next.status = status
  BY DEF TaskRow
<1>2. row' = row \/ row' = [row EXCEPT ![t] = next]
  BY DEF Settle, TaskRow
<1> HIDE DEF next
<1> QED BY <1>1, <1>2

\* An artifact is written beside the source its generator holds.
LEMMA MakeKeeps ==
  ASSUME StudyInv, NEW t \in Tasks, NEW what \in Artifact \ {"interview_prep"},
         gen[t].pc \in OnDemand, NEW next \in {"flashcards", "podcast", "close_ok"},
         \/ Put(t, what, gen[t].from) /\ Made(t) /\ After(t, next, TRUE)
         \/ files' = files /\ NotMade(t) /\ After(t, next, FALSE),
         UNCHANGED <<job, row>>
  PROVE  StudyInv'
<1>1. /\ gen \in [Tasks -> GenRow] /\ row \in [Tasks -> TaskRow] /\ files \subseteq File
      /\ job \in JobRow /\ written \subseteq Tasks
  BY DEF StudyInv, StudyTypeOK, GenRow, TaskRow, JobRow
<1>2. gen[t].from \in Tasks /\ PrepBy(gen[t].from) \in files
  BY SourceIsTask DEF StudyInv, SourceStands, Deriving
<1>3. row[t].status # "succeeded"
  BY DEF StudyInv, HandlerClosesOnce, ClosesOnce, OnDemand, Study
<1>4. PICK pc \in {"flashcards", "podcast", "close_ok", "close_fail"} :
        /\ Goto(t, pc)
        /\ InHandler(t) /\ pc = "close_ok" => t \in written'
        /\ InHandler(t) => pc \in {"close_ok", "close_fail"}
  BY DEF After, Made
<1>5. /\ gen' \in [Tasks -> GenRow] /\ gen'[t].pc = pc /\ gen'[t].from = gen[t].from
      /\ \A u \in Tasks : u # t => gen'[u] = gen[u]
  BY <1>1, <1>4, GotoGoes DEF GenPcs
<1>6. /\ files' \subseteq File
      /\ \A p \in Tasks : PrepBy(p) \in files => PrepBy(p) \in files'
      /\ \A f \in files' : f \in files \/ (f.from = gen[t].from /\ f.what # "interview_prep")
  <2>1. CASE files' = files
    BY <1>1, <2>1
  <2>2. CASE Put(t, what, gen[t].from)
    <3> DEFINE new == [what |-> what, by |-> t, from |-> gen[t].from]
    <3>1. new.what = what /\ new.from = gen[t].from
      OBVIOUS
    <3>2. /\ files' \subseteq File /\ \A f \in files' : f \in files \/ f = new
          /\ \A p \in Tasks : PrepBy(p) \in files => PrepBy(p) \in files'
      BY <1>1, <1>2, <2>2, PutAdds
    <3> QED BY <3>1, <3>2
  <2> QED BY <2>1, <2>2
<1>7. written' \subseteq Tasks /\ \A u \in Tasks : u # t /\ u \in written => u \in written'
  BY <1>1 DEF Made, NotMade
<1>8. Deriving(t)' => PrepBy(gen'[t].from) \in files'
  BY <1>2, <1>5, <1>6
<1>9. ClosesOnce(t)'
  BY <1>3, <1>4, <1>5 DEF ClosesOnce, InHandler, Kind
<1> QED BY <1>1, <1>2, <1>5, <1>6, <1>7, <1>8, <1>9, SourceIsTask, StepKeeps

\* Every action preserves the invariant.
LEMMA NextKeepsStudy ==
  ASSUME StudyInv, [StudyNext]_stVars
  PROVE  StudyInv'
<1>1. /\ gen \in [Tasks -> GenRow] /\ row \in [Tasks -> TaskRow] /\ files \subseteq File
      /\ job \in JobRow /\ written \subseteq Tasks
  BY DEF StudyInv, StudyTypeOK, GenRow, TaskRow, JobRow
<1>2. \A p \in Preps : p \in Tasks /\ PrepBy(p) \in files
  BY <1>1 DEF Preps, StudyInv, SourceStands, File
<1>3. ASSUME NEW t \in Tasks, InterviewClick(t) \/ Rerun(t)
      PROVE  StudyInv'
  <2>1. job' \in JobRow
    BY <1>1, <1>3 DEF InterviewClick, Rerun, JobRow, Stages
  <2>2. Begin(t, "interview_prep", NoTaskRef, DeepDive)
    BY <1>3 DEF InterviewClick, Rerun
  <2>3. "interview_prep" \in Kinds \ OnDemand /\ DeepDive \in Podcasts
    BY StudyAssumption DEF Kinds, OnDemand, Study
  <2> QED BY <2>1, <2>2, <2>3, BeginKeeps
<1>4. ASSUME NEW t \in Tasks, NEW kind \in Study, StudyRequest(t, kind)
      PROVE  StudyInv'
  <2>1. PICK p \in Preps : Begin(t, kind, p, DeepDive)
    BY <1>4 DEF StudyRequest
  <2>2. kind \in Kinds /\ DeepDive \in Podcasts /\ job' \in JobRow
    BY <1>1, <1>4, StudyAssumption DEF Kinds, OnDemand, StudyRequest
  <2> QED BY <1>2, <2>1, <2>2, BeginKeeps
<1>5. ASSUME NEW t \in Tasks, NEW format \in Podcasts, PodcastRequest(t, format)
      PROVE  StudyInv'
  <2>1. PICK p \in Preps : Begin(t, "podcast", p, format)
    BY <1>5 DEF PodcastRequest
  <2>2. "podcast" \in Kinds /\ job' \in JobRow
    BY <1>1, <1>5 DEF Kinds, OnDemand, PodcastRequest
  <2> QED BY <1>2, <2>1, <2>2, BeginKeeps
<1>6. ASSUME NEW t \in Tasks, RecordTask(t)
      PROVE  StudyInv'
  <2> DEFINE pc == IF InHandler(t) THEN Kind(t) ELSE "recorded"
             next == [row[t] EXCEPT !.status = "running"]
  <2>1. gen[t].pc = "checked" /\ Goto(t, pc) /\ UNCHANGED <<job, files, written>>
    BY <1>6 DEF RecordTask
  <2>2. pc \in GenPcs /\ (InHandler(t) <=> pc \in OnDemand) /\ pc \notin {"look", "prep", "close_ok"}
        /\ (InHandler(t) => pc # "recorded") /\ pc # "checked"
    BY DEF InHandler, OnDemand, Study, GenPcs
  <2>3. next \in TaskRow /\ next.kind = row[t].kind /\ next.status = "running"
    BY <1>1 DEF TaskRow
  <2>4. row' = [row EXCEPT ![t] = next]
    BY <1>1, <1>6 DEF RecordTask, TaskRow
  <2> HIDE DEF pc, next
  <2>5. /\ gen' \in [Tasks -> GenRow] /\ gen'[t].pc = pc /\ gen'[t].from = gen[t].from
        /\ row' \in [Tasks -> TaskRow] /\ row'[t] = next
        /\ \A u \in Tasks : u # t => gen'[u] = gen[u] /\ row'[u] = row[u]
    BY <1>1, <2>1, <2>2, <2>3, <2>4, GotoGoes
  <2>6. Deriving(t)' => PrepBy(gen'[t].from) \in files'
    BY <2>1, <2>2, <2>5 DEF Deriving, StudyInv, SourceStands
  <2>7. ClosesOnce(t)'
    BY <2>2, <2>3, <2>5 DEF ClosesOnce, InHandler, Kind
  <2> QED BY <1>1, <2>1, <2>5, <2>6, <2>7, SourceIsTask, StepKeeps
<1>7. ASSUME NEW t \in Tasks, SpawnPrep(t) \/ Look(t)
      PROVE  StudyInv'
  <2> DEFINE far == [gen[t] EXCEPT !.pc = "prep", !.path = job.path]
  <2>1. gen[t].pc \in {"recorded", "look"} /\ UNCHANGED <<job, files, row, written>>
    BY <1>7 DEF SpawnPrep, Look
  <2>2. ~InHandler(t) /\ row[t].status # "succeeded"
    BY <2>1 DEF StudyInv, HandlerClosesOnce, ClosesOnce
  <2>3. far \in GenRow /\ far.pc = "prep"
    BY <1>1 DEF GenRow, JobRow, GenPcs
  <2>4. \/ Goto(t, "look") \/ Goto(t, "close_ok")
        \/ gen' = [gen EXCEPT ![t] = far]
    BY <1>1, <1>7 DEF SpawnPrep, Look, GenRow
  <2> HIDE DEF far
  <2>5. /\ gen' \in [Tasks -> GenRow] /\ gen'[t].pc \in {"look", "close_ok", "prep"}
        /\ \A u \in Tasks : u # t => gen'[u] = gen[u]
    BY <1>1, <2>3, <2>4, GotoGoes DEF GenPcs
  <2>6. ~Deriving(t)' /\ ClosesOnce(t)'
    BY <2>1, <2>2, <2>5 DEF Deriving, OnDemand, Study, ClosesOnce, InHandler, Kind
  <2> QED BY <1>1, <2>1, <2>5, <2>6, SourceIsTask, StepKeeps
<1>8. ASSUME NEW t \in Tasks, WritePrep(t)
      PROVE  StudyInv'
  <2> DEFINE far == [gen[t] EXCEPT !.pc = "study_guide", !.from = t]
  <2>1. gen[t].pc = "prep" /\ UNCHANGED <<job, row, written>>
    BY <1>8 DEF WritePrep
  <2>2. ~InHandler(t) /\ row[t].status # "succeeded"
    BY <2>1 DEF StudyInv, HandlerClosesOnce, ClosesOnce
  <2>3. far \in GenRow /\ far.pc = "study_guide" /\ far.from = t
    BY <1>1 DEF GenRow, GenPcs
  <2>4. \/ Put(t, "interview_prep", t) /\ gen' = [gen EXCEPT ![t] = far]
        \/ files' = files /\ (Goto(t, "close_ok") \/ Goto(t, "close_fail"))
    BY <1>1, <1>8 DEF WritePrep, GenRow
  <2> HIDE DEF far
  <2>5. CASE Put(t, "interview_prep", t) /\ gen' = [gen EXCEPT ![t] = far]
    <3>1. /\ gen' \in [Tasks -> GenRow] /\ gen'[t].pc = "study_guide" /\ gen'[t].from = t
          /\ \A u \in Tasks : u # t => gen'[u] = gen[u]
      BY <1>1, <2>3, <2>5
    <3>2. /\ files' \subseteq File /\ PrepBy(t) \in files'
          /\ \A f \in files' : f \in files \/ f = PrepBy(t)
          /\ \A p \in Tasks : PrepBy(p) \in files => PrepBy(p) \in files'
      BY <1>1, <2>5, PutAdds DEF PrepBy, Artifact
    <3>3. ClosesOnce(t)'
      BY <2>1, <2>2, <3>1 DEF ClosesOnce, InHandler, Kind
    <3>4. PrepBy(t).from = t /\ PrepBy(t).by = t
      BY DEF PrepBy
    <3> QED BY <1>1, <2>1, <3>1, <3>2, <3>3, <3>4, SourceIsTask, StepKeeps
  <2>6. CASE files' = files /\ (Goto(t, "close_ok") \/ Goto(t, "close_fail"))
    <3>1. /\ gen' \in [Tasks -> GenRow] /\ gen'[t].pc \in {"close_ok", "close_fail"}
          /\ \A u \in Tasks : u # t => gen'[u] = gen[u]
      BY <1>1, <2>6, GotoGoes DEF GenPcs
    <3>2. ~Deriving(t)' /\ ClosesOnce(t)'
      BY <2>1, <2>2, <3>1 DEF Deriving, OnDemand, Study, ClosesOnce, InHandler, Kind
    <3> QED BY <1>1, <2>1, <2>6, <3>1, <3>2, SourceIsTask, StepKeeps
  <2> QED BY <2>4, <2>5, <2>6
<1>9. ASSUME NEW t \in Tasks, StudyGuide(t) \/ Flashcards(t) \/ Podcast(t)
      PROVE  StudyInv'
  <2>1. UNCHANGED <<job, row>> /\ gen[t].pc \in OnDemand
    BY <1>9 DEF StudyGuide, Flashcards, Podcast, OnDemand, Study
  <2>2. gen[t].format \in Artifact \ {"interview_prep"}
    BY <1>1, StudyAssumption DEF GenRow, Artifact
  <2>3. {"study_guide", "flashcards"} \subseteq Artifact \ {"interview_prep"}
    BY DEF Artifact, Study
  <2>4. CASE StudyGuide(t)
    BY <2>1, <2>3, <2>4, MakeKeeps DEF StudyGuide
  <2>5. CASE Flashcards(t)
    BY <2>1, <2>3, <2>5, MakeKeeps DEF Flashcards
  <2>6. CASE Podcast(t)
    BY <2>1, <2>2, <2>6, MakeKeeps DEF Podcast
  <2> QED BY <1>9, <2>4, <2>5, <2>6
<1>10. ASSUME NEW t \in Tasks, CloseTask(t) \/ PopenPrepFails(t) \/ KillPrep(t)
       PROVE  StudyInv'
  <2>1. Over(t) /\ UNCHANGED <<job, files, written>>
    BY <1>10 DEF CloseTask, PopenPrepFails, KillPrep
  <2>2. /\ gen' \in [Tasks -> GenRow] /\ gen'[t].pc = "done"
        /\ \A u \in Tasks : u # t => gen'[u] = gen[u]
    BY <1>1, <2>1, OverEnds
  <2>3. /\ row' \in [Tasks -> TaskRow] /\ row'[t].kind = row[t].kind
        /\ \A u \in Tasks : u # t => row'[u] = row[u]
        /\ \/ row'[t].status \in {row[t].status, "failed"}
           \/ gen[t].pc = "close_ok"
    <3>1. CASE CloseTask(t)
      BY <1>1, <3>1, SettleSettles DEF CloseTask
    <3>2. CASE PopenPrepFails(t)
      <4> DEFINE next == [row[t] EXCEPT !.status = "failed"]
      <4>1. next \in TaskRow /\ next.kind = row[t].kind /\ next.status = "failed"
        BY <1>1 DEF TaskRow
      <4>2. row' = [row EXCEPT ![t] = next]
        BY <1>1, <3>2 DEF PopenPrepFails, TaskRow
      <4> HIDE DEF next
      <4> QED BY <1>1, <4>1, <4>2
    <3>3. CASE KillPrep(t)
      BY <1>1, <3>3 DEF KillPrep
    <3> QED BY <1>10, <3>1, <3>2, <3>3
  <2>4. ~Deriving(t)'
    BY <2>2 DEF Deriving, OnDemand, Study
  <2>5. ClosesOnce(t)'
    BY <2>1, <2>2, <2>3 DEF ClosesOnce, InHandler, Kind, StudyInv, HandlerClosesOnce
  <2> QED BY <1>1, <2>1, <2>2, <2>3, <2>4, <2>5, SourceIsTask, StepKeeps
<1>11. ASSUME NEW t \in Tasks, AgeTask(t) \/ ReapTask(t)
       PROVE  StudyInv'
  <2>1. UNCHANGED <<job, files, gen, written>>
    BY <1>11 DEF AgeTask, ReapTask
  <2>2. /\ row' \in [Tasks -> TaskRow] /\ row'[t].kind = row[t].kind
        /\ \A u \in Tasks : u # t => row'[u] = row[u]
        /\ row'[t].status \in {row[t].status, "failed"}
    <3>1. CASE AgeTask(t)
      <4> DEFINE next == [row[t] EXCEPT !.aged = TRUE]
      <4>1. next \in TaskRow /\ next.kind = row[t].kind /\ next.status = row[t].status
        BY <1>1 DEF TaskRow
      <4>2. row' = [row EXCEPT ![t] = next]
        BY <1>1, <3>1 DEF AgeTask, TaskRow
      <4> HIDE DEF next
      <4> QED BY <1>1, <4>1, <4>2
    <3>2. CASE ReapTask(t)
      BY <1>1, <3>2, SettleSettles DEF ReapTask
    <3> QED BY <1>11, <3>1, <3>2
  <2>3. Deriving(t)' => PrepBy(gen'[t].from) \in files'
    BY <2>1, <2>2 DEF Deriving, InHandler, Kind, StudyInv, SourceStands
  <2>4. ClosesOnce(t)'
    BY <2>1, <2>2 DEF ClosesOnce, InHandler, Kind, StudyInv, HandlerClosesOnce
  <2> QED BY <1>1, <2>1, <2>2, <2>3, <2>4, SourceIsTask, StepKeeps
<1>12. CASE Reject \/ UnReject \/ UNCHANGED stVars
  <2>1. UNCHANGED <<files, row, gen, written>>
    BY <1>12 DEF Reject, UnReject, stVars
  <2>2. job' \in JobRow
    BY <1>1, <1>12 DEF Reject, UnReject, stVars, JobRow, Stages, Places
  <2> QED BY <2>1, <2>2 DEF StudyInv, StudyTypeOK, JobRow, SourceStands, Deriving,
                           InHandler, Kind, HandlerClosesOnce, ClosesOnce
<1>13. CASE RestartWeb
  <2>1. UNCHANGED <<job, files, row, written>>
    BY <1>13 DEF RestartWeb
  <2>2. Fresh("done") \in GenRow /\ Fresh("done").pc = "done"
    BY StudyAssumption DEF Fresh, GenRow, Places
  <2>3. gen' = [t \in Tasks |-> IF gen[t].pc = "off" THEN gen[t] ELSE Fresh("done")]
    BY <1>13 DEF RestartWeb
  <2>4. /\ gen' \in [Tasks -> GenRow]
        /\ \A t \in Tasks : (gen'[t] = gen[t] /\ gen[t].pc = "off") \/ gen'[t].pc = "done"
    BY <1>1, <2>2, <2>3
  <2>5. StudyTypeOK'
    BY <2>1, <2>4 DEF StudyInv, StudyTypeOK, GenRow
  <2>6. SourceStands'
    BY <2>1, <2>4 DEF StudyInv, SourceStands, Deriving, InHandler, Kind, OnDemand, Study
  <2>7. HandlerClosesOnce'
    BY <2>1, <2>4 DEF StudyInv, HandlerClosesOnce, ClosesOnce, InHandler, Kind
  <2> QED BY <2>5, <2>6, <2>7 DEF StudyInv
<1> QED
  BY <1>3, <1>4, <1>5, <1>6, <1>7, <1>8, <1>9, <1>10, <1>11, <1>12, <1>13
  DEF StudyNext, Generate, Tend

-----------------------------------------------------------------------------
\* The invariant holds at first.
LEMMA StudyInitKeeps == StudyInit => StudyInv
<1> SUFFICES ASSUME StudyInit PROVE StudyInv
  OBVIOUS
<1>1. StudyTypeOK
  BY StudyAssumption DEF StudyInit, StudyTypeOK, Fresh, Stages, Places, Kinds
<1>2. \A t \in Tasks : gen[t].pc = "off" /\ row[t].status = "unused"
  BY DEF StudyInit, Fresh
<1>3. SourceStands /\ HandlerClosesOnce
  BY <1>2 DEF StudyInit, SourceStands, Deriving, OnDemand, Study, HandlerClosesOnce, ClosesOnce
<1> QED BY <1>1, <1>3 DEF StudyInv

\* It holds of every reachable state.
LEMMA StudyInvHolds == StudySpec => []StudyInv
BY StudyInitKeeps, NextKeepsStudy, PTL DEF StudySpec

\* Jobs, files, rows and generators keep their types.
THEOREM StudyTypeCorrect == StudySpec => []StudyTypeOK
<1>1. StudyInv => StudyTypeOK
  BY DEF StudyInv
<1> QED BY <1>1, StudyInvHolds, PTL

\* Whatever was derived names an interview prep that is in the folder, however
\* many runs, requests and rejections overlap (interview/orchestrator.py).
THEOREM DerivedStands == StudySpec => []DerivedBesideSource
<1>1. StudyInv => DerivedBesideSource
  BY DEF StudyInv, SourceStands, DerivedBesideSource, PrepBy
<1> QED BY <1>1, StudyInvHolds, PTL

\* The row of an on-demand request never claims an artifact that was not
\* written, whatever is killed, lost, slow or reaped (web/routes/materials.py).
THEOREM SuccessIsWritten == StudySpec => []SucceededMeansWritten
<1>1. StudyInv => SucceededMeansWritten
  BY DEF StudyInv, HandlerClosesOnce, ClosesOnce, SucceededMeansWritten
<1> QED BY <1>1, StudyInvHolds, PTL

-----------------------------------------------------------------------------
\* Side by side, both kinds of research keep their types: what one does, the
\* other's invariant does not see (speculative/runner.py, interview/orchestrator.py).
THEOREM SideTypeCorrect == SideSpec => []SideTypeOK
<1>1. SideInit => SpeculativeTypeOK /\ StudyInv
  BY InitIsTyped, StudyInitKeeps DEF SideInit
<1>2. SpeculativeTypeOK /\ StudyInv /\ [SideNext]_sideVars => (SpeculativeTypeOK /\ StudyInv)'
  BY NextIsTyped, NextKeepsStudy DEF SideNext, sideVars
<1>3. SpeculativeTypeOK /\ StudyInv => SideTypeOK
  BY DEF StudyInv, SideTypeOK
<1> QED BY <1>1, <1>2, <1>3, PTL DEF SideSpec
================================================================================
