-------------------------------- MODULE Settings --------------------------------
(* The operator's settings: each is a file under config/ or data/ (one is a      *)
(* section of the profile), written by a form of /settings/ or of onboarding,  *)
(* by the raw editor of /config/, or by the exclusion a board row offers, and  *)
(* read by the pages, by a triage run or at boot.  The files do not depend on     *)
(* one another: a behaviour follows one of them.  A content is the set of its  *)
(* entries, and an entry stands for how its loader reads it back.              *)
EXTENDS Naturals, FiniteSets

CONSTANTS
  Windows,    \* browser windows
  Clicks,     \* exclusions being applied, each in a thread of the web process
  NoFile,     \* the file does not exist
  Garbled,    \* a text its loader cannot parse
  MaxChanges  \* bound: contents put in place while one process is under way

VARIABLES
  setting,        \* the setting of this behaviour
  onDisk,         \* the content of its file
  window,         \* [page, shown] the editor open in a window and what filled it
  click,          \* [pc, entry, read] an exclusion read the file and writes it back
  reader,         \* [on, brought, scanned, cache, used, open] the process that applies it
  recorded,       \* the content the newest config_changes row was written for
  asked,          \* the content the operator was last told is in place
  settingFaults   \* {"together"}: an exclusion overlaps another write

settingVars == <<setting, onDisk, window, click, reader, recorded, asked, settingFaults>>

Forms == {"reject_reasons", "excluded_employers", "spend_ceiling", "active_sources", "timezone"}
Raw == {"excluded_employers", "prefilter_rules", "spend_ceiling", "profile"}
Excludable == {"prefilter_rules", "profile"}
Levers == {"excluded_employers", "prefilter_rules", "profile"}

\* "typed" is not a string to YAML, "cut" loses its end, "comma" cannot be in a
\* filter URL, "flag" compiles alone and not in an alternation, "bad" not at all,
\* "tiny" rounds to nothing, "seed" is a rule of another category, "vacant" another
\* category with an empty list and "null" one without any
Entries == [reject_reasons |-> {"fit", "pay", "typed", "cut", "comma"},
            excluded_employers |-> {"acme", "flag", "bad"},
            prefilter_rules |-> {"seed", "intern", "flag", "vacant", "null"},
            profile |-> {"seed", "travel", "nights"},
            spend_ceiling |-> {"20", "50", "tiny", "0", "disabled", "word"},
            active_sources |-> {"lever", "ashby", "unknown"},
            timezone |-> {"Oslo", "Lima", "nowhere"}]

ASSUME SettingAssumption ==
  /\ NoFile # Garbled
  /\ \A s \in DOMAIN Entries : \A c \in SUBSET Entries[s] : c # NoFile /\ c # Garbled

Ordinary == {"fit", "pay", "acme", "seed", "intern", "travel", "nights",
             "20", "50", "disabled", "lever", "ashby", "Oslo", "Lima"}

Single == {"spend_ceiling", "timezone"}   \* files of one value
DefaultSources == {"lever"}
DefaultReasons == {"default reasons"}
Failure == {"failure"}                    \* the loader raises

Text(c) == IF c \in {NoFile, Garbled} THEN {} ELSE c

------------------------------------------------------------------------------
(* The loaders.                                                             *)

LoadReasons(c) ==
  CASE c \in {NoFile, {}} -> DefaultReasons
    [] c = Garbled -> Failure
    [] OTHER -> IF "typed" \in c THEN Failure
                ELSE (c \ {"cut"}) \cup (IF "cut" \in c THEN {"shortened"} ELSE {})

\* each pattern is compiled, then all of them in one alternation
CompilePatterns(c) ==
  CASE c = NoFile -> {}
    [] c = Garbled -> Failure
    [] OTHER -> IF c \cap {"bad", "flag"} # {} THEN Failure ELSE c

LoadHardRejectRules(c) ==
  IF c # Garbled /\ c # NoFile /\ "null" \in c THEN Failure ELSE CompilePatterns(c)
LoadExcludedEmployers(c) == CompilePatterns(c)

LoadCeiling(c) ==
  IF c \in {NoFile, Garbled} \/ c \cap {"0", "disabled", "word"} # {} THEN {} ELSE c

\* the file is only missing on a stack that has finished onboarding if no
\* source was picked there
ReadActiveSources(c) ==
  CASE c = NoFile -> {}
    [] c = {} -> DefaultSources
    [] OTHER -> c

ReadTimezone(c) == IF c = NoFile \/ "nowhere" \in c THEN {} ELSE c

Load(c) ==
  CASE setting = "reject_reasons" -> LoadReasons(c)
    [] setting = "excluded_employers" -> LoadExcludedEmployers(c)
    [] setting = "prefilter_rules" -> LoadHardRejectRules(c)
    [] setting = "spend_ceiling" -> LoadCeiling(c)
    [] setting = "active_sources" -> ReadActiveSources(c)
    [] setting = "timezone" -> ReadTimezone(c)
    [] setting = "profile" -> Text(c)

\* what a change means once it is in place
InEffect(c) ==
  CASE setting = "active_sources" /\ c = {} -> DefaultSources
    [] setting = "spend_ceiling" /\ c = {"disabled"} -> {}
    [] c = NoFile -> Load(NoFile)
    [] OTHER -> c

------------------------------------------------------------------------------
(* The forms.                                                               *)

\* the reject-reasons page fails with its loader; the employers page shows what
\* it can; the sources page shows the defaults where no file is
Shown ==
  CASE setting = "reject_reasons" -> Load(onDisk) \cap Entries[setting]
    [] setting = "active_sources" -> IF onDisk = NoFile THEN DefaultSources ELSE Load(onDisk)
    [] OTHER -> Text(onDisk)

NotClicking == "together" \in settingFaults \/ \A k \in Clicks : click[k].pc = "idle"

OpenForm(w) ==
  /\ setting \in Forms /\ window[w].page = "closed"
  /\ setting = "reject_reasons" => Load(onDisk) # Failure
  /\ window' = [window EXCEPT ![w] = [page |-> "form", shown |-> Shown]]
  /\ UNCHANGED <<setting, onDisk, click, reader, recorded, asked, settingFaults>>

\* one entry more or less, or the other value
Edits(c) ==
  IF setting \in Single THEN {{e} : e \in Entries[setting]}
  ELSE {c} \cup {c \cup {e} : e \in Entries[setting]} \cup {c \ {e} : e \in c}

AcceptReasons(c) == c # {} /\ "comma" \notin c
AcceptEmployers(c) == "bad" \notin c
AcceptCeiling(c) == c \cap {"0", "word"} = {}
AcceptSources(c) == "unknown" \notin c
AcceptTimezone(c) == "nowhere" \notin c

Accepts(c) ==
  CASE setting = "reject_reasons" -> AcceptReasons(c)
    [] setting = "excluded_employers" -> AcceptEmployers(c)
    [] setting = "spend_ceiling" -> AcceptCeiling(c)
    [] setting = "active_sources" -> AcceptSources(c)
    [] setting = "timezone" -> AcceptTimezone(c)

\* two decimals
WriteCeiling(c) == IF "tiny" \in c THEN {"0"} ELSE c

AsWritten(c) == IF setting = "spend_ceiling" THEN WriteCeiling(c) ELSE c

\* what a process that is under way may still apply
Open(c) ==
  /\ Cardinality(reader.open \cup {c}) <= MaxChanges
  /\ reader' = [reader EXCEPT !.open = IF reader.on THEN @ \cup {c} ELSE @]

SubmitForm(w) == \E c \in Edits(window[w].shown) :
  /\ window[w].page = "form" /\ NotClicking
  /\ window' = [window EXCEPT ![w].page = "closed", ![w].shown = {}]
  /\ IF Accepts(c) THEN onDisk' = AsWritten(c) /\ asked' = c /\ Open(c)
     ELSE UNCHANGED <<onDisk, asked, reader>>
  /\ UNCHANGED <<setting, click, recorded, settingFaults>>

\* onboarding asks for the ceiling and the zone too; a skipped or invalid
\* answer leaves the file
OnboardingStep == \E e \in Entries[setting] \ {"disabled"} :
  /\ setting \in Single /\ Accepts({e})
  /\ onDisk' = AsWritten({e}) /\ asked' = {e} /\ Open({e})
  /\ UNCHANGED <<setting, window, click, recorded, settingFaults>>

------------------------------------------------------------------------------
(* The raw editor: no validation, and the page opens whatever the file is.    *)

OpenRaw(w) ==
  /\ setting \in Raw /\ window[w].page = "closed"
  /\ window' = [window EXCEPT ![w] = [page |-> "raw",
                                      shown |-> Text(onDisk)]]
  /\ UNCHANGED <<setting, onDisk, click, reader, recorded, asked, settingFaults>>

\* detect_and_record: a row when the hash is not the newest row's.  The editor
\* swallows a failure too: that row then waits for the next scan (left out)
Record(c) == recorded' = IF setting \in Levers /\ c # NoFile THEN c ELSE recorded

SaveRaw(w) == \E c \in Edits(window[w].shown) \cup {Garbled} :
  /\ window[w].page = "raw" /\ NotClicking
  /\ window' = [window EXCEPT ![w].page = "closed", ![w].shown = {}]
  /\ onDisk' = c /\ asked' = c /\ Open(c)
  /\ Record(c)
  /\ UNCHANGED <<setting, click, settingFaults>>

------------------------------------------------------------------------------
(* The exclusion of a board row: read, append one entry, replace the file.    *)

IdleClick == [pc |-> "idle", entry |-> "seed", read |-> {}]

\* a rule of the profile needs the file; a duplicate or a pattern that does not
\* compile is refused, and so is a file that does not parse; a category without a
\* list raises while the text is put together
ExcludeRead(k) == \E e \in Entries[setting] \ {"seed", "vacant", "null"} :
  /\ setting \in Excludable /\ click[k].pc = "idle" /\ NotClicking
  /\ onDisk # Garbled /\ "null" \notin Text(onDisk)
  /\ setting = "profile" => onDisk # NoFile
  /\ e \notin Text(onDisk)
  /\ click' = [click EXCEPT ![k] = [pc |-> "write", entry |-> e,
                                    read |-> Text(onDisk)]]
  /\ UNCHANGED <<setting, onDisk, window, reader, recorded, asked, settingFaults>>

\* mutant: only the operator's own category is written back
ExcludeWriteCategory(k) ==
  LET c == (click[k].read \ {"seed"}) \cup {click[k].entry}
      told == Text(asked) \cup {click[k].entry} IN
  /\ click[k].pc = "write"
  /\ click' = [click EXCEPT ![k] = IdleClick]
  /\ onDisk' = c /\ asked' = told /\ Open(told)
  /\ UNCHANGED <<setting, window, recorded, settingFaults>>

\* one line for each pattern of a category, so none for an empty list
Emitted(c) == IF "vacant" \in c THEN (c \ {"vacant"}) \cup {"null"} ELSE c

ExcludeWrite(k) ==
  LET told == Text(asked) \cup {click[k].entry} IN
  /\ click[k].pc = "write"
  /\ click' = [click EXCEPT ![k] = IdleClick]
  /\ onDisk' = Emitted(click[k].read \cup {click[k].entry})
  /\ asked' = told /\ Open(told)
  /\ UNCHANGED <<setting, window, recorded, settingFaults>>

------------------------------------------------------------------------------
(* The process that applies the setting: a triage run, the container for the    *)
(* zone, the page that was asked for the rest.                               *)

NoReader == [on |-> FALSE, brought |-> FALSE, scanned |-> FALSE,
             cache |-> NoFile, used |-> NoFile, open |-> {}]

\* a triage whose fetch brought something records the levers' contents before it
\* scores, unless the scan raises; one that brought nothing ends.  The sources
\* and the zone are read now
StartRun == \E brought, scanned \in BOOLEAN :
  /\ ~reader.on
  /\ scanned => brought /\ setting \in Levers
  /\ reader' = [on |-> TRUE, brought |-> brought, scanned |-> scanned,
             cache |-> NoFile, open |-> {asked},
             used |-> IF setting \in {"active_sources", "timezone"} THEN Load(onDisk) ELSE NoFile]
  /\ IF scanned THEN Record(onDisk) ELSE UNCHANGED recorded
  /\ UNCHANGED <<setting, onDisk, window, click, asked, settingFaults>>

\* prefilter_score: the rules are compiled once per process, the employers for
\* each row; a loader that raises is not cached and every row fails again
ApplySetting ==
  LET matcher == IF reader.cache # NoFile THEN reader.cache ELSE Load(onDisk) IN
  /\ reader.on /\ setting \notin {"active_sources", "timezone"}
  /\ setting \in Levers => reader.brought
  /\ reader' = [reader EXCEPT
       !.used = matcher,
       !.cache = IF setting = "prefilter_rules" /\ matcher # Failure THEN matcher ELSE @]
  /\ UNCHANGED <<setting, onDisk, window, click, recorded, asked, settingFaults>>

EndRun ==
  /\ reader.on /\ reader' = NoReader
  /\ UNCHANGED <<setting, onDisk, window, click, recorded, asked, settingFaults>>

SettingInit ==
  /\ setting \in DOMAIN Entries
  /\ onDisk \in {NoFile} \cup (IF setting \in Excludable THEN {{"seed"}} ELSE {})
  /\ window = [w \in Windows |-> [page |-> "closed", shown |-> {}]]
  /\ click = [k \in Clicks |-> IdleClick]
  /\ reader = NoReader
  /\ recorded = NoFile
  /\ asked = onDisk
  /\ settingFaults \in SUBSET IF setting \in Excludable THEN {"together"} ELSE {}

SettingNext ==
  \/ \E w \in Windows : OpenForm(w) \/ SubmitForm(w) \/ OpenRaw(w) \/ SaveRaw(w)
  \/ OnboardingStep
  \/ \E k \in Clicks : ExcludeRead(k) \/ ExcludeWrite(k)
  \/ StartRun \/ ApplySetting \/ EndRun

SettingSpec == SettingInit /\ [][SettingNext]_settingVars

------------------------------------------------------------------------------
(* Properties.                                                             *)

FileContents == {NoFile, Garbled} \cup SUBSET Entries[setting]
Readings == FileContents \cup {DefaultSources, DefaultReasons, Failure}
            \cup (SUBSET (Entries[setting] \cup {"shortened"}))

SettingTypeOK ==
  /\ setting \in DOMAIN Entries
  /\ onDisk \in FileContents /\ asked \in FileContents /\ recorded \in FileContents
  /\ window \in [Windows -> [page : {"closed", "form", "raw"}, shown : SUBSET Entries[setting]]]
  /\ click \in [Clicks -> [pc : {"idle", "write"}, entry : Entries[setting] \cup {"seed"},
                           read : SUBSET Entries[setting]]]
  /\ {reader.on, reader.brought, reader.scanned} \subseteq BOOLEAN
  /\ reader.cache \in Readings /\ reader.used \in Readings
  /\ reader.open \subseteq FileContents
  /\ settingFaults \subseteq {"together"}

Clean(c) == c = NoFile \/ (c # Garbled /\ c \subseteq Ordinary)

\* config_loader.py:373 "lets saves take effect on the next request without a
\* process restart": a change of ordinary entries that the operator was told is
\* in place is what the loaders return, whichever editors were open meanwhile,
\* and what a process applies is what was in place at some moment since it
\* began.  Such a content that stays in place from the drift scan of a triage run
\* has its config_changes row while the run scores, if the scan did not raise.
SettingsTakeEffect ==
  "together" \notin settingFaults =>
    /\ Clean(asked) => Load(onDisk) = InEffect(asked)
    /\ reader.used # NoFile /\ (\A c \in reader.open : Clean(c))
         => reader.used \in {InEffect(c) : c \in reader.open}
    /\ reader.scanned /\ reader.open = {onDisk} /\ Clean(onDisk)
         => recorded = onDisk \/ onDisk = NoFile

\* The docstring of add_prefilter_title_pattern (config_loader.py:648): "Preserves
\* other categories and context_suppressors."  An exclusion that is alone and adds
\* an ordinary rule to a file that loads leaves one that loads all it did.
OtherCategoriesKept ==
  [][\A k \in Clicks :
       /\ ExcludeWrite(k) /\ "together" \notin settingFaults
       /\ click[k].entry \in Ordinary /\ Load(onDisk) # Failure
       => Load(onDisk) \subseteq Load(onDisk)']_settingVars
================================================================================
