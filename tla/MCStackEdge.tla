------------------------------ MODULE MCStackEdge ------------------------------
(* What stands around the pipeline, for TLC: the mailbox scans, the spend    *)
(* ceiling, onboarding, the schema, restore and export, the settings, the    *)
(* board's views and the log.  Each has its own files or tables, so they are *)
(* checked side by side: a behaviour is of one of them.                      *)
EXTENDS MailScan, Spend, OnboardingChat, OnboardingInject, Migrations, StackRestore,
        StateExport, Settings, BoardViews, PipelineLog, TLC

VARIABLE edge   \* the component this behaviour is of
onboardVars == <<chatVars, injectVars>>
stackVars == <<migVars, restoreVars, exportVars>>
viewsVars == <<settingVars, viewVars>>
operatorVars == <<viewsVars, logVars>>
edgeVars == <<mailVars, spendVars, onboardVars, stackVars, operatorVars, edge>>

CONSTANT Edges   \* the components whose behaviours are checked

ASSUME EdgeAssumption ==
  Edges \subseteq {"mail", "spend", "chat", "inject", "migrations", "restore", "export",
                   "settings", "views", "log"}

CONSTANTS w1, w2, s1, web, scorer, fa, fb, data, config, companies, v1, v2, greenhouse

\* two postings of the triage run, and the streamed chat of the web process
OneBatch == {{w1, w2}}
OneEach == w1 :> scorer @@ w2 :> scorer @@ s1 :> web
RequiredFiles == <<fa, fb>>
Directories == <<data, config, companies>>
\* two windows on a tab without a default filter, one on a tab that has one
BoardWindows == "rejected" :> {v1, v2} @@ "dashboard" :> {v1} @@ "applied" :> {v1}
OneSource == fa :> greenhouse

MailFaultSets == {{"kill", "offline"}, {"mid_scan", "fetch_error"}, {"login_test"},
                  {"disconnect"}, {"oneshot"}, {"reset"}}
\* without a ceiling nothing else is at stake
SpendFaultSets == {{}, {"kill", "stream", "lost_answer", "log_error"}, {"send_error", "row_lost"}}
ChatFaultSets == {{"kill"}, {"disconnect", "upstream"}}
InjectFaultSets == {{"kill", "bad_key"}, {"redact", "replace", "late"}}
LogFaultSets == {{"kill"}, {"volume", "race"}, {"slow"}}
RestoreFaultSets == {{"kill", "migrate_error", "extract_error"}, {"move_error"}}

\* what does not move keeps its type
EdgeTypeOK ==
  CASE edge = "mail" -> MailTypeOK
    [] edge = "spend" -> SpendTypeOK
    [] edge = "chat" -> ChatTypeOK
    [] edge = "inject" -> InjectTypeOK
    [] edge = "migrations" -> MigTypeOK
    [] edge = "restore" -> RestoreTypeOK
    [] edge = "export" -> ExportTypeOK
    [] edge = "settings" -> SettingTypeOK
    [] edge = "views" -> ViewTypeOK
    [] edge = "log" -> LogTypeOK

\* the components that do not move keep one of their initial states; where
\* nothing is claimed of a fault but types, a small instance takes it
EdgeInit ==
  /\ edge \in Edges
  /\ MailInit /\ (edge # "mail" => mailFaults = {"kill", "offline"})
  /\ SpendInit /\ (ceiling = NoCeiling <=> spendFaults = {})
               /\ (ceiling = 3 <=> "send_error" \in spendFaults)
               /\ (edge # "spend" => ceiling = NoCeiling)
  /\ ChatInit /\ (edge # "chat" => chatFaults = {"kill"})
  /\ InjectInit /\ (edge # "inject" => file[fa] = Absent /\ injectFaults = {"kill", "bad_key"})
  /\ MigInit /\ (edge # "migrations" => db = Fresh)
  /\ RestoreInit /\ (edge # "restore" => live = NoChildren /\ restoreFaults = {"move_error"})
  /\ ExportInit /\ (edge # "export" => /\ Commits = 0 /\ source.companies = 0
                                       /\ source.main = source.log)
  /\ SettingInit /\ (edge # "settings" => /\ setting = "timezone"
                                          /\ settingFaults = {})
  /\ ViewInit /\ (tab # "applied" => viewFaults = {}) /\ (edge # "views" => tab = "rejected")
  /\ LogInit /\ (edge # "log" => logFaults = {"kill"})

EdgeNext ==
  \/ edge = "mail" /\ MailNext /\ UNCHANGED <<spendVars, onboardVars, stackVars, operatorVars, edge>>
  \/ edge = "spend" /\ SpendNext /\ UNCHANGED <<mailVars, onboardVars, stackVars, operatorVars, edge>>
  \/ edge = "chat" /\ ChatNext /\ UNCHANGED <<mailVars, spendVars, injectVars, stackVars, operatorVars, edge>>
  \/ edge = "inject" /\ InjectNext /\ UNCHANGED <<mailVars, spendVars, chatVars, stackVars, operatorVars, edge>>
  \/ edge = "migrations" /\ MigNext
     /\ UNCHANGED <<mailVars, spendVars, onboardVars, restoreVars, exportVars, operatorVars, edge>>
  \/ edge = "restore" /\ RestoreNext
     /\ UNCHANGED <<mailVars, spendVars, onboardVars, migVars, exportVars, operatorVars, edge>>
  \/ edge = "export" /\ ExportNext
     /\ UNCHANGED <<mailVars, spendVars, onboardVars, migVars, restoreVars, operatorVars, edge>>
  \/ edge = "settings" /\ SettingNext
     /\ UNCHANGED <<mailVars, spendVars, onboardVars, stackVars, viewVars, logVars, edge>>
  \/ edge = "views" /\ ViewNext
     /\ UNCHANGED <<mailVars, spendVars, onboardVars, stackVars, settingVars, logVars, edge>>
  \/ edge = "log" /\ LogNext
     /\ UNCHANGED <<mailVars, spendVars, onboardVars, stackVars, viewsVars, edge>>

\* no call has begun in the initial states; a container boots in them
EdgeFairness ==
  /\ SpendFairness
  /\ \A r \in Runners : /\ WF_migVars(edge = "migrations" /\ Runs(r))
                        /\ WF_migVars(edge = "migrations" /\ Boot(r))

EdgeSpec == EdgeInit /\ [][EdgeNext]_edgeVars /\ EdgeFairness
================================================================================
