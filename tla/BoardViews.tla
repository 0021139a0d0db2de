------------------------------- MODULE BoardViews -------------------------------
(* The tabs of the board and the view each remembers: the filters, columns and  *)
(* sort of its last page or rows request, kept in view_prefs and brought back    *)
(* when the tab is opened bare.  Windows show pages loaded earlier; what a       *)
(* window sends with its next rows request is what its inputs hold, not what     *)
(* the row says by then.  A behaviour follows one tab.  A filter is its name.    *)
EXTENDS Naturals, FiniteSets

CONSTANTS
  Viewers,     \* the browser windows each tab is opened in
  MaxPending   \* bound: rows requests under way

VARIABLES
  tab,        \* the tab of this behaviour
  stored,     \* view_prefs.query_string, {} when there is no row
  view,       \* [open, chips, inputs] the page in a window: active filters, filter inputs
  pending,    \* rows requests not answered yet: the filters each carries
  wanted,     \* every filter asked for since it was last removed
  viewFaults  \* "late": a rows request may be answered after later clicks;
              \* "cleared": a window's last filter may be cleared in its input

viewVars == <<tab, stored, view, pending, wanted, viewFaults>>

Tabs == {"dashboard", "applied", "review", "waitlist", "fallback", "rejected",
         "not_selected", "archive"}

AllViewFaults == {"late", "cleared"}

ASSUME ViewAssumption == DOMAIN Viewers \subseteq Tabs

\* a text column, the column list (here one without the text column), the sort;
\* where the tab has a default filter its column, and the default column list
FilterNames == {"title", "cols", "sort"} \cup
         (CASE tab = "dashboard" -> {"relevance_score", "default_cols"}
            [] tab = "archive" -> {"stage", "default_cols"}
            [] OTHER -> {})

Columns == {"cols", "default_cols"}

------------------------------------------------------------------------------
(* The stored view.                                                         *)

\* the default columns are not worth keeping
Serialize(f) == f \ {"default_cols"}

\* an empty query string is not saved
SaveView(f) == stored' = IF Serialize(f) = {} THEN stored ELSE Serialize(f)

\* a page renders the filter input of a visible column only
Inputs(f) == IF "cols" \in f THEN f \ {"title"} ELSE f

Shows(w, f) == view' = [view EXCEPT ![w] = [open |-> TRUE, chips |-> f, inputs |-> Inputs(f)]]

\* no click overtakes a rows request, unless the requests are late
NothingPending == pending = {} \/ "late" \in viewFaults

------------------------------------------------------------------------------
(* The requests.                                                            *)

\* a bare page redirects to the stored view and saves what it shows
OpenBare(w) ==
  /\ NothingPending
  /\ Shows(w, stored) /\ SaveView(stored)
  /\ UNCHANGED <<tab, pending, wanted, viewFaults>>

\* the page an update returns to must show its message: no redirect, no save
OpenFlash(w) ==
  /\ tab = "dashboard" /\ NothingPending
  /\ Shows(w, {})
  /\ UNCHANGED <<tab, stored, pending, wanted, viewFaults>>

\* a bookmark, or the link of a page that is open somewhere
OpenUrl(w) == \E f \in {{n} : n \in FilterNames} \cup {view[v].chips : v \in Viewers[tab]} :
  /\ NothingPending /\ f # {}
  /\ Shows(w, f) /\ SaveView(f) /\ wanted' = wanted \cup f
  /\ UNCHANGED <<tab, pending, viewFaults>>

\* a sort link carries the columns along and no filter
SortLink(w) ==
  LET f == {"sort"} \cup (view[w].chips \cap Columns) IN
  /\ view[w].open /\ NothingPending
  /\ Shows(w, f) /\ SaveView(f) /\ wanted' = wanted \cup f
  /\ UNCHANGED <<tab, pending, viewFaults>>

\* a filter is set in its input, or cleared there: the rows are asked for with
\* what all inputs hold, and "gone" is no longer asked for.  When nothing is left
\* the answer saves nothing, and the stored view keeps what was cleared
SendRows(w, gone, f) ==
  /\ view[w].open /\ NothingPending /\ Cardinality(pending) < MaxPending
  /\ "cleared" \in viewFaults \/ stored = {} \/ Serialize(f) # {}
  /\ view' = [view EXCEPT ![w].inputs = f]
  /\ pending' = pending \cup {f}
  /\ wanted' = (wanted \ gone) \cup f
  /\ UNCHANGED <<tab, stored, viewFaults>>

\* a choice of columns takes the place of the one before
ApplyFilter(w, n) ==
  LET gone == IF n \in Columns THEN Columns ELSE {} IN
  /\ n # "sort" /\ (n = "title" => "cols" \notin view[w].chips)
  /\ SendRows(w, gone, (view[w].inputs \ gone) \cup {n})

ClearInput(w, n) ==
  /\ n \in view[w].inputs \ {"sort"}
  /\ SendRows(w, {n}, view[w].inputs \ {n})

\* every rows handler saves before it answers
AnswerRows(f) ==
  /\ f \in pending /\ pending' = pending \ {f}
  /\ SaveView(f)
  /\ UNCHANGED <<tab, view, wanted, viewFaults>>

\* mutant: the remaining filters are saved, an empty rest too, which save ignores
ResetBySaving(w, n) ==
  LET rest == Serialize(stored \ {n}) IN
  /\ view[w].open /\ n \in view[w].chips \ {"sort", "default_cols"} /\ NothingPending
  /\ SaveView(rest)
  /\ Shows(w, stored') /\ wanted' = wanted \ {n}
  /\ UNCHANGED <<tab, pending, viewFaults>>

\* a chip's cross: the stored view loses one name, whatever the window shows
ResetFilter(w, n) ==
  LET rest == Serialize(stored \ {n}) IN
  /\ view[w].open /\ n \in view[w].chips \ {"sort", "default_cols"} /\ NothingPending
  /\ stored' = rest
  /\ Shows(w, rest) /\ wanted' = wanted \ {n}
  /\ UNCHANGED <<tab, pending, viewFaults>>

ResetView(w) ==
  /\ view[w].open /\ NothingPending
  /\ stored' = {} /\ wanted' = {}
  /\ Shows(w, {})
  /\ UNCHANGED <<tab, pending, viewFaults>>

ViewInit ==
  /\ tab \in DOMAIN Viewers
  /\ stored = {} /\ wanted = {} /\ pending = {}
  /\ view = [w \in Viewers[tab] |-> [open |-> FALSE, chips |-> {}, inputs |-> {}]]
  /\ viewFaults \in {{}, AllViewFaults}

ViewNext ==
  \/ \E w \in Viewers[tab] :
       \/ OpenBare(w) \/ OpenFlash(w) \/ OpenUrl(w) \/ SortLink(w) \/ ResetView(w)
       \/ \E n \in FilterNames : ApplyFilter(w, n) \/ ClearInput(w, n) \/ ResetFilter(w, n)
  \/ \E f \in pending : AnswerRows(f)

ViewSpec == ViewInit /\ [][ViewNext]_viewVars

------------------------------------------------------------------------------
(* The rows of a tab, as a set of the postings there can be.                *)

OpenStages == {"scored", "manual_review", "prep_in_progress", "briefing_ready", "materials_drafted"}
SentStages == {"applied", "interview", "offer"}
ClosedStages == {"rejected", "not_selected"}

\* like: what its title filter matches; sibling: the same posting was applied to
Postings == [stage : OpenStages \cup SentStages \cup ClosedStages \cup {"waitlisted", "withdrawn_fallback"},
             high : BOOLEAN, like : BOOLEAN, sibling : BOOLEAN]

DashboardBase(p) == p.stage \in OpenStages /\ ~p.sibling
AppliedBase(p) == p.stage \in SentStages
ReviewBase(p) == p.stage = "manual_review"
WaitlistBase(p) == p.stage = "waitlisted"
FallbackBase(p) == p.stage = "withdrawn_fallback"
RejectedBase(p) == p.stage \in ClosedStages
NotSelectedBase(p) == p.stage = "not_selected"

TabBase(t, p) ==
  CASE t = "dashboard" -> DashboardBase(p)
    [] t = "applied" -> AppliedBase(p)
    [] t = "review" -> ReviewBase(p)
    [] t = "waitlist" -> WaitlistBase(p)
    [] t = "fallback" -> FallbackBase(p)
    [] t = "rejected" -> RejectedBase(p)
    [] t = "not_selected" -> NotSelectedBase(p)
    [] t = "archive" -> TRUE

\* the relevance_score filter of the model asks for less than the default does,
\* its stage filter for the applications
Clauses(f, p) == /\ "title" \in f => p.like
                 /\ "stage" \in f => p.stage = "applied"

\* without a filter of its own the dashboard starts at the default score, and
\* the archive leaves the rejected postings out
DefaultScore(t, f, p) == t = "dashboard" /\ "relevance_score" \notin f => p.high
DefaultExclude(t, f, p) == t = "archive" /\ "stage" \notin f => p.stage # "rejected"

TabRows(t, f) == {p \in Postings : /\ TabBase(t, p) /\ Clauses(f, p)
                                /\ DefaultScore(t, f, p) /\ DefaultExclude(t, f, p)}

------------------------------------------------------------------------------
(* Properties.                                                             *)

ViewTypeOK ==
  /\ tab \in Tabs
  /\ stored \subseteq FilterNames \ {"default_cols"} /\ wanted \subseteq FilterNames
  /\ view \in [Viewers[tab] -> [open : BOOLEAN, chips : SUBSET FilterNames, inputs : SUBSET FilterNames]]
  /\ pending \subseteq SUBSET FilterNames
  /\ viewFaults \subseteq AllViewFaults

\* Nothing is hidden unasked.  web/templates/_active_filters.html:11 says the
\* reset routes "break the loop class for every filter type": whatever windows
\* and stored view have come to, a tab opened bare applies no filter that was
\* removed, by its cross or in its input, and not asked for since.  Two
\* executions are left out: one where answers overtake clicks, and one where a
\* window's last filter is cleared in its input, which nothing saves.
NothingHiddenUnasked == viewFaults = {} /\ pending = {} => stored \subseteq wanted

\* Every posting is in the bare view of a tab.
EveryPostingIsListed == \A p \in Postings : \E t \in Tabs : p \in TabRows(t, {})
================================================================================
