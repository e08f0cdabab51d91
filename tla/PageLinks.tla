------------------------------- MODULE PageLinks -------------------------------
(***************************************************************************)
(* The links that the browser page offers: dashboards, from the server's   *)
(* configuration and from the user, on the global bar or on packets, and   *)
(* trace links, which turn the value of a packet's header into a link.     *)
(*                                                                         *)
(* A dashboard's content is a record [name, scope], a trace link's is      *)
(* [header, url].  The templates of the links are left to PageFunctions.   *)
(***************************************************************************)
EXTENDS ServerItems

CONSTANTS
  Header, TraceUrl, Seed,  \* Seed: the trace link of a page without settings
  Window, DefaultWindow,   \* lengths of the time window of the links
  MaxTraceLinks            \* bound: trace links

ASSUME PageLinksAssumption ==
  /\ Seed \in [header : Header, url : TraceUrl]
  /\ None \notin Seq([header : Header, url : TraceUrl])
  /\ MaxTraceLinks \in Nat /\ DefaultWindow \in Window

VARIABLES
  localDashboardLinks,
  dashboardLinks,       \* the effective ones
  editingDashLinkId,
  storedDashboards,
  dashList,             \* the list in the settings
  globalLinks,          \* the bar of global links
  window,               \* DASHBOARD_WINDOW_KEY in local storage
  traceLinks,           \* sequence; the first with the header applies
  editingTraceIndex,    \* position in traceLinks, 0 for null
  storedTraces,         \* None until the user saves one
  traceList,            \* the list in the settings
  detailLinks,          \* in the detail pane: its dashboards and trace links
  meant                 \* history: the trace link whose editing was begun

dashVars == <<localDashboardLinks, dashboardLinks, editingDashLinkId,
              storedDashboards, dashList, globalLinks, window>>
traceVars == <<traceLinks, editingTraceIndex, storedTraces, traceList, meant>>
linkVars == <<dashVars, traceVars, detailLinks>>

-----------------------------------------------------------------------------
(* What is drawn *)

OfScope(links, scope) == Restrict(links, {i \in DOMAIN links : links[i].scope = scope})

\* traceLinkFor(): the url of the first link for the header.
TraceLinkFor(links, h) ==
  LET at == {n \in DOMAIN links : links[n].header = h} IN
  IF at = {} THEN None ELSE links[CHOOSE n \in at : \A k \in at : n <= k].url

EffectiveDashboards(server, local, off) == Over(local, EnabledDashboards(server, off))

\* renderDetail(), as far as it shows links, unless it throws or is not reached.
\* It runs on the values that the step ends with.
DrawDetail ==
  detailLinks' = IF undrawn' THEN detailLinks ELSE [p \in Shown' |->
    [dashboards |-> OfScope(dashboardLinks', "packet"), window |-> window',
     traces |-> [h \in Header |-> TraceLinkFor(traceLinks', h)]]]

RenderDashboardList(editing) ==
  dashList' = [links |-> Over(localDashboardLinks', serverDashboardLinks'),
               off |-> {i \in DOMAIN serverDashboardLinks' : DashKey(i) \in disabled'},
               editing |-> editing]

RefreshDashboardViews ==
  /\ RenderDashboardList(editingDashLinkId')
  /\ globalLinks' = OfScope(dashboardLinks', "global")

ComputeDashboards ==
  dashboardLinks' = EffectiveDashboards(serverDashboardLinks', localDashboardLinks', disabled')

\* rebuildEffectiveRules(), as far as links are concerned.
RebuildLinks ==
  /\ UNCHANGED <<localDashboardLinks, editingDashLinkId, storedDashboards, window, traceVars>>
  /\ ComputeDashboards /\ RefreshDashboardViews /\ DrawDetail

\* rerenderSelectedDetail() or renderDetail() after a step that leaves the
\* links as they are, and a step that does not draw the details.
RedrawLinks == UNCHANGED <<dashVars, traceVars>> /\ DrawDetail
KeepLinks == UNCHANGED linkVars

-----------------------------------------------------------------------------
(* Dashboards *)

\* saveDashboardLinks(), once localDashboardLinks' is given.
SaveDashboards ==
  /\ storedDashboards' = localDashboardLinks'
  /\ UNCHANGED <<window, traceVars>>
  /\ ComputeDashboards /\ RefreshDashboardViews /\ DrawDetail

StartEditDash(i) ==
  /\ i \in DOMAIN localDashboardLinks \cap DOMAIN dashList.links
  /\ editingDashLinkId' = i
  /\ UNCHANGED <<localDashboardLinks, dashboardLinks, storedDashboards, globalLinks,
                 window, traceVars, detailLinks>>
  /\ RenderDashboardList(i)

CancelEditDash ==
  /\ editingDashLinkId # None
  /\ editingDashLinkId' = None
  /\ UNCHANGED <<localDashboardLinks, dashboardLinks, storedDashboards, globalLinks,
                 window, traceVars, detailLinks>>
  /\ RenderDashboardList(None)

AddDash(i, c) ==
  /\ editingDashLinkId = None /\ i \in LocalDashId \ DOMAIN localDashboardLinks
  /\ localDashboardLinks' = With(localDashboardLinks, i, c)
  /\ UNCHANGED editingDashLinkId /\ SaveDashboards

UpdateDash(c) ==
  /\ editingDashLinkId # None
  /\ localDashboardLinks' = [i \in DOMAIN localDashboardLinks |->
       IF i = editingDashLinkId THEN c ELSE localDashboardLinks[i]]
  /\ editingDashLinkId' = None /\ SaveDashboards

DeleteDash(i) ==
  /\ i \in DOMAIN localDashboardLinks \cap DOMAIN dashList.links
  /\ localDashboardLinks' = Without(localDashboardLinks, {i})
  /\ editingDashLinkId' = IF editingDashLinkId = i THEN None ELSE editingDashLinkId
  /\ SaveDashboards

\* The window is stored; the details are drawn again, the global bar is not.
ChangeWindow(w) ==
  /\ window' = w
  /\ UNCHANGED <<localDashboardLinks, dashboardLinks, editingDashLinkId,
                 storedDashboards, dashList, globalLinks, traceVars>>
  /\ DrawDetail

-----------------------------------------------------------------------------
(* Trace links *)

RenderTraceLinks(editing) == traceList' = [links |-> traceLinks', editing |-> editing]

SaveTraceLinks ==
  /\ storedTraces' = traceLinks'
  /\ RenderTraceLinks(editingTraceIndex')
  /\ UNCHANGED dashVars /\ DrawDetail

StartEditTrace(n) ==
  /\ n \in DOMAIN traceList.links /\ n \in DOMAIN traceLinks
  /\ editingTraceIndex' = n /\ meant' = traceLinks[n]
  /\ UNCHANGED <<dashVars, traceLinks, storedTraces, detailLinks>>
  /\ RenderTraceLinks(n)

CancelEditTrace ==
  /\ editingTraceIndex # 0
  /\ editingTraceIndex' = 0
  /\ UNCHANGED <<dashVars, traceLinks, storedTraces, detailLinks, meant>>
  /\ RenderTraceLinks(0)

AddTrace(l) ==
  /\ editingTraceIndex = 0 /\ Len(traceLinks) < MaxTraceLinks
  /\ traceLinks' = Append(traceLinks, l)
  /\ UNCHANGED <<editingTraceIndex, meant>> /\ SaveTraceLinks

UpdateTrace(l) ==
  /\ editingTraceIndex # 0
  /\ traceLinks' = [traceLinks EXCEPT ![editingTraceIndex] = l]
  /\ editingTraceIndex' = 0 /\ UNCHANGED meant /\ SaveTraceLinks

\* Any delete ends an editing, because the positions shift.
\* Mutant: only that of the deleted link does.
DeleteTrace_keepsOther(n) ==
  /\ n \in DOMAIN traceList.links
  /\ traceLinks' = RemoveAt(traceLinks, n)
  /\ editingTraceIndex' = IF editingTraceIndex = n THEN 0 ELSE editingTraceIndex
  /\ UNCHANGED meant /\ SaveTraceLinks
DeleteTrace(n) ==
  /\ n \in DOMAIN traceList.links
  /\ traceLinks' = RemoveAt(traceLinks, n)
  /\ editingTraceIndex' = 0
  /\ UNCHANGED meant /\ SaveTraceLinks

-----------------------------------------------------------------------------
\* loadTraceLinks(): the seed stands until something was saved, if only the
\* empty list.
LoadedTraces(stored) == IF stored = None THEN <<Seed>> ELSE stored

NoDashList == [links |-> Nothing, off |-> {}, editing |-> None]

LinksInit ==
  /\ localDashboardLinks = Nothing /\ dashboardLinks = Nothing
  /\ editingDashLinkId = None /\ storedDashboards = Nothing
  /\ dashList = NoDashList /\ globalLinks = Nothing
  /\ window = DefaultWindow
  /\ storedTraces = None /\ traceLinks = LoadedTraces(None)
  /\ editingTraceIndex = 0 /\ traceList = [links |-> traceLinks, editing |-> 0]
  /\ detailLinks = Nothing /\ meant = Seed

\* Loading the page.  Dashboards are drawn when the server's have come.
LinksReload ==
  /\ localDashboardLinks' = storedDashboards
  /\ dashboardLinks' = storedDashboards
  /\ editingDashLinkId' = None /\ dashList' = NoDashList /\ globalLinks' = Nothing
  /\ traceLinks' = LoadedTraces(storedTraces)
  /\ editingTraceIndex' = 0 /\ RenderTraceLinks(0)
  /\ detailLinks' = Nothing
  /\ UNCHANGED <<storedDashboards, storedTraces, window, meant>>

-----------------------------------------------------------------------------
Dashboard == [name : Content, scope : {"global", "packet"}]

LinksTypeOK ==
  /\ DOMAIN localDashboardLinks \subseteq LocalDashId
  /\ Range(localDashboardLinks) \subseteq Dashboard
  /\ editingDashLinkId \in LocalDashId \cup {None}
  /\ window \in Window
  /\ traceLinks \in Seq([header : Header, url : TraceUrl])
  /\ editingTraceIndex \in 0 .. Len(traceLinks)

\* The details show the packet's dashboards that are on, with the window in
\* force, and for each header the first trace link the user has for it, unless
\* they were last drawn in vain.
DetailLinksAreCurrent ==
  ~undrawn => detailLinks = [p \in Shown |->
    [dashboards |-> OfScope(Over(localDashboardLinks,
                          EnabledDashboards(serverDashboardLinks, disabled)), "packet"),
     window |-> window,
     traces |-> [h \in Header |->
       LET n == SelectInSeq(traceLinks, LAMBDA l : l.header = h) IN
       IF n = 0 THEN None ELSE traceLinks[n].url]]]

\* The global bar and both lists in the settings show what there is, once the
\* server's configuration has come.
BarAndListsAreCurrent ==
  config = "done" =>
    /\ globalLinks = OfScope(Over(localDashboardLinks,
                           EnabledDashboards(serverDashboardLinks, disabled)), "global")
    /\ dashList = [links |-> Over(localDashboardLinks, serverDashboardLinks),
                   off |-> {i \in DOMAIN serverDashboardLinks : DashKey(i) \in disabled},
                   editing |-> editingDashLinkId]
    /\ traceList = [links |-> traceLinks, editing |-> editingTraceIndex]

\* A link that is being edited is in its list, and Update saves into the one
\* whose Edit button was pressed: the position
\* still is that link's (app.js:2130), and a dashboard that is being edited
\* is one that exists, or the edit would be lost.
EditedLinkExists == editingTraceIndex \in 0 .. Len(traceLinks)
EditedLinkIsTheOneMeant ==
  /\ editingTraceIndex # 0 => traceLinks[editingTraceIndex] = meant
  /\ editingDashLinkId # None => editingDashLinkId \in DOMAIN localDashboardLinks

\* Loading the page again shows the trace links as they were, a deleted seed
\* included.
TracesSurviveReload ==
  traceLinks = IF storedTraces = None THEN <<Seed>> ELSE storedTraces
==============================================================================
