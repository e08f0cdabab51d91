--------------------------- MODULE TrafficViewProofs ---------------------------
(***************************************************************************)
(* What the traffic view promises for any packets, filters, sort keys,     *)
(* bodies and queries, and any number of loads and commands: the table is  *)
(* what a rebuild would draw, the controls, the filter and the storage     *)
(* agree, the pane follows the selection, and the viewer shows what its    *)
(* title and its counter say.                                              *)
(***************************************************************************)
EXTENDS TrafficView, TLAPS, SequenceTheorems, FiniteSetTheorems

-----------------------------------------------------------------------------
(* The filter *)

FilterTypeOK ==
  /\ facets \subseteq Facet /\ timer \subseteq Typed
  /\ typed \in [Typed -> Text \cup {None}]
  /\ typedControl \in [Typed -> Text \cup {None}]

\* A field that differs from the filter has its timer running; the storage and
\* the tags are the filter's unless drawing failed when it was last changed.
ControlsAreDue ==
  /\ \A f \in Typed \ timer : typedControl[f] = typed[f]
  /\ ~unsaved => storedFilter = Filter(facets, typed) /\ tags = Filter(facets, typed)

FilterInv == FilterTypeOK /\ ControlsAreDue

LEMMA FilterInit == TableInit => FilterInv
<1>. SUFFICES ASSUME TableInit PROVE FilterInv
  OBVIOUS
<1>1. storedFilter \in [facets : SUBSET Facet, typed : [Typed -> Text \cup {None}]]
  BY PacketTableAssumption DEF TableInit
<1>2. storedFilter = Filter(facets, typed)
  BY <1>1 DEF TableInit, Filter
<1>3. FilterTypeOK
  BY <1>1 DEF TableInit, FilterTypeOK
<1>4. tags = storedFilter /\ typedControl = typed
  BY DEF TableInit
<1>. QED
  BY <1>2, <1>3, <1>4 DEF FilterInv, ControlsAreDue

\* A handler that leaves the filter and its controls alone.
LEMMA FilterKept == FilterInv /\ UNCHANGED filterVars => FilterInv'
BY DEF FilterInv, FilterTypeOK, ControlsAreDue, Filter, filterVars, controlVars

\* A change of language draws the tags of the filter anew.
LEMMA TagsDrawn ==
  ASSUME FilterInv, tags' = Filter(facets, typed),
         UNCHANGED <<facets, controlVars, storedFilter, unsaved>>
  PROVE  FilterInv'
BY DEF FilterInv, FilterTypeOK, ControlsAreDue, Filter, controlVars

\* After a change, storage and tags are the filter's unless drawing failed.
LEMMA ChangeIsSaved ==
  OnFilterChange =>
    (~unsaved' => storedFilter' = Filter(facets', typed') /\ tags' = Filter(facets', typed'))
BY DEF OnFilterChange

LEMMA ToggleFacetKeeps ==
  ASSUME FilterInv, NEW f \in Facet, ToggleFacet(f)
  PROVE  FilterInv'
<1>1. FilterTypeOK'
  BY DEF FilterInv, FilterTypeOK, ToggleFacet, controlVars
<1>2. ControlsAreDue'
  BY ChangeIsSaved DEF FilterInv, ControlsAreDue, ToggleFacet, controlVars
<1>. QED
  BY <1>1, <1>2 DEF FilterInv

LEMMA RemoveFacetTagKeeps ==
  ASSUME FilterInv, NEW f, RemoveFacetTag(f)
  PROVE  FilterInv'
<1>1. FilterTypeOK'
  BY DEF FilterInv, FilterTypeOK, RemoveFacetTag, controlVars
<1>2. ControlsAreDue'
  BY ChangeIsSaved DEF FilterInv, ControlsAreDue, RemoveFacetTag, controlVars
<1>. QED
  BY <1>1, <1>2 DEF FilterInv

\* A keystroke starts the timer of its field.
LEMMA TypeKeeps ==
  ASSUME FilterInv, NEW f \in Typed, NEW v \in Text \cup {None}, Type(f, v)
  PROVE  FilterInv'
<1>1. FilterTypeOK'
  BY DEF FilterInv, FilterTypeOK, Type
<1>2. ControlsAreDue'
  BY DEF FilterInv, FilterTypeOK, ControlsAreDue, Type, Filter
<1>. QED
  BY <1>1, <1>2 DEF FilterInv

\* The timer takes over what its field holds by then.
LEMMA TimerKeeps ==
  ASSUME FilterInv, NEW f \in Typed, TimerFires(f)
  PROVE  FilterInv'
<1>1. FilterTypeOK'
  BY DEF FilterInv, FilterTypeOK, TimerFires
<1>2. ControlsAreDue'
  BY ChangeIsSaved DEF FilterInv, FilterTypeOK, ControlsAreDue, TimerFires
<1>. QED
  BY <1>1, <1>2 DEF FilterInv

LEMMA RemoveTagKeeps ==
  ASSUME FilterInv, NEW f \in Typed, RemoveTag(f)
  PROVE  FilterInv'
<1>1. FilterTypeOK'
  BY DEF FilterInv, FilterTypeOK, RemoveTag
<1>2. ControlsAreDue'
  BY ChangeIsSaved DEF FilterInv, FilterTypeOK, ControlsAreDue, RemoveTag
<1>. QED
  BY <1>1, <1>2 DEF FilterInv

\* A reset empties the fields too, so that timers that still run find nothing.
LEMMA ResetKeeps ==
  ASSUME FilterInv, ResetFilters
  PROVE  FilterInv'
<1>1. FilterTypeOK'
  BY DEF FilterInv, FilterTypeOK, ResetFilters, NoText
<1>2. ControlsAreDue'
  BY ChangeIsSaved DEF FilterInv, ControlsAreDue, ResetFilters
<1>. QED
  BY <1>1, <1>2 DEF FilterInv

LEMMA FilterStep == FilterInv /\ [Next]_vars => FilterInv'
<1>. SUFFICES ASSUME FilterInv, [Next]_vars PROVE FilterInv'
  OBVIOUS
<1>1. CASE FilterAndSort
  <2>1. CASE \E k \in SortKey : ToggleSort(k)
    BY <2>1, FilterKept DEF ToggleSort
  <2>. QED
    BY <1>1, <2>1, ToggleFacetKeeps, RemoveFacetTagKeeps, TypeKeeps, RemoveTagKeeps,
       ResetKeeps DEF FilterAndSort
<1>2. CASE Timers
  BY <1>2, TimerKeeps DEF Timers
<1>3. ASSUME UNCHANGED filterVars PROVE FilterInv'
  BY <1>3, FilterKept
<1>4. CASE ClickRow \/ MoveSelection \/ ChooseRun \/ ClearAll
  <2>1. UNCHANGED filterVars
    BY <1>4 DEF ClickRow, MoveSelection, ChooseRun, ClearAll, SelectRow, SelectRun, ClearTable
  <2>. QED
    BY <2>1, <1>3
<1>5. CASE Pane \/ Viewer \/ ChangeRules \/ Stream \/ Frames \/ UNCHANGED vars
  <2>1. UNCHANGED filterVars
    BY <1>5 DEF Pane, Viewer, ChangeRules, Repaint, Stream, Frames, Live, Frame, vars,
                tableVars, filterVars
  <2>. QED
    BY <2>1, <1>3
<1>6. CASE Loads
  <2>1. UNCHANGED filterVars
    BY <1>6 DEF Loads, LoadEmpties, LoadFills, LoadStops, LoadFails
  <2>. QED
    BY <2>1, <1>3
<1>7. CASE Retranslate
  BY <1>7, TagsDrawn DEF Retranslate, Repaint
<1>. QED
  BY <1>1, <1>2, <1>4, <1>5, <1>6, <1>7 DEF Next

\* Once no timer runs, the input fields hold the filter; and so do the storage
\* and the tags unless drawing failed: of a field and its debounce timer, a
\* reset, a removed tag and the other filters, in any order.
THEOREM FilterAgrees == Spec => []ControlsAgree
<1>1. Init => FilterInv
  BY FilterInit DEF Init
<1>2. FilterInv => ControlsAgree
  <2>. SUFFICES ASSUME FilterInv PROVE ControlsAgree
    OBVIOUS
  <2>1. timer = {} => typedControl = typed
    BY DEF FilterInv, FilterTypeOK, ControlsAreDue
  <2>. QED
    BY <2>1 DEF FilterInv, ControlsAreDue, ControlsAgree
<1>. QED
  BY <1>1, <1>2, FilterStep, PTL DEF Spec

-----------------------------------------------------------------------------
(* The pane *)

\* The pane renders the selected packet or none, its list of bodies is that
\* packet's or, if drawing it again failed, empty, and the one scroll spy that
\* polls is the one it knows of.
BodiesAreOfDetail ==
  detailBodies # <<>> =>
    /\ detail # None
    /\ detailBodies = [n \in DOMAIN Parts[detail] |-> detailBodies[n]]
    /\ \A n \in DOMAIN Parts[detail] :
         detailBodies[n] \in [body : {<<detail, Parts[detail][n]>>}, raw : BOOLEAN]

PaneInv ==
  DetailShowsSelected /\ AtMostOneSpy /\ detailSpy \in BOOLEAN /\ BodiesAreOfDetail

\* Tearing down leaves no spy.
LEMMA Teardown == ASSUME AtMostOneSpy, detailSpy \in BOOLEAN PROVE AfterTeardown = 0
BY DEF AtMostOneSpy, AfterTeardown

\* Rendering what is selected, or none.
LEMMA RenderedPane ==
  ASSUME PaneInv, NEW p, p \in {None, selectedId'}, RenderDetail(p, None)
  PROVE  PaneInv'
<1>1. AtMostOneSpy' /\ detailSpy' \in BOOLEAN
  <2>1. detailSpy' = (p # None) /\ AfterTeardown = 0
    BY Teardown DEF PaneInv, RenderDetail
  <2>2. spies' = IF p = None THEN 0 ELSE 1
    BY <2>1 DEF RenderDetail
  <2>. QED
    BY <2>1, <2>2, Zenon DEF AtMostOneSpy
<1>2. DetailShowsSelected'
  BY DEF RenderDetail, DetailShowsSelected
<1>3. BodiesAreOfDetail'
  BY DEF RenderDetail, BodiesAreOfDetail, Bodies
<1>. QED
  BY <1>1, <1>2, <1>3 DEF PaneInv

LEMMA EmptiedPane == ASSUME PaneInv, EmptyDetail(None) PROVE PaneInv'
<1>1. AtMostOneSpy' /\ detailSpy' \in BOOLEAN
  BY Teardown DEF PaneInv, EmptyDetail, AtMostOneSpy
<1>. QED
  BY <1>1 DEF PaneInv, EmptyDetail, DetailShowsSelected, BodiesAreOfDetail

LEMMA ClosedPane == ASSUME PaneInv, CloseDetail, selectedId' = selectedId PROVE PaneInv'
<1>1. AtMostOneSpy' /\ detailSpy' \in BOOLEAN
  BY Teardown DEF PaneInv, CloseDetail, AtMostOneSpy
<1>2. DetailShowsSelected'
  BY DEF PaneInv, CloseDetail, DetailShowsSelected
<1>. QED
  BY <1>1, <1>2 DEF PaneInv, CloseDetail, BodiesAreOfDetail

LEMMA ToggledPane ==
  ASSUME PaneInv, NEW n, ToggleRaw(n), selectedId' = selectedId PROVE PaneInv'
<1>0. detailBodies # <<>>
  BY DEF ToggleRaw
<1>1. detail # None /\ n \in DOMAIN Parts[detail]
  BY <1>0 DEF PaneInv, ToggleRaw, BodiesAreOfDetail
<1>2. detailBodies[n] \in [body : {<<detail, Parts[detail][n]>>}, raw : BOOLEAN]
  BY <1>0, <1>1 DEF PaneInv, BodiesAreOfDetail
<1>3. [detailBodies[n] EXCEPT !.raw = ~detailBodies[n].raw]
        \in [body : {<<detail, Parts[detail][n]>>}, raw : BOOLEAN]
  BY <1>2, Zenon
<1>4. BodiesAreOfDetail'
  BY <1>0, <1>1, <1>3 DEF PaneInv, ToggleRaw, BodiesAreOfDetail
<1>. QED
  BY <1>4 DEF PaneInv, ToggleRaw, DetailShowsSelected, AtMostOneSpy

LEMMA KeptPane == PaneInv /\ UNCHANGED <<paneVars, selectedId>> => PaneInv'
BY DEF PaneInv, paneVars, DetailShowsSelected, AtMostOneSpy, BodiesAreOfDetail

\* Details that cannot be drawn: only the list of bodies is emptied.
LEMMA ThrownPane == ASSUME PaneInv, DetailThrows, selectedId' = selectedId PROVE PaneInv'
BY DEF PaneInv, DetailThrows, DetailShowsSelected, AtMostOneSpy, BodiesAreOfDetail

\* A packet of the table or none, when its packet is not listed any more.
LEMMA ShownPane ==
  ASSUME PaneInv, NEW n, SelectRow(n), ShowPacket(Listed(rows[n].id), None)
  PROVE  PaneInv'
<1>1. Listed(rows[n].id) \in {None, selectedId'}
  BY DEF SelectRow, Listed
<1>. QED
  BY <1>1, RenderedPane DEF ShowPacket

LEMMA PaneStep == PaneInv /\ [Next]_vars => PaneInv'
<1>. SUFFICES ASSUME PaneInv, [Next]_vars PROVE PaneInv'
  OBVIOUS
<1>1. CASE ClickRow \/ MoveSelection
  BY <1>1, ShownPane DEF ClickRow, MoveSelection
<1>2. CASE ChooseRun \/ ClearAll
  BY <1>2, EmptiedPane DEF ChooseRun, ClearAll
<1>3. CASE Pane
  <2>1. selectedId' = selectedId
    BY <1>3 DEF Pane, tableVars
  <2>2. CASE CloseDetail
    BY <2>1, <2>2, ClosedPane
  <2>3. CASE RestoreDetail(selectedId # None)
    BY <2>1, <2>3, KeptPane DEF RestoreDetail
  <2>4. CASE \E n \in DOMAIN detailBodies : ToggleRaw(n)
    BY <2>1, <2>4, ToggledPane
  <2>5. CASE \E n \in DOMAIN detailBodies : OpenBodyModal(n)
    <3>1. UNCHANGED <<detail, detailBodies, detailSpy, spies>>
      BY <2>5 DEF OpenBodyModal
    <3>. QED
      BY <2>1, <3>1 DEF PaneInv, DetailShowsSelected, AtMostOneSpy, BodiesAreOfDetail
  <2>6. CASE CloseBodyModal
    BY <2>1, <2>6, KeptPane DEF CloseBodyModal
  <2>. QED
    BY <1>3, <2>2, <2>3, <2>4, <2>5, <2>6 DEF Pane, Escape
<1>4. CASE ChangeRules \/ Retranslate
  <2>1. Repaint /\ selectedId' = selectedId
    BY <1>4 DEF ChangeRules, Retranslate, Repaint
  <2>2. Listed(selectedId) \in {None, selectedId'}
    BY <2>1 DEF Listed
  <2>. QED
    BY <2>1, <2>2, KeptPane, ThrownPane, RenderedPane DEF Repaint
<1>5. CASE FilterAndSort \/ Stream \/ Frames \/ Timers \/ Loads \/ Viewer \/ UNCHANGED vars
  <2>1. UNCHANGED paneVars
    BY <1>5 DEF FilterAndSort, Stream, Frames, Timers, Loads, Viewer, ModalToggle, SearchFor,
                StepSearch, vars, detailVars
  <2>2. CASE FilterAndSort
    BY <2>2, <2>1, KeptPane DEF FilterAndSort, ToggleFacet, RemoveFacetTag, Type, RemoveTag, ResetFilters,
                                ToggleSort, OnFilterChange, KeepList
  <2>3. CASE Stream \/ Frames
    BY <2>3, <2>1, KeptPane DEF Stream, Frames, Live, Frame
  <2>4. CASE Timers
    BY <2>4, <2>1, KeptPane DEF Timers, TimerFires, OnFilterChange, KeepList
  <2>5. CASE Loads
    BY <2>5, <2>1, KeptPane DEF Loads, LoadEmpties, LoadFills, LoadStops, LoadFails
  <2>6. CASE Viewer \/ UNCHANGED vars
    BY <2>6, <2>1, KeptPane DEF Viewer, tableVars, vars
  <2>. QED
    BY <1>5, <2>2, <2>3, <2>4, <2>5, <2>6
<1>. QED
  BY <1>1, <1>2, <1>3, <1>4, <1>5 DEF Next

\* The pane shows the selected packet or none, after every way to select, to
\* load, to clear and to draw again, and no scroll spy is left polling.
THEOREM PaneFollows == Spec => []PaneFollowsSelection
<1>1. Init => PaneInv
  BY DEF Init, TableInit, DetailInit, PaneInv, DetailShowsSelected, AtMostOneSpy,
         BodiesAreOfDetail
<1>2. PaneInv => PaneFollowsSelection
  BY DEF PaneInv, PaneFollowsSelection
<1>. QED
  BY <1>1, <1>2, PaneStep, PTL DEF Spec

-----------------------------------------------------------------------------
(* The viewer *)

\* The hits of what is sought in the viewer's editor.
Hits == IF modalCm = NoBody \/ query = NoBody THEN 0 ELSE Found[query][modalCm]

ViewerTypeOK ==
  /\ modal = [index |-> modal.index, raw |-> modal.raw] /\ modal.raw \in BOOLEAN
  /\ modalCm \in Formatted \cup {NoBody} /\ query \in Query \cup {NoBody}

\* Until the details of another packet are rendered, the viewer's position is
\* that of the body its title names, and host and editor hold that body.
ShowsBody ==
  (ModalOpen /\ ~moved) =>
    /\ detail # None /\ modal.index \in DOMAIN Parts[detail]
    /\ modal.index \in DOMAIN detailBodies
    /\ modalTitle = <<detail, Parts[detail][modal.index]>>
    /\ modalHost = [body |-> modalTitle, raw |-> modal.raw \/ modalTitle \notin Formatted]
    /\ modalCm = IF modal.raw \/ modalTitle \notin Formatted THEN NoBody ELSE modalTitle

\* Hits and counter are those of the query in the editor, whatever is shown.
CountsHits ==
  /\ Hits \in Nat
  /\ ModalOpen =>
       /\ searchHits = Hits
       /\ searchIdx \in -1 .. (Hits - 1) /\ (Hits # 0 => searchIdx # -1)
       /\ bmCount = IF modalCm = NoBody \/ query = NoBody THEN <<>> ELSE
                    IF Hits = 0 THEN <<0>> ELSE <<searchIdx + 1, Hits>>

ViewerInv == ViewerTypeOK /\ ShowsBody /\ CountsHits

\* The first hit, if there is one.
LEMMA FirstHit ==
  ASSUME NEW n \in Nat, NEW i, i = IF n > 0 THEN 0 ELSE -1
  PROVE  i \in -1 .. (n - 1) /\ (n # 0 => i # -1)
OBVIOUS

\* A search counts the hits of its query in what it is given.
LEMMA SearchCounts ==
  ASSUME ViewerTypeOK', Search(modalCm', query') PROVE CountsHits'
<1>1. Hits' \in Nat
  BY DetailPaneAssumption DEF ViewerTypeOK, Hits
<1>2. searchHits' = Hits'
  BY DEF Search, Hits
<1>3. searchIdx' = IF Hits' > 0 THEN 0 ELSE -1
  BY <1>2 DEF Search, Hits
<1>4. searchIdx' \in -1 .. (Hits' - 1) /\ (Hits' # 0 => searchIdx' # -1)
  BY <1>1, <1>3, FirstHit, Zenon
<1>5. Hits' # 0 => searchIdx' + 1 = 1
  <2>. HIDE DEF Hits
  <2>. QED
    BY <1>1, <1>3
<1>6. bmCount' = IF modalCm' = NoBody \/ query' = NoBody THEN <<>> ELSE
                 IF Hits' = 0 THEN <<0>> ELSE <<1, Hits'>>
  BY <1>2 DEF Search, Hits
<1>. QED
  BY <1>1, <1>2, <1>4, <1>5, <1>6 DEF CountsHits

LEMMA KeptViewer ==
  ViewerInv /\ UNCHANGED <<modalVars, detail, moved, DOMAIN detailBodies>> => ViewerInv'
BY DEF ViewerInv, ViewerTypeOK, ShowsBody, CountsHits, Hits, ModalOpen, modalVars

\* The details are rendered, for the same packet or for another one.
LEMMA RenderedViewer ==
  ASSUME ViewerInv, NEW p, UNCHANGED modalVars, detail' = p,
         ModalOpen /\ p # None => DOMAIN detailBodies' = DOMAIN Parts[p],
         moved' = (moved \/ (ModalOpen /\ p # detail))
  PROVE  ViewerInv'
<1>1. ViewerTypeOK' /\ CountsHits'
  BY DEF ViewerInv, ViewerTypeOK, CountsHits, Hits, ModalOpen, modalVars
<1>2. ShowsBody'
  BY DEF ViewerInv, ShowsBody, ModalOpen, modalVars
<1>. QED
  BY <1>1, <1>2 DEF ViewerInv

\* The details cannot be drawn again.
LEMMA ThrownViewer ==
  ASSUME ViewerInv, UNCHANGED modalVars, DetailThrows PROVE ViewerInv'
<1>1. ViewerTypeOK' /\ CountsHits'
  BY DEF ViewerInv, ViewerTypeOK, CountsHits, Hits, ModalOpen, modalVars
<1>2. ShowsBody'
  BY DEF ShowsBody, DetailThrows, ModalOpen, modalVars
<1>. QED
  BY <1>1, <1>2 DEF ViewerInv

LEMMA OpenedViewer ==
  ASSUME PaneInv, ViewerInv, NEW n, OpenBodyModal(n) PROVE ViewerInv'
<1>1. /\ detail # None /\ n \in DOMAIN Parts[detail] /\ n \in DOMAIN detailBodies
      /\ detailBodies[n].body = <<detail, Parts[detail][n]>>
  BY DEF PaneInv, OpenBodyModal, BodiesAreOfDetail
<1>2. modal' = [index |-> n, raw |-> FALSE] /\ modalTitle' = detailBodies[n].body
      /\ query' = NoBody /\ moved' = FALSE /\ UNCHANGED <<detail, detailBodies>>
  BY DEF OpenBodyModal
<1>3. /\ modalHost' = [body |-> modalTitle', raw |-> modalTitle' \notin Formatted]
      /\ modalCm' = IF modalTitle' \notin Formatted THEN NoBody ELSE modalTitle'
  BY <1>2 DEF OpenBodyModal, RenderModalView
<1>4. ViewerTypeOK'
  BY <1>2, <1>3 DEF ViewerTypeOK
<1>5. CountsHits'
  BY <1>2, <1>4, SearchCounts DEF OpenBodyModal, RenderModalView
<1>6. ShowsBody'
  BY <1>1, <1>2, <1>3 DEF ShowsBody
<1>. QED
  BY <1>4, <1>5, <1>6 DEF ViewerInv

\* The Raw button draws the body at the remembered position of the list that
\* is there now, and searches in it again.
LEMMA ToggledViewer == ASSUME PaneInv, ViewerInv, ModalToggle PROVE ViewerInv'
<1>1. modal' = [index |-> modal.index, raw |-> ~modal.raw]
  BY DEF ModalToggle, ViewerInv, ViewerTypeOK
<1>2. UNCHANGED <<detail, detailBodies, moved, modalTitle, query>> /\ ModalOpen
  BY DEF ModalToggle, paneVars
<1>3. ASSUME ModalOpen, ~moved
      PROVE  modal.index \in DOMAIN detailBodies
             /\ detailBodies[modal.index].body = modalTitle
  BY <1>3 DEF PaneInv, ViewerInv, ShowsBody, BodiesAreOfDetail
<1>4. CASE modal.index \in DOMAIN detailBodies
           /\ RenderModalView(detailBodies[modal.index].body, modal'.raw, query)
  <2>. DEFINE b == detailBodies[modal.index].body
  <2>1. /\ modalHost' = [body |-> b, raw |-> modal'.raw \/ b \notin Formatted]
        /\ modalCm' = IF modal'.raw \/ b \notin Formatted THEN NoBody ELSE b
        /\ Search(modalCm', query')
    BY <1>2, <1>4 DEF RenderModalView
  <2>2. ViewerTypeOK'
    BY <1>1, <1>2, <2>1 DEF ViewerInv, ViewerTypeOK
  <2>3. ShowsBody'
    BY <1>2, <1>1, <1>3, <2>1 DEF ViewerInv, ShowsBody
  <2>. QED
    BY <2>1, <2>2, <2>3, SearchCounts DEF ViewerInv
<1>5. CASE modal.index \notin DOMAIN detailBodies
           /\ UNCHANGED <<modalCm, searchHits, searchIdx, bmCount>>
  <2>1. moved
    BY <1>2, <1>3, <1>5
  <2>2. ShowsBody'
    BY <1>2, <2>1 DEF ShowsBody
  <2>3. ViewerTypeOK'
    BY <1>1, <1>2, <1>5 DEF ViewerInv, ViewerTypeOK
  <2>4. CountsHits'
    BY <1>2, <1>5 DEF ViewerInv, CountsHits, Hits
  <2>. QED
    BY <2>2, <2>3, <2>4 DEF ViewerInv
<1>. QED
  BY <1>4, <1>5 DEF ModalToggle

LEMMA SearchedViewer ==
  ASSUME ViewerInv, NEW q \in Query \cup {NoBody}, SearchFor(q) PROVE ViewerInv'
<1>1. ViewerTypeOK'
  BY DEF SearchFor, ViewerInv, ViewerTypeOK
<1>2. Search(modalCm', query')
  BY DEF SearchFor, Search
<1>3. ShowsBody'
  BY DEF SearchFor, ViewerInv, ShowsBody, ModalOpen, paneVars
<1>. QED
  BY <1>1, <1>2, <1>3, SearchCounts DEF ViewerInv

\* The next hit is again one of the hits.
LEMMA InCircle ==
  ASSUME NEW i \in Int, NEW n \in Nat, n > 0 PROVE i % n \in 0 .. (n - 1)
OBVIOUS

LEMMA SteppedViewer ==
  ASSUME ViewerInv, NEW delta \in {-1, 1}, StepSearch(delta) PROVE ViewerInv'
<1>1. UNCHANGED <<modal, modalTitle, modalHost, modalCm, query, detail, detailBodies, moved,
                  searchHits>>
      /\ ModalOpen
  BY DEF StepSearch, paneVars
<1>2. Hits' = Hits /\ Hits \in Nat /\ searchHits = Hits /\ searchIdx \in Int
  BY <1>1 DEF ViewerInv, CountsHits, Hits
<1>3. Hits > 0
  BY <1>2 DEF StepSearch
<1>4. searchIdx' = (searchIdx + delta + Hits) % Hits
      /\ bmCount' = <<searchIdx' + 1, Hits>>
  BY <1>2 DEF StepSearch
<1>5. searchIdx' \in 0 .. (Hits - 1)
  <2>1. searchIdx + delta + Hits \in Int
    BY <1>2
  <2>. QED
    BY <2>1, <1>2, <1>3, <1>4, InCircle
<1>6. CountsHits'
  <2>1. ~(modalCm = NoBody \/ query = NoBody)
    BY <1>3 DEF Hits
  <2>2. searchIdx' \in -1 .. (Hits' - 1) /\ searchIdx' # -1 /\ Hits' # 0
    BY <1>2, <1>3, <1>5
  <2>3. bmCount' = <<searchIdx' + 1, Hits'>> /\ searchHits' = Hits' /\ Hits' \in Nat
    BY <1>1, <1>2, <1>4
  <2>. QED
    BY <1>1, <2>1, <2>2, <2>3 DEF CountsHits
<1>7. ViewerTypeOK' /\ ShowsBody'
  BY <1>1 DEF ViewerInv, ViewerTypeOK, ShowsBody
<1>. QED
  BY <1>6, <1>7 DEF ViewerInv

LEMMA ClosedViewer == ASSUME ViewerInv, CloseBodyModal PROVE ViewerInv'
<1>1. modal' = NoModal /\ modalCm' = NoBody /\ query' = query
  BY DEF CloseBodyModal
<1>2. Hits' = 0
  BY <1>1 DEF Hits
<1>. QED
  BY <1>1, <1>2 DEF ViewerInv, ViewerTypeOK, ShowsBody, CountsHits, ModalOpen, NoModal

LEMMA BodiesDrawn ==
  ASSUME NEW p, RenderDetail(p, None), p # None PROVE DOMAIN detailBodies' = DOMAIN Parts[p]
BY DEF RenderDetail, Bodies

LEMMA ViewerStep == PaneInv /\ ViewerInv /\ [Next]_vars => ViewerInv'
<1>. SUFFICES ASSUME PaneInv, ViewerInv, [Next]_vars PROVE ViewerInv'
  OBVIOUS
<1>1. CASE ClickRow \/ MoveSelection
  BY <1>1, BodiesDrawn, RenderedViewer DEF ClickRow, MoveSelection, ShowPacket, RenderDetail
<1>2. CASE ChooseRun \/ ClearAll
  BY <1>2, RenderedViewer DEF ChooseRun, ClearAll, EmptyDetail
<1>3. CASE Pane
  <2>1. CASE CloseDetail \/ RestoreDetail(selectedId # None)
    BY <2>1, KeptViewer DEF CloseDetail, RestoreDetail, paneVars
  <2>2. CASE \E n \in DOMAIN detailBodies : ToggleRaw(n)
    BY <2>2, KeptViewer DEF ToggleRaw
  <2>. QED
    BY <1>3, <2>1, <2>2, OpenedViewer, ClosedViewer DEF Pane, Escape
<1>4. CASE ChangeRules \/ Retranslate
  <2>1. UNCHANGED modalVars
        /\ (UNCHANGED paneVars \/ DetailThrows \/ RenderDetail(Listed(selectedId), None))
    BY <1>4 DEF ChangeRules, Retranslate, Repaint
  <2>2. CASE UNCHANGED paneVars
    BY <2>1, <2>2, KeptViewer DEF paneVars
  <2>3. CASE RenderDetail(Listed(selectedId), None)
    BY <2>1, <2>3, BodiesDrawn, RenderedViewer DEF RenderDetail
  <2>. QED
    BY <2>1, <2>2, <2>3, ThrownViewer
<1>5. CASE FilterAndSort \/ Stream \/ Frames \/ Timers \/ Loads \/ UNCHANGED vars
  <2>1. UNCHANGED detailVars
    BY <1>5 DEF FilterAndSort, Stream, Frames, Timers, Loads, vars
  <2>. QED
    BY <2>1, KeptViewer DEF detailVars, paneVars
<1>6. CASE Viewer
  BY <1>6, ToggledViewer, SearchedViewer, SteppedViewer DEF Viewer
<1>. QED
  BY <1>1, <1>2, <1>3, <1>4, <1>5, <1>6 DEF Next

\* The viewer shows the body that its title names as long as the details are
\* that packet's, in the view that its button says, and its counter and its
\* current hit are those of the query in what it shows.
THEOREM ViewerShowsItsTitle == Spec => []ViewerAgrees
<1>. DEFINE Both == PaneInv /\ ViewerInv
<1>1. Init => Both
  <2>. SUFFICES ASSUME Init PROVE Both
    OBVIOUS
  <2>1. PaneInv
    BY DEF Init, TableInit, DetailInit, PaneInv, DetailShowsSelected, AtMostOneSpy,
           BodiesAreOfDetail
  <2>2. ViewerInv
    BY DEF Init, DetailInit, ViewerInv, ViewerTypeOK, ShowsBody, CountsHits, Hits,
           ModalOpen, NoModal
  <2>. QED
    BY <2>1, <2>2
<1>2. Both => ViewerAgrees
  <2>. SUFFICES ASSUME Both PROVE ViewerAgrees
    OBVIOUS
  <2>1. ModalShowsItsTitle
    BY DEF ViewerInv, ShowsBody, ModalShowsItsTitle
  <2>2. SearchAgrees
    <3>. SUFFICES ASSUME ModalOpen, ~moved
                  PROVE  LET sought == ~modalHost.raw /\ query # NoBody
                             hits == IF sought THEN Found[query][modalTitle] ELSE 0
                         IN  /\ searchHits = hits
                             /\ (searchIdx = -1) = (hits = 0) /\ searchIdx < searchHits
                             /\ bmCount = IF ~sought THEN <<>> ELSE
                                          IF hits = 0 THEN <<0>> ELSE <<searchIdx + 1, hits>>
      BY DEF SearchAgrees
    <3>. DEFINE sought == ~modalHost.raw /\ query # NoBody
                hits == IF sought THEN Found[query][modalTitle] ELSE 0
    <3>1. modalHost.raw = (modal.raw \/ modalTitle \notin Formatted)
      BY DEF ViewerInv, ShowsBody
    <3>2. (modalCm = NoBody) <=> modalHost.raw
      BY <3>1, DetailPaneAssumption DEF ViewerInv, ShowsBody
    <3>3. ~modalHost.raw => modalCm = modalTitle
      BY <3>1 DEF ViewerInv, ShowsBody
    <3>4. Hits = hits
      BY <3>2, <3>3 DEF Hits
    <3>5. searchHits = Hits /\ Hits \in Nat
          /\ searchIdx \in -1 .. (Hits - 1) /\ (Hits # 0 => searchIdx # -1)
          /\ bmCount = IF modalCm = NoBody \/ query = NoBody THEN <<>> ELSE
                       IF Hits = 0 THEN <<0>> ELSE <<searchIdx + 1, Hits>>
      BY DEF ViewerInv, CountsHits
    <3>6. sought <=> ~(modalCm = NoBody \/ query = NoBody)
      BY <3>2
    <3>. HIDE DEF sought, hits, Hits
    <3>7. (searchIdx = -1) = (hits = 0) /\ searchIdx < searchHits
      BY <3>4, <3>5
    <3>8. bmCount = IF ~sought THEN <<>> ELSE
                    IF hits = 0 THEN <<0>> ELSE <<searchIdx + 1, hits>>
      BY <3>4, <3>5, <3>6, Zenon
    <3>9. searchHits = hits
      BY <3>4, <3>5
    <3>. QED
      BY <3>7, <3>8, <3>9 DEF sought, hits
  <2>. QED
    BY <2>1, <2>2 DEF ViewerAgrees
<1>3. Both /\ [Next]_vars => Both'
  BY PaneStep, ViewerStep
<1>. HIDE DEF Both
<1>. QED
  BY <1>1, <1>2, <1>3, PTL DEF Spec

-----------------------------------------------------------------------------
(* Places in an order *)

IsOrder(I, R) ==
  /\ \A i \in I : <<i, i>> \notin R
  /\ \A i, j \in I : i # j => <<i, j>> \in R \/ <<j, i>> \in R
  /\ \A i, j, k \in I : <<i, j>> \in R /\ <<j, k>> \in R => <<i, k>> \in R

\* The ranks of a finite set are its first numbers, in its order.
LEMMA RankFacts ==
  ASSUME NEW I, IsFiniteSet(I), NEW R, IsOrder(I, R)
  PROVE  /\ Cardinality(I) \in Nat
         /\ \A i \in I : Rank(I, R, i) \in 0 .. Cardinality(I) - 1
         /\ \A i, j \in I : <<i, j>> \in R => Rank(I, R, i) < Rank(I, R, j)
         /\ \A n \in 0 .. Cardinality(I) - 1 : \E i \in I : Rank(I, R, i) = n
<1>. DEFINE Before(i) == {j \in I : <<j, i>> \in R}
            k == Cardinality(I)
            f == [i \in I |-> Rank(I, R, i)]
<1>1. k \in Nat
  BY FS_CardinalityType
<1>2. ASSUME NEW i \in I
      PROVE  IsFiniteSet(Before(i)) /\ Rank(I, R, i) \in 0 .. k - 1
  <2>1. Before(i) \subseteq I /\ i \notin Before(i) /\ Before(i) # I
    BY DEF IsOrder
  <2>. HIDE DEF Before
  <2>2. IsFiniteSet(Before(i)) /\ Cardinality(Before(i)) < k /\ Cardinality(Before(i)) \in Nat
    BY <2>1, FS_Subset, FS_CardinalityType
  <2>. QED
    BY <1>1, <2>2 DEF Rank, Before
<1>3. ASSUME NEW i \in I, NEW j \in I, <<i, j>> \in R
      PROVE  Rank(I, R, i) < Rank(I, R, j)
  <2>1. Before(i) \subseteq Before(j) /\ i \in Before(j) /\ i \notin Before(i)
    BY <1>3 DEF IsOrder
  <2>. HIDE DEF Before
  <2>2. Cardinality(Before(i)) < Cardinality(Before(j))
    BY <1>2, <2>1, FS_Subset, FS_CardinalityType
  <2>. QED
    BY <2>2 DEF Rank, Before
<1>4. ASSUME NEW n \in 0 .. k - 1 PROVE \E i \in I : Rank(I, R, i) = n
  <2>1. \A i, j \in I : i # j => f[i] # f[j]
    <3>. SUFFICES ASSUME NEW i \in I, NEW j \in I, i # j PROVE Rank(I, R, i) # Rank(I, R, j)
      OBVIOUS
    <3>1. Rank(I, R, i) < Rank(I, R, j) \/ Rank(I, R, j) < Rank(I, R, i)
      BY <1>3 DEF IsOrder
    <3>2. Rank(I, R, i) \in 0 .. k - 1 /\ Rank(I, R, j) \in 0 .. k - 1
      BY <1>2, Zenon
    <3>. HIDE DEF k
    <3>. QED
      BY <1>1, <3>1, <3>2
  <2>2. f \in Injection(I, 0 .. k - 1)
    BY <1>2, <2>1 DEF Injection, IsInjective
  <2>3. IsFiniteSet(0 .. k - 1) /\ Cardinality(0 .. k - 1) = k
    BY <1>1, FS_Interval
  <2>. HIDE DEF f
  <2>4. f \in Surjection(I, 0 .. k - 1)
    BY <2>2, <2>3, FS_Injection
  <2>. QED
    BY <2>4 DEF Surjection, f
<1>. QED
  BY <1>1, <1>2, <1>3, <1>4

\* The sequence a has the element of s at each place of I at its rank, and no
\* other element.
IsArrangement(a, s, I, R) ==
  /\ IsFiniteSet(I) /\ Cardinality(I) \in Nat /\ Len(a) = Cardinality(I)
  /\ \A i \in I : Rank(I, R, i) + 1 \in 1 .. Cardinality(I) /\ a[Rank(I, R, i) + 1] = s[i]
  /\ \A n \in 1 .. Cardinality(I) : \E i \in I : n = Rank(I, R, i) + 1 /\ a[n] = s[i]

LEMMA ArrangedFacts ==
  ASSUME NEW T, NEW s \in Seq(T), NEW I \in SUBSET (1 .. Len(s)), NEW R, IsOrder(I, R)
  PROVE  Arranged(s, I, R) \in Seq(T) /\ IsArrangement(Arranged(s, I, R), s, I, R)
<1>. DEFINE k == Cardinality(I)
            a == Arranged(s, I, R)
            At(n) == CHOOSE i \in I : Rank(I, R, i) = n - 1
<1>1. IsFiniteSet(I)
  <2>1. IsFiniteSet(1 .. Len(s))
    BY FS_Interval
  <2>. QED
    BY <2>1, FS_Subset
<1>2. /\ k \in Nat
      /\ \A i \in I : Rank(I, R, i) \in 0 .. k - 1
      /\ \A i, j \in I : <<i, j>> \in R => Rank(I, R, i) < Rank(I, R, j)
      /\ \A n \in 0 .. k - 1 : \E i \in I : Rank(I, R, i) = n
  BY <1>1, RankFacts
<1>3. \A i, j \in I : Rank(I, R, i) = Rank(I, R, j) => i = j
  <2>. SUFFICES ASSUME NEW i \in I, NEW j \in I, i # j PROVE Rank(I, R, i) # Rank(I, R, j)
    OBVIOUS
  <2>1. Rank(I, R, i) < Rank(I, R, j) \/ Rank(I, R, j) < Rank(I, R, i)
    BY <1>2 DEF IsOrder
  <2>. QED
    BY <1>2, <2>1
<1>4. a = [n \in 1 .. k |-> s[At(n)]]
  BY DEF Arranged
<1>5. ASSUME NEW n \in 1 .. k PROVE At(n) \in I /\ n = Rank(I, R, At(n)) + 1
  <2>1. n - 1 \in 0 .. k - 1
    BY <1>2
  <2>2. At(n) \in I /\ Rank(I, R, At(n)) = n - 1
    BY <1>2, <2>1
  <2>. HIDE DEF At
  <2>. QED
    BY <2>2
<1>. HIDE DEF a, k, At
<1>6. \A i \in I : s[i] \in T
  BY ElementOfSeq
<1>7. a \in Seq(T) /\ Len(a) = k /\ \A n \in 1 .. k : a[n] = s[At(n)]
  <2>1. \A n \in 1 .. k : s[At(n)] \in T
    BY <1>5, <1>6
  <2>. QED
    BY <1>2, <1>4, <2>1
<1>8. ASSUME NEW i \in I
      PROVE  Rank(I, R, i) + 1 \in 1 .. k /\ a[Rank(I, R, i) + 1] = s[i]
  <2>1. Rank(I, R, i) + 1 \in 1 .. k
    BY <1>2
  <2>2. At(Rank(I, R, i) + 1) \in I
        /\ Rank(I, R, i) + 1 = Rank(I, R, At(Rank(I, R, i) + 1)) + 1
    BY <1>5, <2>1
  <2>3. Rank(I, R, i) = Rank(I, R, At(Rank(I, R, i) + 1))
    <3>1. Rank(I, R, i) \in 0 .. k - 1 /\ Rank(I, R, At(Rank(I, R, i) + 1)) \in 0 .. k - 1
      BY <1>2, <2>2, Zenon
    <3>. QED
      BY <1>2, <2>2, <3>1
  <2>4. At(Rank(I, R, i) + 1) = i
    BY <1>3, <2>2, <2>3
  <2>. QED
    BY <1>7, <2>1, <2>4
<1>9. \A n \in 1 .. k : \E i \in I : n = Rank(I, R, i) + 1 /\ a[n] = s[i]
  BY <1>5, <1>7
<1>. QED
  BY <1>1, <1>2, <1>7, <1>8, <1>9 DEF a, k, IsArrangement

\* Lists that agree at the places arrange them alike, and one more place at
\* the end of the order is one more element at the end.
Agree(s, R, t, Q, I) ==
  /\ \A i \in I : s[i] = t[i]
  /\ \A i, j \in I : <<i, j>> \in R <=> <<i, j>> \in Q
IsAfter(m, I, Q) == m \notin I /\ \A i \in I : <<i, m>> \in Q /\ <<m, i>> \notin Q

LEMMA ArrangedSame ==
  ASSUME NEW T, NEW s \in Seq(T), NEW t \in Seq(T),
         NEW I \in SUBSET (1 .. Len(s)), I \subseteq 1 .. Len(t),
         NEW R, NEW Q, IsOrder(I, R), Agree(s, R, t, Q, I)
  PROVE  Arranged(t, I, Q) = Arranged(s, I, R)
<1>. DEFINE k == Cardinality(I)
            a == Arranged(s, I, R)
            b == Arranged(t, I, Q)
<1>1. IsOrder(I, Q)
  BY DEF IsOrder, Agree
<1>2. \A i \in I : Rank(I, Q, i) = Rank(I, R, i)
  <2>. SUFFICES ASSUME NEW i \in I PROVE Rank(I, Q, i) = Rank(I, R, i)
    OBVIOUS
  <2>1. {j \in I : <<j, i>> \in Q} = {j \in I : <<j, i>> \in R}
    BY DEF Agree
  <2>. QED
    BY <2>1 DEF Rank
<1>a. a \in Seq(T) /\ IsArrangement(a, s, I, R)
  BY ArrangedFacts
<1>b. b \in Seq(T) /\ IsArrangement(b, t, I, Q)
  BY <1>1, ArrangedFacts
<1>. HIDE DEF a, b
<1>3. /\ k \in Nat /\ Len(a) = k
      /\ \A n \in 1 .. k : \E i \in I : n = Rank(I, R, i) + 1 /\ a[n] = s[i]
  BY <1>a DEF IsArrangement
<1>4. Len(b) = k /\ \A i \in I : b[Rank(I, Q, i) + 1] = t[i]
  BY <1>b DEF IsArrangement
<1>. HIDE DEF k
<1>5. \A n \in 1 .. k : a[n] = b[n]
  <2>. SUFFICES ASSUME NEW n \in 1 .. k PROVE a[n] = b[n]
    OBVIOUS
  <2>1. PICK i \in I : n = Rank(I, R, i) + 1 /\ a[n] = s[i]
    BY <1>3
  <2>2. b[Rank(I, Q, i) + 1] = t[i] /\ Rank(I, Q, i) = Rank(I, R, i)
    BY <1>2, <1>4
  <2>. QED
    BY <2>1, <2>2 DEF Agree
<1>. QED
  BY <1>a, <1>b, <1>3, <1>4, <1>5 DEF a, b

Grows(T, s, R, t, Q, I, m) ==
  /\ s \in Seq(T) /\ t \in Seq(T) /\ I \in SUBSET (1 .. Len(s)) /\ I \subseteq 1 .. Len(t)
  /\ IsOrder(I, R) /\ Agree(s, R, t, Q, I)
  /\ m \in 1 .. Len(t) /\ IsOrder(I \cup {m}, Q) /\ IsAfter(m, I, Q)

LEMMA ArrangedMore ==
  ASSUME NEW T, NEW s, NEW R, NEW t, NEW Q, NEW I, NEW m, Grows(T, s, R, t, Q, I, m)
  PROVE  Arranged(t, I \cup {m}, Q) = Append(Arranged(s, I, R), t[m])
<1>. DEFINE k == Cardinality(I)
            J == I \cup {m}
            a == Arranged(s, I, R)
            b == Arranged(t, J, Q)
<1>0. /\ s \in Seq(T) /\ t \in Seq(T) /\ I \in SUBSET (1 .. Len(s)) /\ I \subseteq 1 .. Len(t)
      /\ IsOrder(I, R) /\ Agree(s, R, t, Q, I)
      /\ m \in 1 .. Len(t) /\ IsOrder(I \cup {m}, Q) /\ IsAfter(m, I, Q)
  BY DEF Grows
<1>a. a \in Seq(T) /\ IsArrangement(a, s, I, R)
  BY <1>0, ArrangedFacts
<1>. HIDE DEF a
<1>1. /\ IsFiniteSet(I) /\ k \in Nat /\ Len(a) = k
      /\ \A n \in 1 .. k : \E i \in I : n = Rank(I, R, i) + 1 /\ a[n] = s[i]
  BY <1>a DEF IsArrangement
<1>2. Cardinality(J) = k + 1
  BY <1>0, <1>1, FS_AddElement DEF IsAfter
<1>3. J \in SUBSET (1 .. Len(t)) /\ IsOrder(J, Q)
  BY <1>0
<1>4. \A i \in I : Rank(J, Q, i) = Rank(I, R, i)
  <2>. SUFFICES ASSUME NEW i \in I PROVE Rank(J, Q, i) = Rank(I, R, i)
    OBVIOUS
  <2>1. {j \in J : <<j, i>> \in Q} = {j \in I : <<j, i>> \in R}
    BY <1>0 DEF Agree, IsAfter
  <2>. QED
    BY <2>1 DEF Rank
<1>5. Rank(J, Q, m) = k
  <2>1. {j \in J : <<j, m>> \in Q} = I
    BY <1>0, <1>3 DEF IsOrder, IsAfter
  <2>. QED
    BY <2>1 DEF Rank
<1>. HIDE DEF k, J
<1>b. b \in Seq(T) /\ IsArrangement(b, t, J, Q)
  BY <1>0, <1>3, ArrangedFacts
<1>. HIDE DEF b
<1>6. Len(b) = Cardinality(J) /\ \A i \in J : b[Rank(J, Q, i) + 1] = t[i]
  BY <1>b DEF IsArrangement
<1>7. m \in J /\ \A i \in I : i \in J
  BY DEF J
<1>8. b[k + 1] = t[m]
  BY <1>5, <1>6, <1>7
<1>9. \A n \in 1 .. k : b[n] = a[n]
  <2>. SUFFICES ASSUME NEW n \in 1 .. k PROVE b[n] = a[n]
    OBVIOUS
  <2>1. PICK i \in I : n = Rank(I, R, i) + 1 /\ a[n] = s[i]
    BY <1>1
  <2>2. b[Rank(J, Q, i) + 1] = t[i] /\ Rank(J, Q, i) = Rank(I, R, i)
    BY <1>4, <1>6, <1>7
  <2>. QED
    BY <1>0, <2>1, <2>2 DEF Agree
<1>10. t[m] \in T
  BY <1>0, ElementOfSeq
<1>11. b = Append(a, t[m])
  <2>1. /\ Append(a, t[m]) \in Seq(T) /\ Len(Append(a, t[m])) = k + 1
        /\ \A n \in 1 .. k : Append(a, t[m])[n] = a[n]
        /\ Append(a, t[m])[k + 1] = t[m]
    BY <1>a, <1>1, <1>10
  <2>2. \A n \in 1 .. k + 1 : n \in 1 .. k \/ n = k + 1
    BY <1>1
  <2>3. Len(b) = k + 1 /\ k + 1 \in Nat
    BY <1>1, <1>2, <1>6
  <2>4. \A n \in 1 .. k + 1 : b[n] = Append(a, t[m])[n]
    BY <1>8, <1>9, <2>1, <2>2
  <2>. QED
    BY <1>b, <2>1, <2>3, <2>4
<1>. QED
  BY <1>11 DEF a, b, J

-----------------------------------------------------------------------------
(* Filters *)

LEMMA InPlaceIsOrder ==
  ASSUME NEW T, NEW s \in Seq(T), NEW I \in SUBSET (1 .. Len(s))
  PROVE  /\ IsOrder(I, InPlace(s))
         /\ \A i, j \in 1 .. Len(s) : <<i, j>> \in InPlace(s) <=> i < j
<1>1. \A i, j \in 1 .. Len(s) : <<i, j>> \in InPlace(s) <=> i < j
  BY DEF InPlace
<1>2. \A i, j, k \in 1 .. Len(s) :
        ~ (i < i) /\ (i # j => i < j \/ j < i) /\ (i < j /\ j < k => i < k)
  OBVIOUS
<1>. QED
  BY <1>1, <1>2 DEF IsOrder

\* A filter leaves what is in the set, in the order of the list, and repeats
\* nothing.
LEMMA OnlyFacts ==
  ASSUME NEW T, NEW s \in Seq(T), NEW S
  PROVE  /\ Only(s, S) \in Seq(T) /\ Range(Only(s, S)) = Range(s) \cap S
         /\ IsInjective(s) => IsInjective(Only(s, S))
         /\ \A a, b \in 1 .. Len(Only(s, S)), i, j \in 1 .. Len(s) :
              IsInjective(s) /\ a < b /\ s[i] = Only(s, S)[a] /\ s[j] = Only(s, S)[b] => i < j
<1>. DEFINE I == {i \in 1 .. Len(s) : s[i] \in S}
            R == InPlace(s)
            k == Cardinality(I)
            o == Only(s, S)
<1>1. I \in SUBSET (1 .. Len(s)) /\ DOMAIN s = 1 .. Len(s) /\ Len(s) \in Nat
  OBVIOUS
<1>2. IsOrder(I, R) /\ \A i, j \in I : <<i, j>> \in R <=> i < j
  BY <1>1, InPlaceIsOrder
<1>3. o = Arranged(s, I, R)
  BY DEF Only
<1>. HIDE DEF I, R, o
<1>a. o \in Seq(T) /\ IsArrangement(o, s, I, R)
  BY <1>1, <1>2, <1>3, ArrangedFacts
<1>4. /\ k \in Nat /\ o \in Seq(T) /\ Len(o) = k
      /\ \A i \in I : Rank(I, R, i) + 1 \in 1 .. k /\ o[Rank(I, R, i) + 1] = s[i]
      /\ \A n \in 1 .. k : \E i \in I : n = Rank(I, R, i) + 1 /\ o[n] = s[i]
  BY <1>a DEF IsArrangement
<1>5. \A i, j \in I : i < j => Rank(I, R, i) + 1 < Rank(I, R, j) + 1
  <2>. SUFFICES ASSUME NEW i \in I, NEW j \in I, i < j
                PROVE  Rank(I, R, i) + 1 < Rank(I, R, j) + 1
    OBVIOUS
  <2>1. IsFiniteSet(I)
    BY <1>a DEF IsArrangement
  <2>2. /\ Rank(I, R, i) \in 0 .. k - 1 /\ Rank(I, R, j) \in 0 .. k - 1
        /\ Rank(I, R, i) < Rank(I, R, j)
    BY <1>2, <2>1, RankFacts
  <2>. QED
    BY <1>4, <2>2
<1>. HIDE DEF k
<1>6. \A a, b \in 1 .. k, i, j \in 1 .. Len(s) :
        IsInjective(s) /\ a < b /\ s[i] = o[a] /\ s[j] = o[b] => i < j
  <2>. SUFFICES ASSUME NEW a \in 1 .. k, NEW b \in 1 .. k, IsInjective(s),
                       NEW i \in 1 .. Len(s), NEW j \in 1 .. Len(s),
                       a < b, s[i] = o[a], s[j] = o[b], ~ (i < j)
                PROVE  FALSE
    OBVIOUS
  <2>1. PICK x \in I : a = Rank(I, R, x) + 1 /\ o[a] = s[x]
    BY <1>4
  <2>2. PICK y \in I : b = Rank(I, R, y) + 1 /\ o[b] = s[y]
    BY <1>4
  <2>3. x = i /\ y = j
    BY <1>1, <2>1, <2>2 DEF IsInjective
  <2>4. j < i \/ i = j
    OBVIOUS
  <2>. QED
    BY <1>5, <2>1, <2>2, <2>3, <2>4
<1>7. Range(o) = Range(s) \cap S
  <2>1. DOMAIN o = 1 .. k
    BY <1>4
  <2>2. \A i : i \in I <=> i \in 1 .. Len(s) /\ s[i] \in S
    BY DEF I
  <2>3. Range(o) \subseteq Range(s) \cap S
    BY <1>1, <1>4, <2>1, <2>2 DEF Range
  <2>4. Range(s) \cap S \subseteq Range(o)
    BY <1>1, <1>4, <2>1, <2>2 DEF Range
  <2>. QED
    BY <2>3, <2>4
<1>8. IsInjective(s) => IsInjective(o)
  <2>. SUFFICES ASSUME IsInjective(s), NEW a \in 1 .. k, NEW b \in 1 .. k, o[a] = o[b]
                PROVE  a = b
    BY <1>4 DEF IsInjective
  <2>1. PICK x \in I : a = Rank(I, R, x) + 1 /\ o[a] = s[x]
    BY <1>4
  <2>2. PICK y \in I : b = Rank(I, R, y) + 1 /\ o[b] = s[y]
    BY <1>4
  <2>. QED
    BY <1>1, <2>1, <2>2 DEF IsInjective
<1>. QED
  BY <1>4, <1>6, <1>7, <1>8 DEF o

-----------------------------------------------------------------------------
(* The order of the table *)

SortType == [key : SortKey \cup {None}, dir : {"asc", "desc"}]

\* What a packet sorts by, if the smallest comes first.
Weight(s, p) == IF s.key = None THEN 0 ELSE
                IF s.dir = "desc" THEN -Value[s.key][p] ELSE Value[s.key][p]

Ahead(ps, s, i, j) ==
  \/ Weight(s, ps[i]) < Weight(s, ps[j])
  \/ Weight(s, ps[i]) = Weight(s, ps[j]) /\ i < j

LEMMA WeightType == \A s \in SortType, p \in Packet : Weight(s, p) \in Int
<1>. SUFFICES ASSUME NEW s \in SortType, NEW p \in Packet PROVE Weight(s, p) \in Int
  OBVIOUS
<1>1. s.key # None => Value[s.key][p] \in Int
  BY PacketTableAssumption DEF SortType
<1>. QED
  BY <1>1 DEF Weight

LEMMA SortOrderIs ==
  ASSUME NEW ps \in Seq(Packet), NEW s \in SortType
  PROVE  \A i, j \in 1 .. Len(ps) : <<i, j>> \in SortOrder(ps, s) <=> Ahead(ps, s, i, j)
<1>. SUFFICES ASSUME NEW i \in 1 .. Len(ps), NEW j \in 1 .. Len(ps)
              PROVE  <<i, j>> \in SortOrder(ps, s) <=> Ahead(ps, s, i, j)
  OBVIOUS
<1>. DEFINE d == IF s.key = None THEN 0 ELSE
                 IF s.dir = "desc" THEN Value[s.key][ps[j]] - Value[s.key][ps[i]]
                                   ELSE Value[s.key][ps[i]] - Value[s.key][ps[j]]
<1>1. DOMAIN ps = 1 .. Len(ps) /\ ps[i] \in Packet /\ ps[j] \in Packet
  BY ElementOfSeq
<1>2. <<i, j>> \in SortOrder(ps, s) <=> d < 0 \/ (d = 0 /\ i < j)
  BY <1>1 DEF SortOrder
<1>3. Weight(s, ps[i]) \in Int /\ Weight(s, ps[j]) \in Int
  BY <1>1, WeightType
<1>4. d = Weight(s, ps[i]) - Weight(s, ps[j])
  <2>1. s.key # None => Value[s.key][ps[i]] \in Int /\ Value[s.key][ps[j]] \in Int
    BY <1>1, PacketTableAssumption DEF SortType
  <2>. QED
    BY <2>1 DEF Weight
<1>. HIDE DEF d
<1>. QED
  BY <1>2, <1>3, <1>4 DEF Ahead

LEMMA SortIsOrder ==
  ASSUME NEW ps \in Seq(Packet), NEW s \in SortType, NEW I \in SUBSET (1 .. Len(ps))
  PROVE  IsOrder(I, SortOrder(ps, s))
<1>. DEFINE w(i) == Weight(s, ps[i])
<1>1. \A i \in 1 .. Len(ps) : w(i) \in Int
  <2>1. \A i \in 1 .. Len(ps) : ps[i] \in Packet
    BY ElementOfSeq
  <2>. QED
    BY <2>1, WeightType
<1>2. \A i, j \in 1 .. Len(ps) :
        <<i, j>> \in SortOrder(ps, s) <=> w(i) < w(j) \/ (w(i) = w(j) /\ i < j)
  BY SortOrderIs DEF Ahead
<1>. HIDE DEF w
<1>3. \A i \in 1 .. Len(ps) : <<i, i>> \notin SortOrder(ps, s)
  BY <1>1, <1>2
<1>4. \A i, j \in 1 .. Len(ps) :
        i # j => <<i, j>> \in SortOrder(ps, s) \/ <<j, i>> \in SortOrder(ps, s)
  BY <1>1, <1>2
<1>5. \A i, j, k \in 1 .. Len(ps) :
        <<i, j>> \in SortOrder(ps, s) /\ <<j, k>> \in SortOrder(ps, s)
          => <<i, k>> \in SortOrder(ps, s)
  BY <1>1, <1>2
<1>. QED
  BY <1>3, <1>4, <1>5 DEF IsOrder

\* Without a repetition, there are as many elements as places.
LEMMA AsManyAsPlaces ==
  ASSUME NEW T, NEW s \in Seq(T), IsInjective(s), NEW I \in SUBSET (1 .. Len(s))
  PROVE  Cardinality({s[i] : i \in I}) = Cardinality(I)
<1>. DEFINE M == {s[i] : i \in I}
            f == [i \in I |-> s[i]]
<1>1. IsFiniteSet(I)
  <2>1. IsFiniteSet(1 .. Len(s))
    BY FS_Interval
  <2>. QED
    BY <2>1, FS_Subset
<1>2. f \in Surjection(I, M)
  BY DEF Surjection
<1>3. f \in Injection(I, M)
  <2>1. \A i, j \in I : f[i] = f[j] => i = j
    BY DEF IsInjective
  <2>. QED
    BY <2>1 DEF Injection, IsInjective
<1>. HIDE DEF M, f
<1>4. Cardinality(M) = Cardinality(I)
  BY <1>1, <1>2, <1>3, FS_Surjection
<1>. QED
  BY <1>4 DEF M

\* A finite set of numbers has a greatest one.
LEMMA MaxIs ==
  ASSUME NEW S \in SUBSET Int, IsFiniteSet(S), S # {}
  PROVE  Max(S) \in S /\ \A y \in S : Max(S) >= y
<1>. DEFINE R == {e \in S \X S : e[1] > e[2]}
<1>1. \A x, y \in S : <<x, y>> \in R <=> x > y
  OBVIOUS
<1>. HIDE DEF R
<1>2. IsOrder(S, R)
  <2>1. \A x, y, z \in S : ~ (x > x) /\ (x # y => x > y \/ y > x) /\ (x > y /\ y > z => x > z)
    OBVIOUS
  <2>. QED
    BY <1>1, <2>1 DEF IsOrder
<1>3. Cardinality(S) \in Nat /\ Cardinality(S) # 0
  BY FS_CardinalityType, FS_EmptySet
<1>4. 0 \in 0 .. Cardinality(S) - 1
  BY <1>3
<1>5. PICK x \in S : Rank(S, R, x) = 0
  BY <1>2, <1>4, RankFacts
<1>6. {y \in S : <<y, x>> \in R} = {}
  <2>1. IsFiniteSet({y \in S : <<y, x>> \in R})
    BY FS_Subset
  <2>2. Cardinality({y \in S : <<y, x>> \in R}) = 0
    BY <1>5 DEF Rank
  <2>. QED
    BY <2>1, <2>2, FS_EmptySet
<1>7. \A y \in S : x >= y
  <2>. SUFFICES ASSUME NEW y \in S PROVE x >= y
    OBVIOUS
  <2>1. ~ (y > x)
    BY <1>1, <1>6
  <2>2. x \in Int /\ y \in Int
    OBVIOUS
  <2>. QED
    BY <2>1, <2>2
<1>. QED
  BY <1>7 DEF Max

-----------------------------------------------------------------------------
(* What a rebuild draws *)

\* The packets at the places D, in the chosen order, and rows of them.
Shown(ps, D, s) == Arranged(ps, D, SortOrder(ps, s))

RowsOf(rs, ps, D, s) ==
  Len(rs) = Len(Shown(ps, D, s)) /\ \A n \in 1 .. Len(rs) : rs[n].id = Shown(ps, D, s)[n]

\* Rows of packets that pass; of all of them, if each can be drawn.
IsTable(rs, c, ps, run, fs, ts, s, bad) ==
  \E D \in SUBSET Passing(ps, run, fs, ts) :
    /\ RowsOf(rs, ps, D, s)
    /\ Failing(ps, run, fs, ts, bad) = {} =>
         /\ D = Passing(ps, run, fs, ts)
         /\ c = [shown |-> Len(rs), total |-> Cardinality(Visible(ps, run))]

LEMMA PassingPlaces ==
  ASSUME NEW ps \in Seq(Packet), NEW run, NEW fs, NEW ts
  PROVE  Passing(ps, run, fs, ts) \in SUBSET (1 .. Len(ps))
<1>1. DOMAIN ps = 1 .. Len(ps)
  OBVIOUS
<1>. QED
  BY <1>1 DEF Passing, Visible

LEMMA ShownFacts ==
  ASSUME NEW ps \in Seq(Packet), NEW s \in SortType, NEW D \in SUBSET (1 .. Len(ps))
  PROVE  /\ IsOrder(D, SortOrder(ps, s))
         /\ Shown(ps, D, s) \in Seq(Packet)
         /\ IsArrangement(Shown(ps, D, s), ps, D, SortOrder(ps, s))
<1>1. IsOrder(D, SortOrder(ps, s))
  BY SortIsOrder
<1>. QED
  BY <1>1, ArrangedFacts DEF Shown

\* What the list had keeps its order when a packet is added to it.
LEMMA AppendAgrees ==
  ASSUME NEW ps \in Seq(Packet), NEW p \in Packet, NEW s \in SortType,
         NEW I \in SUBSET (1 .. Len(ps))
  PROVE  Agree(ps, SortOrder(ps, s), Append(ps, p), SortOrder(Append(ps, p), s), I)
<1>. DEFINE qs == Append(ps, p)
<1>1. qs \in Seq(Packet) /\ Len(qs) = Len(ps) + 1 /\ \A i \in 1 .. Len(ps) : qs[i] = ps[i]
  OBVIOUS
<1>2. \A i \in I : i \in 1 .. Len(ps) /\ i \in 1 .. Len(qs)
  BY <1>1
<1>. HIDE DEF qs
<1>3. \A i, j \in I : <<i, j>> \in SortOrder(ps, s) <=> Ahead(ps, s, i, j)
  BY <1>2, SortOrderIs
<1>4. \A i, j \in I : <<i, j>> \in SortOrder(qs, s) <=> Ahead(qs, s, i, j)
  BY <1>1, <1>2, SortOrderIs
<1>5. \A i, j \in I : Ahead(ps, s, i, j) <=> Ahead(qs, s, i, j)
  BY <1>1, <1>2 DEF Ahead
<1>6. \A i \in I : ps[i] = qs[i]
  BY <1>1, <1>2
<1>. QED
  BY <1>3, <1>4, <1>5, <1>6 DEF Agree, qs

\* The places in a list that a packet is added to.
LEMMA AppendedPlaces ==
  ASSUME NEW ps \in Seq(Packet), NEW p \in Packet, NEW run, NEW fs, NEW ts
  PROVE  LET qs == Append(ps, p)
             m == Len(ps) + 1
         IN  /\ Visible(qs, run) = IF run \in {None, RunOf[p]} THEN Visible(ps, run) \cup {m}
                                                               ELSE Visible(ps, run)
             /\ Passing(qs, run, fs, ts) =
                  IF run \in {None, RunOf[p]} /\ MatchesFilter(p, fs, ts)
                  THEN Passing(ps, run, fs, ts) \cup {m} ELSE Passing(ps, run, fs, ts)
<1>. DEFINE qs == Append(ps, p)
            m == Len(ps) + 1
<1>1. /\ DOMAIN ps = 1 .. Len(ps) /\ DOMAIN qs = (1 .. Len(ps)) \cup {m}
      /\ m \notin 1 .. Len(ps) /\ qs[m] = p /\ \A i \in 1 .. Len(ps) : qs[i] = ps[i]
  OBVIOUS
<1>. HIDE DEF qs, m
<1>2. Visible(qs, run) = IF run \in {None, RunOf[p]} THEN Visible(ps, run) \cup {m}
                                                    ELSE Visible(ps, run)
  BY <1>1 DEF Visible
<1>3. Visible(ps, run) \subseteq 1 .. Len(ps)
  BY <1>1 DEF Visible
<1>4. Passing(qs, run, fs, ts) =
        IF run \in {None, RunOf[p]} /\ MatchesFilter(p, fs, ts)
        THEN Passing(ps, run, fs, ts) \cup {m} ELSE Passing(ps, run, fs, ts)
  BY <1>1, <1>2, <1>3 DEF Passing
<1>. QED
  BY <1>2, <1>4 DEF qs, m

\* A packet that is added changes no row of the others.
LEMMA OtherRows ==
  ASSUME NEW ps \in Seq(Packet), NEW p \in Packet, NEW s \in SortType,
         NEW D \in SUBSET (1 .. Len(ps))
  PROVE  Shown(Append(ps, p), D, s) = Shown(ps, D, s)
<1>. DEFINE qs == Append(ps, p)
<1>1. IsOrder(D, SortOrder(ps, s))
  BY ShownFacts
<1>2. qs \in Seq(Packet) /\ Len(qs) = Len(ps) + 1
  OBVIOUS
<1>3. Agree(ps, SortOrder(ps, s), qs, SortOrder(qs, s), D)
  BY AppendAgrees
<1>. HIDE DEF qs
<1>4. D \subseteq 1 .. Len(qs)
  BY <1>2
<1>5. Arranged(qs, D, SortOrder(qs, s)) = Arranged(ps, D, SortOrder(ps, s))
  BY <1>1, <1>2, <1>3, <1>4, ArrangedSame
<1>. QED
  BY <1>5 DEF qs, Shown

\* The row of one that is drawn is the last of an unsorted table.
LEMMA LastRow ==
  ASSUME NEW ps \in Seq(Packet), NEW p \in Packet, NEW s \in SortType, s.key = None,
         NEW I \in SUBSET (1 .. Len(ps))
  PROVE  Shown(Append(ps, p), I \cup {Len(ps) + 1}, s) = Append(Shown(ps, I, s), p)
<1>. DEFINE qs == Append(ps, p)
            m == Len(ps) + 1
<1>1. IsOrder(I, SortOrder(ps, s))
  BY ShownFacts
<1>3. qs \in Seq(Packet) /\ Len(qs) = m /\ m \in 1 .. Len(qs) /\ qs[m] = p /\ Len(ps) \in Nat
  OBVIOUS
<1>4. Agree(ps, SortOrder(ps, s), qs, SortOrder(qs, s), I)
  BY AppendAgrees
<1>5. I \cup {m} \in SUBSET (1 .. Len(qs)) /\ I \subseteq 1 .. Len(qs)
  <2>1. \A i \in 1 .. Len(ps) : i \in 1 .. Len(qs)
    BY <1>3
  <2>. HIDE DEF m, qs
  <2>. QED
    BY <1>3, <2>1
<1>. HIDE DEF qs
<1>6. IsOrder(I \cup {m}, SortOrder(qs, s))
  BY <1>3, <1>5, SortIsOrder
<1>7. IsAfter(m, I, SortOrder(qs, s))
  <2>1. \A i \in I : i \in 1 .. Len(qs) /\ i < m /\ ~ (m < i)
    BY <1>3
  <2>2. \A i, j \in 1 .. Len(qs) : Ahead(qs, s, i, j) <=> i < j
    BY DEF Ahead, Weight
  <2>3. \A i, j \in 1 .. Len(qs) : <<i, j>> \in SortOrder(qs, s) <=> i < j
    BY <1>3, <2>2, SortOrderIs
  <2>4. m \notin I
    BY <1>3
  <2>. QED
    BY <1>3, <2>1, <2>3, <2>4 DEF IsAfter
<1>8. Grows(Packet, ps, SortOrder(ps, s), qs, SortOrder(qs, s), I, m)
  BY <1>1, <1>3, <1>4, <1>5, <1>6, <1>7 DEF Grows
<1>. HIDE DEF m
<1>9. Arranged(qs, I \cup {m}, SortOrder(qs, s))
        = Append(Arranged(ps, I, SortOrder(ps, s)), qs[m])
  BY <1>8, ArrangedMore
<1>. QED
  BY <1>3, <1>9 DEF qs, m, Shown

\* A table without a repetition has rows of packets that are to be shown, in the
\* chosen order, and if each can be drawn, of all of them.
RowType == [id : Packet, selected : BOOLEAN, scale : Nat]

ListsThose(rs, c, ps, run, fs, ts, s, bad) ==
  LET visible == {p \in Range(ps) : run \in {None, RunOf[p]}}
      matching == {p \in visible : MatchesFilter(p, fs, ts)}
      shown == {rs[n].id : n \in DOMAIN rs}
      Place(p) == CHOOSE i \in DOMAIN ps : ps[i] = p
  IN  /\ shown \subseteq matching
      /\ Len(rs) = Cardinality(shown)
      /\ \A i, j \in DOMAIN rs : i < j =>
           LET d == IF s.key = None THEN 0
                    ELSE Value[s.key][rs[i].id] - Value[s.key][rs[j].id]
           IN  \/ IF s.dir = "asc" THEN d < 0 ELSE d > 0
               \/ d = 0 /\ Place(rs[i].id) < Place(rs[j].id)
      /\ matching \cap bad = {} =>
           /\ shown = matching
           /\ c = [shown |-> Cardinality(matching), total |-> Cardinality(visible)]

LEMMA TableIsRight ==
  ASSUME NEW ps \in Seq(Packet), IsInjective(ps), NEW s \in SortType,
         NEW run, NEW fs, NEW ts, NEW rs \in Seq(RowType), NEW c, NEW bad,
         IsTable(rs, c, ps, run, fs, ts, s, bad)
  PROVE  ListsThose(rs, c, ps, run, fs, ts, s, bad)
<1>. DEFINE visible == {p \in Range(ps) : run \in {None, RunOf[p]}}
            matching == {p \in visible : MatchesFilter(p, fs, ts)}
            Place(p) == CHOOSE i \in DOMAIN ps : ps[i] = p
            d(p, q) == IF s.key = None THEN 0 ELSE Value[s.key][p] - Value[s.key][q]
            P == Passing(ps, run, fs, ts)
            V == Visible(ps, run)
            R == SortOrder(ps, s)
            shown == {rs[n].id : n \in DOMAIN rs}
<1>0. PICK I \in SUBSET Passing(ps, run, fs, ts) :
         /\ RowsOf(rs, ps, I, s)
         /\ Failing(ps, run, fs, ts, bad) = {} =>
              /\ I = Passing(ps, run, fs, ts)
              /\ c = [shown |-> Len(rs), total |-> Cardinality(Visible(ps, run))]
  BY DEF IsTable
<1>. DEFINE a == Shown(ps, I, s)
<1>1. DOMAIN ps = 1 .. Len(ps) /\ DOMAIN rs = 1 .. Len(rs)
  OBVIOUS
<1>2. V \in SUBSET (1 .. Len(ps)) /\ P \in SUBSET (1 .. Len(ps)) /\ I \in SUBSET P
      /\ I \in SUBSET (1 .. Len(ps))
  BY <1>1 DEF Passing, Visible
<1>3. visible = {ps[i] : i \in V} /\ matching = {ps[i] : i \in P}
  BY <1>1 DEF Passing, Visible, Range
<1>4. IsOrder(I, R) /\ IsArrangement(a, ps, I, R)
  BY <1>2, ShownFacts
<1>5. Len(rs) = Len(a) /\ \A n \in 1 .. Len(rs) : rs[n].id = a[n]
  BY <1>0 DEF RowsOf
<1>12. matching \cap bad = {} =>
         I = P /\ c = [shown |-> Len(rs), total |-> Cardinality(V)]
  <2>1. matching \cap bad = {} => Failing(ps, run, fs, ts, bad) = {}
    BY <1>3 DEF Failing
  <2>. QED
    BY <1>0, <2>1
<1>6. \A i, j \in 1 .. Len(ps) : <<i, j>> \in R <=> Ahead(ps, s, i, j)
  BY SortOrderIs
<1>7. \A i \in 1 .. Len(ps) : Place(ps[i]) = i
  BY <1>1 DEF IsInjective
<1>. HIDE DEF visible, matching, Place, d, P, V, R, a
<1>8. Cardinality(visible) = Cardinality(V)
  BY <1>2, <1>3, AsManyAsPlaces
<1>9. /\ IsFiniteSet(I) /\ Len(rs) = Cardinality(I)
      /\ \A i \in I : Rank(I, R, i) + 1 \in 1 .. Len(rs) /\ a[Rank(I, R, i) + 1] = ps[i]
      /\ \A n \in 1 .. Len(rs) : \E i \in I : n = Rank(I, R, i) + 1 /\ a[n] = ps[i]
  BY <1>4, <1>5 DEF IsArrangement
<1>10. shown = {ps[i] : i \in I}
  BY <1>1, <1>5, <1>9
<1>13. Len(rs) = Cardinality(shown)
  <2>. HIDE DEF shown
  <2>1. Cardinality(shown) = Cardinality(I)
    BY <1>2, <1>10, AsManyAsPlaces
  <2>. QED
    BY <1>9, <2>1
<1>14. shown \subseteq matching
  BY <1>2, <1>3, <1>10
<1>15. matching \cap bad = {} =>
         /\ shown = matching
         /\ c = [shown |-> Cardinality(matching), total |-> Cardinality(visible)]
  BY <1>3, <1>8, <1>10, <1>12, <1>13
<1>11. ASSUME NEW i \in DOMAIN rs, NEW j \in DOMAIN rs, i < j
       PROVE  \/ IF s.dir = "asc" THEN d(rs[i].id, rs[j].id) < 0
                                  ELSE d(rs[i].id, rs[j].id) > 0
              \/ d(rs[i].id, rs[j].id) = 0 /\ Place(rs[i].id) < Place(rs[j].id)
  <2>1. PICK x \in I : i = Rank(I, R, x) + 1 /\ a[i] = ps[x]
    BY <1>1, <1>9
  <2>2. PICK y \in I : j = Rank(I, R, y) + 1 /\ a[j] = ps[y]
    BY <1>1, <1>9
  <2>3. x \in 1 .. Len(ps) /\ y \in 1 .. Len(ps)
    BY <1>2
  <2>4. ps[x] \in Packet /\ ps[y] \in Packet
    BY <2>3, ElementOfSeq
  <2>5. x # y
    BY <2>1, <2>2, <1>11, <1>1
  <2>6. <<y, x>> \in R => Rank(I, R, y) < Rank(I, R, x)
    BY <1>4, <1>9, RankFacts
  <2>7. Rank(I, R, x) \in Nat /\ Rank(I, R, y) \in Nat
    BY <1>4, <1>9, RankFacts
  <2>8. <<y, x>> \notin R
    BY <2>1, <2>2, <2>6, <2>7, <1>11
  <2>9. <<x, y>> \in R
    BY <2>5, <2>8, <1>4 DEF IsOrder
  <2>10. \/ Weight(s, ps[x]) < Weight(s, ps[y])
         \/ Weight(s, ps[x]) = Weight(s, ps[y]) /\ x < y
    BY <1>6, <2>3, <2>9 DEF Ahead
  <2>11. rs[i].id = ps[x] /\ rs[j].id = ps[y] /\ Place(ps[x]) = x /\ Place(ps[y]) = y
    BY <1>1, <1>5, <1>7, <2>1, <2>2, <2>3
  <2>12. s.key # None => Value[s.key][ps[x]] \in Int /\ Value[s.key][ps[y]] \in Int
    BY <2>4, PacketTableAssumption DEF SortType
  <2>13. s.dir \in {"asc", "desc"}
    BY DEF SortType
  <2>14. \/ IF s.dir = "asc" THEN d(ps[x], ps[y]) < 0 ELSE d(ps[x], ps[y]) > 0
         \/ d(ps[x], ps[y]) = 0 /\ x < y
    <3>1. CASE s.key = None
      BY <3>1, <2>10 DEF d, Weight
    <3>2. CASE s.key # None
      <4>. DEFINE v == Value[s.key][ps[x]]
                  w == Value[s.key][ps[y]]
      <4>1. v \in Int /\ w \in Int /\ d(ps[x], ps[y]) = v - w
        BY <3>2, <2>12 DEF d
      <4>2. s.dir = "asc" => Weight(s, ps[x]) = v /\ Weight(s, ps[y]) = w
        BY <3>2 DEF Weight
      <4>3. s.dir # "asc" => Weight(s, ps[x]) = -v /\ Weight(s, ps[y]) = -w
        BY <3>2, <2>13 DEF Weight
      <4>. HIDE DEF v, w
      <4>4. CASE s.dir = "asc"
        BY <4>1, <4>2, <4>4, <2>3, <2>10
      <4>5. CASE s.dir # "asc"
        BY <4>1, <4>3, <4>5, <2>3, <2>10
      <4>. QED
        BY <4>4, <4>5
    <3>. QED
      BY <3>1, <3>2
  <2>. QED
    BY <2>11, <2>14
<1>. QED
  BY <1>11, <1>13, <1>14, <1>15 DEF visible, matching, Place, d, ListsThose

-----------------------------------------------------------------------------
(* The table *)

\* Nothing is listed twice, and no bar is longer than its cell.
ListOK ==
  /\ packets \in Seq(Packet) /\ IsInjective(packets)
  /\ selectedRunId \in Run \cup {None} /\ selectedId \in Packet \cup {None}
  /\ sort \in SortType /\ rebuildScheduled \in BOOLEAN /\ maxElapsed \in Nat
  /\ loads \in [Load -> {"idle", "asked", "emptied"}]
  /\ \A i \in 1 .. Len(packets) : Elapsed[packets[i]] <= maxElapsed

\* The rows are those of a rebuild unless one is due, they were wiped or a load
\* was cut short.
RowsDue ==
  ~rebuildScheduled /\ ~unbuilt =>
    IsTable(rows, count, packets, selectedRunId, facets, typed, sort, undrawable)

RowsOK == rows \in Seq(RowType) /\ RowsAgree /\ EmptyNoticeIsTrue /\ RowsDue

TableInv == ListOK /\ RowsOK

LEMMA Rebuilt == ListOK' /\ RebuildList => RowsOK'
<1>. SUFFICES ASSUME ListOK', RebuildList PROVE RowsOK'
  OBVIOUS
<1>. DEFINE I == Passing(packets', selectedRunId', facets', typed')
            F == Failing(packets', selectedRunId', facets', typed', undrawable')
            V == Visible(packets', selectedRunId')
            D == {i \in I : \A j \in F : <<i, j>> \in SortOrder(packets', sort')}
            a == Shown(packets', D, sort')
<1>1. /\ packets' \in Seq(Packet) /\ selectedId' \in Packet \cup {None}
      /\ sort' \in SortType /\ maxElapsed' \in Nat
      /\ \A i \in 1 .. Len(packets') : Elapsed[packets'[i]] <= maxElapsed'
  BY DEF ListOK
<1>2. I \in SUBSET (1 .. Len(packets')) /\ D \in SUBSET I /\ (F = {} => D = I)
  BY <1>1, PassingPlaces
<1>3. /\ rows' = [n \in DOMAIN a |-> Row(a[n], selectedId', maxElapsed')]
      /\ F = {} => count' = [shown |-> Len(a), total |-> Cardinality(V)]
      /\ emptyRow' = (I = {} /\ V # {})
      /\ unbuilt' = FALSE
  BY DEF RebuildList, RebuildThrows, Shown
<1>4. V # {} => packets' # <<>>
  BY DEF Visible
<1>11. \A i \in D : packets'[i] \notin undrawable'
  <2>. SUFFICES ASSUME NEW i \in D, packets'[i] \in undrawable' PROVE FALSE
    OBVIOUS
  <2>1. i \in F
    BY DEF Failing
  <2>2. <<i, i>> \in SortOrder(packets', sort')
    BY <2>1
  <2>3. i \in 1 .. Len(packets')
    BY <1>2
  <2>4. Ahead(packets', sort', i, i)
    BY <1>1, <2>2, <2>3, SortOrderIs
  <2>5. Weight(sort', packets'[i]) \in Int
    BY <1>1, <2>3, ElementOfSeq, WeightType
  <2>. QED
    BY <2>3, <2>4, <2>5 DEF Ahead
<1>. HIDE DEF I, F, V, D
<1>12. a \in Seq(Packet) /\ IsArrangement(a, packets', D, SortOrder(packets', sort'))
  BY <1>1, <1>2, ShownFacts
<1>. HIDE DEF a
<1>5. /\ IsFiniteSet(D) /\ Len(a) = Cardinality(D)
      /\ \A n \in 1 .. Len(a) : \E i \in D : a[n] = packets'[i]
  BY <1>12 DEF IsArrangement
<1>6. DOMAIN a = 1 .. Len(a) /\ Len(a) \in Nat /\ \A n \in 1 .. Len(a) : a[n] \in Packet
  BY <1>12
<1>7. /\ rows' \in Seq(RowType) /\ Len(rows') = Len(a)
      /\ \A n \in 1 .. Len(a) : rows'[n] = Row(a[n], selectedId', maxElapsed')
  <2>1. \A n \in 1 .. Len(a) : Row(a[n], selectedId', maxElapsed') \in RowType
    BY <1>1, <1>6 DEF Row, RowType
  <2>. HIDE DEF RowType
  <2>. QED
    BY <1>3, <1>6, <2>1
<1>8. RowsAgree'
  <2>. SUFFICES ASSUME NEW n \in DOMAIN rows'
                PROVE  /\ rows'[n].selected = (rows'[n].id = selectedId')
                       /\ rows'[n].scale = maxElapsed'
                       /\ Elapsed[rows'[n].id] <= maxElapsed'
                       /\ rows'[n].id \notin undrawable'
    BY DEF RowsAgree
  <2>1. n \in 1 .. Len(a) /\ rows'[n] = Row(a[n], selectedId', maxElapsed')
    BY <1>7
  <2>2. PICK i \in D : a[n] = packets'[i]
    BY <1>5, <2>1
  <2>3. Elapsed[a[n]] <= maxElapsed' /\ a[n] \notin undrawable'
    BY <1>1, <1>2, <1>11, <2>2
  <2>. QED
    BY <2>1, <2>3 DEF Row
<1>9. EmptyNoticeIsTrue'
  <2>1. emptyRow' => I = {} /\ V # {}
    BY <1>3
  <2>2. I = {} => Len(a) = 0
    BY <1>2, <1>5, FS_EmptySet
  <2>3. Len(a) = 0 => rows' = <<>>
    BY <1>7
  <2>. QED
    BY <1>4, <2>1, <2>2, <2>3 DEF EmptyNoticeIsTrue
<1>10. RowsDue'
  <2>0. \A p : Row(p, selectedId', maxElapsed').id = p
    BY Zenon DEF Row
  <2>4. \A n \in 1 .. Len(rows') : rows'[n].id = a[n]
    BY <1>7, <2>0
  <2>1. RowsOf(rows', packets', D, sort')
    BY <1>7, <2>4 DEF RowsOf, a
  <2>2. F = {} => D = I /\ count' = [shown |-> Len(rows'), total |-> Cardinality(V)]
    BY <1>2, <1>3, <1>7
  <2>3. IsTable(rows', count', packets', selectedRunId', facets', typed', sort', undrawable')
    BY <1>2, <2>1, <2>2 DEF IsTable, I, F, V
  <2>. QED
    BY <2>3 DEF RowsDue
<1>. QED
  BY <1>7, <1>8, <1>9, <1>10 DEF RowsOK

\* Rescaling changes nothing else of a row.
LEMMA RescaledRows ==
  ASSUME rows \in Seq(RowType), NEW k \in Nat
  PROVE  /\ Rescaled(k) \in Seq(RowType) /\ Len(Rescaled(k)) = Len(rows)
         /\ \A n \in 1 .. Len(rows) :
              /\ rows[n].id \in Packet /\ Rescaled(k)[n].id = rows[n].id
              /\ Rescaled(k)[n].selected = rows[n].selected /\ Rescaled(k)[n].scale = k
<1>. DEFINE new(n) == [rows[n] EXCEPT !.scale = k]
<1>1. DOMAIN rows = 1 .. Len(rows) /\ Len(rows) \in Nat
  OBVIOUS
<1>2. \A n \in 1 .. Len(rows) : rows[n] \in RowType
  BY ElementOfSeq
<1>3. \A n \in 1 .. Len(rows) :
        /\ new(n) \in RowType /\ rows[n].id \in Packet /\ new(n).id = rows[n].id
        /\ new(n).selected = rows[n].selected /\ new(n).scale = k
  BY <1>2 DEF RowType
<1>4. Rescaled(k) = [n \in 1 .. Len(rows) |-> new(n)]
  BY <1>1 DEF Rescaled
<1>. HIDE DEF new, RowType
<1>5. Rescaled(k) \in Seq(RowType) /\ Len(Rescaled(k)) = Len(rows)
  BY <1>1, <1>3, <1>4
<1>6. \A n \in 1 .. Len(rows) : Rescaled(k)[n] = new(n)
  BY <1>4
<1>. QED
  BY <1>3, <1>5, <1>6

\* A packet that arrives in the list.
LEMMA LiveKeepsList == ASSUME ListOK, NEW p \in Packet, Live(p) PROVE ListOK'
<1>1. /\ p \notin Range(packets) /\ packets' = Append(packets, p)
      /\ maxElapsed' = IF Elapsed[p] > maxElapsed THEN Elapsed[p] ELSE maxElapsed
      /\ UNCHANGED <<selectedRunId, selectedId, sort, loads>>
      /\ rebuildScheduled' \in {TRUE, rebuildScheduled}
  BY DEF Live, AddPacket
<1>2. /\ packets \in Seq(Packet) /\ IsInjective(packets) /\ maxElapsed \in Nat
      /\ \A i \in 1 .. Len(packets) : Elapsed[packets[i]] <= maxElapsed
  BY DEF ListOK
<1>3. /\ packets' \in Seq(Packet) /\ DOMAIN packets' = (1 .. Len(packets)) \cup {Len(packets) + 1}
      /\ Len(packets') = Len(packets) + 1 /\ Len(packets) \in Nat
      /\ packets'[Len(packets) + 1] = p
      /\ \A i \in 1 .. Len(packets) : packets'[i] = packets[i] /\ packets[i] \in Packet
  BY <1>1, <1>2
<1>4. IsInjective(packets')
  <2>1. \A i \in 1 .. Len(packets) : packets[i] # p
    BY <1>1, <1>2 DEF Range
  <2>2. DOMAIN packets = 1 .. Len(packets)
    BY <1>2
  <2>. QED
    BY <1>2, <1>3, <2>1, <2>2 DEF IsInjective
<1>5. \A q \in Packet : Elapsed[q] \in Nat
  BY PacketTableAssumption
<1>6. maxElapsed' \in Nat /\ maxElapsed <= maxElapsed' /\ Elapsed[p] <= maxElapsed'
  BY <1>1, <1>2, <1>5
<1>7. \A i \in 1 .. Len(packets') : Elapsed[packets'[i]] <= maxElapsed'
  <2>. SUFFICES ASSUME NEW i \in 1 .. Len(packets') PROVE Elapsed[packets'[i]] <= maxElapsed'
    OBVIOUS
  <2>1. CASE i = Len(packets) + 1
    BY <1>3, <1>6, <2>1
  <2>2. CASE i \in 1 .. Len(packets)
    BY <1>2, <1>3, <1>5, <1>6, <2>2
  <2>. QED
    BY <1>3, <2>1, <2>2
<1>. QED
  BY <1>1, <1>3, <1>4, <1>6, <1>7 DEF ListOK

LEMMA LiveKeepsRows == ASSUME TableInv, NEW p \in Packet, Live(p) PROVE RowsOK'
<1>. DEFINE k == maxElapsed'
            old == Rescaled(k)
            m == Len(packets) + 1
            other == selectedRunId \notin {None, RunOf[p]}
            passes == MatchesFilter(p, facets, typed)
            P == Passing(packets, selectedRunId, facets, typed)
            Q == Passing(packets', selectedRunId, facets, typed)
            F == Failing(packets, selectedRunId, facets, typed, undrawable)
            G == Failing(packets', selectedRunId, facets, typed, undrawable)
            total == Cardinality(Visible(packets', selectedRunId))
<1>1. /\ packets' = Append(packets, p)
      /\ k = IF Elapsed[p] > maxElapsed THEN Elapsed[p] ELSE maxElapsed
      /\ UNCHANGED <<selectedRunId, selectedId, sort, facets, typed, undrawable, unbuilt>>
  BY DEF Live, AddPacket, filterVars, controlVars
<1>2. /\ packets \in Seq(Packet) /\ sort \in SortType /\ maxElapsed \in Nat
      /\ rows \in Seq(RowType) /\ RowsAgree /\ EmptyNoticeIsTrue /\ RowsDue
  BY DEF TableInv, ListOK, RowsOK
<1>3. /\ other => /\ rows' = old /\ UNCHANGED <<emptyRow, rebuildScheduled>>
                  /\ count' = [shown |-> Cardinality(Q), total |-> total]
      /\ ~other /\ sort.key # None =>
           rebuildScheduled' = TRUE /\ rows' = old /\ UNCHANGED emptyRow
      /\ ~other /\ sort.key = None /\ passes /\ p \in undrawable =>
           rows' = old /\ emptyRow' = FALSE /\ UNCHANGED <<count, rebuildScheduled>>
      /\ ~other /\ sort.key = None /\ ~passes =>
           /\ rows' = old /\ (emptyRow' => emptyRow) /\ UNCHANGED rebuildScheduled
           /\ count' = [shown |-> Len(rows'), total |-> total]
      /\ ~other /\ sort.key = None /\ passes /\ p \notin undrawable =>
           /\ rows' = Append(old, Row(p, selectedId, k)) /\ emptyRow' = FALSE
           /\ count' = [shown |-> Len(rows'), total |-> total]
           /\ UNCHANGED rebuildScheduled
  <2>1. AddPacket(p)
    BY DEF Live
  <2>2. Appends(p) <=> ~other /\ sort.key = None /\ passes
    BY DEF Appends
  <2>3. CASE other
    BY <1>1, <2>1, <2>3 DEF AddPacket
  <2>4. CASE ~other /\ sort.key # None
    BY <1>1, <2>1, <2>4 DEF AddPacket
  <2>5. CASE ~other /\ sort.key = None /\ passes /\ p \in undrawable
    BY <1>1, <2>1, <2>2, <2>5 DEF AddPacket
  <2>6. CASE ~other /\ sort.key = None /\ ~passes
    BY <1>1, <2>1, <2>2, <2>6 DEF AddPacket
  <2>7. CASE ~other /\ sort.key = None /\ passes /\ p \notin undrawable
    BY <1>1, <2>1, <2>2, <2>7 DEF AddPacket
  <2>. QED
    BY <2>3, <2>4, <2>5, <2>6, <2>7
<1>4. k \in Nat /\ maxElapsed <= k /\ Elapsed[p] <= k /\ \A q \in Packet : Elapsed[q] \in Nat
  BY <1>1, <1>2, PacketTableAssumption
<1>5. /\ old \in Seq(RowType) /\ Len(old) = Len(rows)
      /\ \A n \in 1 .. Len(rows) : /\ rows[n].id \in Packet /\ old[n].id = rows[n].id
                                   /\ old[n].selected = rows[n].selected /\ old[n].scale = k
  BY <1>2, <1>4, RescaledRows
<1>6. \A n \in 1 .. Len(old) :
        /\ old[n].selected = (old[n].id = selectedId) /\ old[n].scale = k
        /\ Elapsed[old[n].id] <= k /\ old[n].id \notin undrawable
  <2>. SUFFICES ASSUME NEW n \in 1 .. Len(old)
                PROVE  /\ old[n].selected = (old[n].id = selectedId) /\ old[n].scale = k
                       /\ Elapsed[old[n].id] <= k /\ old[n].id \notin undrawable
    OBVIOUS
  <2>1. n \in 1 .. Len(rows) /\ n \in DOMAIN rows
    BY <1>2, <1>5
  <2>2. /\ rows[n].selected = (rows[n].id = selectedId) /\ Elapsed[rows[n].id] <= maxElapsed
        /\ rows[n].id \notin undrawable
    BY <1>2, <2>1 DEF RowsAgree
  <2>3. /\ rows[n].id \in Packet /\ old[n].id = rows[n].id
        /\ old[n].selected = rows[n].selected /\ old[n].scale = k
    BY <1>5, <2>1
  <2>4. Elapsed[rows[n].id] <= k
    BY <1>2, <1>4, <2>2, <2>3
  <2>. HIDE DEF k
  <2>. QED
    BY <2>2, <2>3, <2>4, Zenon
<1>7. ~rebuildScheduled /\ ~unbuilt =>
        IsTable(rows, count, packets, selectedRunId, facets, typed, sort, undrawable)
  BY <1>2 DEF RowsDue
<1>11. /\ P \in SUBSET (1 .. Len(packets)) /\ m \notin P
       /\ Q = IF ~other /\ passes THEN P \cup {m} ELSE P
       /\ G = IF ~other /\ passes /\ p \in undrawable THEN F \cup {m} ELSE F
  <2>1. P \in SUBSET (1 .. Len(packets)) /\ Len(packets) \in Nat
    BY <1>2, PassingPlaces
  <2>2. Q = IF ~other /\ passes THEN P \cup {m} ELSE P
    BY <1>1, <1>2, AppendedPlaces
  <2>3. packets'[m] = p /\ \A i \in 1 .. Len(packets) : packets'[i] = packets[i]
    BY <1>1, <1>2
  <2>4. F = {i \in P : packets[i] \in undrawable} /\ G = {i \in Q : packets'[i] \in undrawable}
    BY DEF Failing
  <2>. HIDE DEF P, Q, F, G, other, passes
  <2>5. m \notin P
    BY <2>1
  <2>. HIDE DEF m
  <2>. QED
    BY <2>1, <2>2, <2>3, <2>4, <2>5
<1>. HIDE DEF k, old, other, passes
<1>8. CASE rows' = old /\ (emptyRow' => emptyRow)
  <2>1. rows' \in Seq(RowType) /\ RowsAgree'
    BY <1>1, <1>5, <1>6, <1>8 DEF RowsAgree, k
  <2>2. EmptyNoticeIsTrue'
    <3>1. rows = <<>> => rows' = <<>>
      BY <1>5, <1>8
    <3>2. packets' # <<>>
      BY <1>1, <1>2
    <3>. QED
      BY <1>2, <1>8, <3>1, <3>2 DEF EmptyNoticeIsTrue
  <2>3. CASE ~other /\ sort.key # None
    BY <1>3, <2>1, <2>2, <2>3 DEF RowsOK, RowsDue
  <2>4. ASSUME UNCHANGED rebuildScheduled,
               Q = P => count' \in {[shown |-> Len(rows'), total |-> total],
                                    [shown |-> Cardinality(Q), total |-> total]},
               Q # P => G # {}
        PROVE  RowsDue'
    <3>. SUFFICES ASSUME ~rebuildScheduled, ~unbuilt
                  PROVE  IsTable(rows', count', packets', selectedRunId, facets, typed, sort,
                                 undrawable)
      BY <1>1, <2>4 DEF RowsDue
    <3>1. PICK D \in SUBSET Passing(packets, selectedRunId, facets, typed) :
            /\ RowsOf(rows, packets, D, sort)
            /\ Failing(packets, selectedRunId, facets, typed, undrawable) = {} =>
                 D = Passing(packets, selectedRunId, facets, typed)
      BY <1>7 DEF IsTable
    <3>2. Shown(packets', D, sort) = Shown(packets, D, sort)
      BY <1>1, <1>2, <1>11, OtherRows
    <3>3. Len(Shown(packets, D, sort)) = Cardinality(D)
      BY <1>2, <1>11, ShownFacts DEF IsArrangement
    <3>4. RowsOf(rows', packets', D, sort) /\ Len(rows') = Cardinality(D)
      BY <1>5, <1>8, <3>1, <3>2, <3>3 DEF RowsOf
    <3>5. G = {} => D = Q /\ count' = [shown |-> Len(rows'), total |-> total]
      <4>. HIDE DEF total
      <4>. QED
        BY <1>11, <2>4, <3>1, <3>4
    <3>6. D \in SUBSET Q
      BY <1>11
    <3>. QED
      BY <3>4, <3>5, <3>6 DEF IsTable
  <2>5. CASE other
    <3>1. RowsDue'
      BY <1>3, <1>11, <2>4, <2>5
    <3>. QED
      BY <2>1, <2>2, <3>1 DEF RowsOK
  <2>6. CASE ~other /\ sort.key = None /\ ~passes
    <3>1. RowsDue'
      BY <1>3, <1>11, <2>4, <2>6
    <3>. QED
      BY <2>1, <2>2, <3>1 DEF RowsOK
  <2>7. CASE ~other /\ sort.key = None /\ passes /\ p \in undrawable
    <3>1. RowsDue'
      BY <1>3, <1>11, <2>4, <2>7
    <3>. QED
      BY <2>1, <2>2, <3>1 DEF RowsOK
  <2>8. CASE ~other /\ sort.key = None /\ passes /\ p \notin undrawable
    <3>1. rows' = Append(old, Row(p, selectedId, k))
      BY <1>3, <2>8
    <3>2. Len(rows') = Len(old) + 1
      BY <1>5, <3>1
    <3>. QED
      BY <1>5, <1>8, <3>2
  <2>. QED
    BY <2>3, <2>5, <2>6, <2>7, <2>8
<1>9. CASE ~other /\ sort.key = None /\ passes /\ p \notin undrawable
  <2>1. rows' = Append(old, Row(p, selectedId, k)) /\ emptyRow' = FALSE
    BY <1>3, <1>9
  <2>2. Row(p, selectedId, k) \in RowType
    BY <1>4 DEF Row, RowType
  <2>3. /\ rows' \in Seq(RowType) /\ Len(rows') = Len(rows) + 1 /\ Len(rows) \in Nat
        /\ DOMAIN rows' = (1 .. Len(rows)) \cup {Len(rows) + 1}
        /\ \A n \in 1 .. Len(rows) : rows'[n] = old[n]
        /\ rows'[Len(rows) + 1] = Row(p, selectedId, k)
    BY <1>5, <2>1, <2>2
  <2>4. RowsAgree'
    <3>1. /\ Row(p, selectedId, k).selected = (Row(p, selectedId, k).id = selectedId)
          /\ Row(p, selectedId, k).scale = k /\ Row(p, selectedId, k).id = p
      BY Zenon DEF Row
    <3>. SUFFICES ASSUME NEW n \in DOMAIN rows'
                  PROVE  /\ rows'[n].selected = (rows'[n].id = selectedId)
                         /\ rows'[n].scale = k /\ Elapsed[rows'[n].id] <= k
                         /\ rows'[n].id \notin undrawable
      BY <1>1 DEF RowsAgree, k
    <3>2. CASE n \in 1 .. Len(rows)
      BY <1>5, <1>6, <2>3, <3>2
    <3>3. CASE n = Len(rows) + 1
      BY <1>4, <1>9, <2>3, <3>1, <3>3
    <3>. QED
      BY <2>3, <3>2, <3>3
  <2>5. EmptyNoticeIsTrue'
    BY <2>1 DEF EmptyNoticeIsTrue
  <2>6. RowsDue'
    <3>. SUFFICES ASSUME ~rebuildScheduled, ~unbuilt
                  PROVE  IsTable(rows', count', packets', selectedRunId, facets, typed, sort,
                                 undrawable)
      BY <1>1, <1>3, <1>9 DEF RowsDue
    <3>1. PICK D \in SUBSET Passing(packets, selectedRunId, facets, typed) :
            /\ RowsOf(rows, packets, D, sort)
            /\ Failing(packets, selectedRunId, facets, typed, undrawable) = {} =>
                 D = Passing(packets, selectedRunId, facets, typed)
      BY <1>7 DEF IsTable
    <3>. DEFINE a == Shown(packets, D, sort)
                b == Shown(packets', D \cup {m}, sort)
    <3>2. a \in Seq(Packet) /\ b = Append(a, p)
      BY <1>1, <1>2, <1>9, <1>11, ShownFacts, LastRow
    <3>3. Len(rows) = Len(a) /\ \A n \in 1 .. Len(rows) : rows[n].id = a[n]
      BY <3>1 DEF RowsOf
    <3>. HIDE DEF a, b
    <3>4. /\ Len(b) = Len(rows) + 1 /\ b[Len(rows) + 1] = p
          /\ \A n \in 1 .. Len(rows) : b[n] = a[n]
      BY <3>2, <3>3
    <3>5. \A n \in 1 .. Len(rows') : n \in 1 .. Len(rows) \/ n = Len(rows) + 1
      BY <2>3
    <3>6. \A n \in 1 .. Len(rows) : rows'[n].id = b[n]
      BY <1>5, <2>3, <3>3, <3>4
    <3>7. rows'[Len(rows) + 1].id = b[Len(rows) + 1]
      BY <2>3, <3>4 DEF Row
    <3>8. RowsOf(rows', packets', D \cup {m}, sort)
      BY <2>3, <3>4, <3>5, <3>6, <3>7 DEF RowsOf, b
    <3>9. D \cup {m} \in SUBSET Q
      BY <1>9, <1>11
    <3>10. G = {} => D \cup {m} = Q /\ count' = [shown |-> Len(rows'), total |-> total]
      <4>. HIDE DEF total
      <4>. QED
        BY <1>3, <1>9, <1>11, <3>1
    <3>. QED
      BY <3>8, <3>9, <3>10 DEF IsTable
  <2>. QED
    BY <2>3, <2>4, <2>5, <2>6 DEF RowsOK
<1>10. CASE ~(~other /\ sort.key = None /\ passes /\ p \notin undrawable)
  BY <1>3, <1>8, <1>10
<1>. QED
  BY <1>9, <1>10

\* Lists that have nothing in common repeat nothing when joined.
LEMMA Joined ==
  ASSUME NEW T, NEW s \in Seq(T), NEW t \in Seq(T)
  PROVE  /\ s \o t \in Seq(T) /\ Range(s \o t) = Range(s) \cup Range(t)
         /\ IsInjective(s) /\ IsInjective(t) /\ Range(s) \cap Range(t) = {}
              => IsInjective(s \o t)
<1>. DEFINE k == Len(s)
            n == Len(t)
<1>1. /\ s \o t \in Seq(T) /\ k \in Nat /\ n \in Nat
      /\ DOMAIN s = 1 .. k /\ DOMAIN t = 1 .. n /\ DOMAIN (s \o t) = 1 .. k + n
      /\ \A i \in 1 .. k : (s \o t)[i] = s[i]
      /\ \A i \in k + 1 .. k + n : (s \o t)[i] = t[i - k]
  OBVIOUS
<1>. HIDE DEF k, n
<1>2. \A i \in 1 .. k + n : i \in 1 .. k \/ (i \in k + 1 .. k + n /\ i - k \in 1 .. n)
  BY <1>1
<1>3. Range(s \o t) \subseteq Range(s) \cup Range(t)
  BY <1>1, <1>2 DEF Range
<1>4. Range(s) \subseteq Range(s \o t)
  <2>1. \A i \in 1 .. k : i \in 1 .. k + n
    BY <1>1
  <2>. QED
    BY <1>1, <2>1 DEF Range
<1>5. Range(t) \subseteq Range(s \o t)
  <2>1. \A i \in 1 .. n : i + k \in k + 1 .. k + n /\ i + k \in 1 .. k + n /\ (i + k) - k = i
    BY <1>1
  <2>2. \A i \in 1 .. n : (s \o t)[i + k] = t[i]
    BY <1>1, <2>1
  <2>. SUFFICES ASSUME NEW i \in 1 .. n PROVE t[i] \in Range(s \o t)
    BY <1>1 DEF Range
  <2>. QED
    BY <1>1, <2>1, <2>2 DEF Range
<1>6. ASSUME IsInjective(s), IsInjective(t), Range(s) \cap Range(t) = {}
      PROVE  IsInjective(s \o t)
  <2>. SUFFICES ASSUME NEW i \in 1 .. k + n, NEW j \in 1 .. k + n, (s \o t)[i] = (s \o t)[j]
                PROVE  i = j
    BY <1>1 DEF IsInjective
  <2>1. CASE i \in 1 .. k /\ j \in 1 .. k
    BY <1>1, <1>6, <2>1 DEF IsInjective
  <2>2. CASE i \in k + 1 .. k + n /\ j \in k + 1 .. k + n
    <3>1. i - k \in 1 .. n /\ j - k \in 1 .. n /\ t[i - k] = t[j - k]
      BY <1>1, <2>2
    <3>2. i - k = j - k
      BY <1>1, <1>6, <3>1 DEF IsInjective
    <3>. QED
      BY <1>1, <3>2
  <2>3. \A a \in 1 .. k, b \in k + 1 .. k + n : (s \o t)[a] # (s \o t)[b]
    <3>. SUFFICES ASSUME NEW a \in 1 .. k, NEW b \in k + 1 .. k + n
                  PROVE  (s \o t)[a] # (s \o t)[b]
      OBVIOUS
    <3>1. b - k \in 1 .. n
      BY <1>1
    <3>2. (s \o t)[a] \in Range(s) /\ (s \o t)[b] \in Range(t)
      BY <1>1, <3>1 DEF Range
    <3>. QED
      BY <1>6, <3>2
  <2>. QED
    BY <1>2, <2>1, <2>2, <2>3
<1>. QED
  BY <1>1, <1>3, <1>4, <1>5, <1>6

\* The scale grows to the longest of the packets that were added.
LEMMA LongestIs ==
  ASSUME NEW ps \in Seq(Packet), NEW k \in Nat
  PROVE  LET longest == Max({k} \cup {Elapsed[p] : p \in Range(ps)})
         IN  longest \in Nat /\ longest >= k /\ \A p \in Range(ps) : longest >= Elapsed[p]
<1>. DEFINE S == {Elapsed[p] : p \in Range(ps)}
            f == [i \in 1 .. Len(ps) |-> Elapsed[ps[i]]]
<1>1. S \subseteq Nat
  BY PacketTableAssumption DEF Range
<1>2. IsFiniteSet(S)
  <2>1. f \in Surjection(1 .. Len(ps), S)
    BY DEF Surjection, Range
  <2>2. IsFiniteSet(1 .. Len(ps))
    BY FS_Interval
  <2>. HIDE DEF S, f
  <2>. QED
    BY <2>1, <2>2, FS_Surjection
<1>3. \A p \in Range(ps) : Elapsed[p] \in S
  OBVIOUS
<1>. HIDE DEF S
<1>4. IsFiniteSet({k} \cup S) /\ {k} \cup S \in SUBSET Int /\ {k} \cup S # {}
  <2>1. IsFiniteSet({k})
    BY FS_Singleton
  <2>2. IsFiniteSet({k} \cup S)
    BY <1>2, <2>1, FS_Union
  <2>. QED
    BY <1>1, <2>2
<1>5. Max({k} \cup S) \in {k} \cup S /\ \A y \in {k} \cup S : Max({k} \cup S) >= y
  BY <1>4, MaxIs
<1>. QED
  BY <1>1, <1>3, <1>5 DEF S

\* The scale is that of the listed packets and the added ones.
LEMMA AllWithinScale ==
  ASSUME packets \in Seq(Packet), packets' \in Seq(Packet), maxElapsed \in Nat,
         maxElapsed' \in Nat, maxElapsed' >= maxElapsed,
         \A i \in 1 .. Len(packets) : Elapsed[packets[i]] <= maxElapsed,
         NEW A, Range(packets') = Range(packets) \cup A,
         \A p \in A : maxElapsed' >= Elapsed[p]
  PROVE  \A i \in 1 .. Len(packets') : Elapsed[packets'[i]] <= maxElapsed'
<1>. SUFFICES ASSUME NEW i \in 1 .. Len(packets') PROVE Elapsed[packets'[i]] <= maxElapsed'
  OBVIOUS
<1>1. packets'[i] \in Range(packets) \/ packets'[i] \in A
  <2>1. DOMAIN packets' = 1 .. Len(packets')
    OBVIOUS
  <2>2. packets'[i] \in Range(packets')
    BY <2>1 DEF Range
  <2>. QED
    BY <2>2
<1>2. packets'[i] \in Packet /\ Elapsed[packets'[i]] \in Nat
  BY ElementOfSeq, PacketTableAssumption
<1>3. \A q \in Range(packets) : Elapsed[q] <= maxElapsed
  BY DEF Range
<1>. QED
  BY <1>1, <1>2, <1>3

\* A load brings each packet that is not listed once.
LEMMA LoadKeepsList ==
  ASSUME ListOK, NEW l \in Load, NEW recent \in Answers, LoadFills(l, recent)
  PROVE  ListOK'
<1>. DEFINE new == Only(recent, Packet \ Range(packets))
<1>1. /\ packets' = packets \o new
      /\ maxElapsed' = Max({maxElapsed} \cup {Elapsed[p] : p \in Range(new)})
      /\ loads' = [loads EXCEPT ![l] = "idle"]
      /\ rebuildScheduled' = (rebuildScheduled \/
           (sort.key # None /\ \E p \in Range(new) : selectedRunId \in {None, RunOf[p]}))
      /\ UNCHANGED <<selectedRunId, selectedId, sort>>
  BY DEF LoadFills
<1>2. /\ packets \in Seq(Packet) /\ IsInjective(packets) /\ maxElapsed \in Nat
      /\ \A i \in 1 .. Len(packets) : Elapsed[packets[i]] <= maxElapsed
  BY DEF ListOK
<1>3. recent \in Seq(Packet) /\ IsInjective(recent)
  <2>1. PICK S \in SUBSET Range(Arrival) : recent = Only(Arrival, S)
    BY DEF Answers
  <2>. QED
    BY <2>1, OnlyFacts, PacketTableAssumption
<1>4. /\ new \in Seq(Packet) /\ IsInjective(new)
      /\ Range(new) = Range(recent) \cap (Packet \ Range(packets))
  BY <1>3, OnlyFacts
<1>. HIDE DEF new
<1>5. /\ packets' \in Seq(Packet) /\ IsInjective(packets')
      /\ Range(packets') = Range(packets) \cup Range(new)
  <2>1. Range(packets) \cap Range(new) = {}
    BY <1>4
  <2>. QED
    BY <1>1, <1>2, <1>4, <2>1, Joined
<1>6. /\ maxElapsed' \in Nat /\ maxElapsed' >= maxElapsed
      /\ \A p \in Range(new) : maxElapsed' >= Elapsed[p]
  BY <1>1, <1>2, <1>4, LongestIs
<1>7. \A i \in 1 .. Len(packets') : Elapsed[packets'[i]] <= maxElapsed'
  BY <1>2, <1>5, <1>6, AllWithinScale
<1>8. loads' \in [Load -> {"idle", "asked", "emptied"}]
  BY <1>1 DEF ListOK
<1>9. rebuildScheduled' \in BOOLEAN
  BY <1>1, Zenon
<1>. QED
  BY <1>1, <1>5, <1>6, <1>7, <1>8, <1>9 DEF ListOK

\* A list of which the end is left out.
LEMMA BeginningOf ==
  ASSUME NEW T, NEW s \in Seq(T), NEW k \in 0 .. Len(s)
  PROVE  /\ SubSeq(s, 1, k) \in Seq(T) /\ Len(SubSeq(s, 1, k)) = k
         /\ \A i \in 1 .. k : SubSeq(s, 1, k)[i] = s[i]
         /\ Range(SubSeq(s, 1, k)) \subseteq Range(s)
         /\ IsInjective(s) => IsInjective(SubSeq(s, 1, k))
<1>. DEFINE b == SubSeq(s, 1, k)
<1>1. b \in Seq(T) /\ Len(b) = k /\ \A i \in 1 .. k : b[i] = s[i]
  OBVIOUS
<1>2. DOMAIN b = 1 .. k /\ DOMAIN s = 1 .. Len(s) /\ \A i \in 1 .. k : i \in 1 .. Len(s)
  BY <1>1
<1>. HIDE DEF b
<1>3. Range(b) \subseteq Range(s) /\ (IsInjective(s) => IsInjective(b))
  BY <1>1, <1>2 DEF Range, IsInjective
<1>. QED
  BY <1>1, <1>3 DEF b

\* A load that is cut short: the packets before the one whose row cannot be
\* drawn, and that one, are listed.
LEMMA StopGrowsList ==
  ASSUME ListOK, NEW l \in Load, NEW recent \in Answers, LoadStops(l, recent)
  PROVE  ListOK' /\ maxElapsed <= maxElapsed'
<1>. DEFINE new == Only(recent, Packet \ Range(packets))
<1>1. PICK k \in DOMAIN new :
        /\ k \in DOMAIN new /\ packets' = packets \o SubSeq(new, 1, k)
        /\ maxElapsed' = Max({maxElapsed} \cup {Elapsed[new[n]] : n \in 1 .. k})
  BY DEF LoadStops
<1>2. /\ packets \in Seq(Packet) /\ IsInjective(packets) /\ maxElapsed \in Nat
      /\ \A i \in 1 .. Len(packets) : Elapsed[packets[i]] <= maxElapsed
  BY DEF ListOK
<1>3. recent \in Seq(Packet) /\ IsInjective(recent)
  <2>1. PICK S \in SUBSET Range(Arrival) : recent = Only(Arrival, S)
    BY DEF Answers
  <2>. QED
    BY <2>1, OnlyFacts, PacketTableAssumption
<1>4. /\ new \in Seq(Packet) /\ IsInjective(new)
      /\ Range(new) = Range(recent) \cap (Packet \ Range(packets))
  BY <1>3, OnlyFacts
<1>. DEFINE added == SubSeq(new, 1, k)
<1>. HIDE DEF new
<1>5. k \in 1 .. Len(new) /\ k \in 0 .. Len(new) /\ Len(new) \in Nat
  BY <1>1, <1>4
<1>6. /\ added \in Seq(Packet) /\ Len(added) = k /\ \A i \in 1 .. k : added[i] = new[i]
      /\ Range(added) \subseteq Range(new) /\ IsInjective(added)
  BY <1>4, <1>5, BeginningOf
<1>7. packets' = packets \o added
  BY <1>1
<1>8. {Elapsed[new[n]] : n \in 1 .. k} = {Elapsed[p] : p \in Range(added)}
  <2>1. Range(added) = {added[n] : n \in 1 .. k}
    BY <1>6 DEF Range
  <2>. HIDE DEF added
  <2>. QED
    BY <1>6, <2>1
<1>. HIDE DEF added
<1>9. /\ packets' \in Seq(Packet) /\ IsInjective(packets')
      /\ Range(packets') = Range(packets) \cup Range(added)
  <2>1. Range(packets) \cap Range(added) = {}
    BY <1>4, <1>6
  <2>. QED
    BY <1>2, <1>6, <1>7, <2>1, Joined
<1>10. /\ maxElapsed' \in Nat /\ maxElapsed' >= maxElapsed
       /\ \A p \in Range(added) : maxElapsed' >= Elapsed[p]
  BY <1>1, <1>2, <1>6, <1>8, LongestIs
<1>11. \A i \in 1 .. Len(packets') : Elapsed[packets'[i]] <= maxElapsed'
  BY <1>2, <1>9, <1>10, AllWithinScale
<1>12. loads' \in [Load -> {"idle", "asked", "emptied"}]
  BY DEF ListOK, LoadStops
<1>. QED
  BY <1>2, <1>9, <1>10, <1>11, <1>12 DEF ListOK, LoadStops

\* A step that changes neither the list nor what the table is built from.
LEMMA TableKept ==
  TableInv /\ UNCHANGED <<packets, selectedRunId, selectedId, facets, typed, undrawable, sort,
                          rebuildScheduled, maxElapsed, rowVars, loads>>
    => TableInv'
BY DEF TableInv, ListOK, RowsOK, RowsAgree, EmptyNoticeIsTrue, RowsDue, rowVars

LEMMA ListKept ==
  ListOK /\ sort' \in SortType /\ rebuildScheduled' \in BOOLEAN
    /\ UNCHANGED <<packets, selectedRunId, selectedId, maxElapsed, loads>>
    => ListOK'
BY DEF ListOK

LEMMA LiveKeepsTable == ASSUME TableInv, NEW p \in Packet, Live(p) PROVE TableInv'
BY LiveKeepsList, LiveKeepsRows DEF TableInv

LEMMA FrameKeepsTable == ASSUME TableInv, Frame PROVE TableInv'
<1>1. ListOK'
  BY ListKept DEF TableInv, ListOK, Frame
<1>. QED
  BY <1>1, Rebuilt DEF TableInv, Frame

LEMMA BuiltAnew ==
  ASSUME TableInv, sort' \in SortType, RebuildList,
         UNCHANGED <<packets, selectedRunId, selectedId, maxElapsed, loads, rebuildScheduled>>
  PROVE  TableInv'
<1>1. ListOK'
  BY ListKept DEF TableInv, ListOK
<1>. QED
  BY <1>1, Rebuilt DEF TableInv

LEMMA ChangedFilter == ASSUME TableInv, KeepList, sort' \in SortType, RebuildList PROVE TableInv'
BY BuiltAnew DEF KeepList

LEMMA FilterKeepsTable == ASSUME TableInv, OnFilterChange PROVE TableInv'
<1>1. KeepList /\ sort' \in SortType /\ RebuildList
  BY DEF OnFilterChange, TableInv, ListOK
<1>. QED
  BY <1>1, ChangedFilter

LEMMA SortKeepsTable == ASSUME TableInv, NEW k \in SortKey, ToggleSort(k) PROVE TableInv'
<1>1. sort' \in SortType
  <2>1. sort \in SortType
    BY DEF TableInv, ListOK
  <2>2. [key |-> k, dir |-> "asc"] \in SortType /\ Unsorted \in SortType
    BY DEF SortType, Unsorted
  <2>3. [sort EXCEPT !.dir = "desc"] \in SortType
    BY <2>1 DEF SortType
  <2>4. sort' \in {[key |-> k, dir |-> "asc"], [sort EXCEPT !.dir = "desc"], Unsorted}
    BY DEF ToggleSort
  <2>. QED
    BY <2>2, <2>3, <2>4
<1>2. KeepList /\ RebuildList
  BY DEF ToggleSort
<1>. QED
  BY <1>1, <1>2, ChangedFilter

LEMMA SelectRunKeepsTable ==
  ASSUME TableInv, NEW r \in Run \cup {None}, NEW l \in Load, SelectRun(r, l)
  PROVE  TableInv'
<1>1. ListOK'
  BY DEF TableInv, ListOK, SelectRun
<1>2. rows' = <<>> /\ emptyRow' = FALSE /\ unbuilt' = TRUE
  BY DEF SelectRun
<1>3. RowsOK'
  BY <1>2 DEF RowsOK, RowsAgree, EmptyNoticeIsTrue, RowsDue
<1>. QED
  BY <1>1, <1>3 DEF TableInv

LEMMA EmptyIsInjective == <<>> \in Seq(Packet) /\ IsInjective(<<>>) /\ Len(<<>>) = 0
BY DEF IsInjective

LEMMA LoadEmptiesKeepsTable ==
  ASSUME TableInv, NEW l \in Load, LoadEmpties(l) PROVE TableInv'
<1>1. ListOK'
  BY EmptyIsInjective DEF TableInv, ListOK, LoadEmpties
<1>2. RowsOK'
  BY DEF TableInv, RowsOK, LoadEmpties, RowsAgree, EmptyNoticeIsTrue, RowsDue
<1>. QED
  BY <1>1, <1>2 DEF TableInv

LEMMA LoadFillsKeepsTable ==
  ASSUME TableInv, NEW l \in Load, NEW recent \in Answers, LoadFills(l, recent)
  PROVE  TableInv'
<1>1. ListOK'
  BY LoadKeepsList DEF TableInv
<1>2. RebuildList
  BY DEF LoadFills
<1>. QED
  BY <1>1, <1>2, Rebuilt DEF TableInv

\* Rows before the one that cannot be drawn were appended as they came.
LEMMA LoadStopsKeepsTable ==
  ASSUME TableInv, NEW l \in Load, NEW recent \in Answers, LoadStops(l, recent)
  PROVE  TableInv'
<1>. DEFINE new == Only(recent, Packet \ Range(packets))
            scale == maxElapsed'
            old == Rescaled(scale)
<1>1. ListOK'
  BY StopGrowsList DEF TableInv
<1>2. /\ rows \in Seq(RowType) /\ RowsAgree /\ packets \in Seq(Packet)
      /\ selectedId \in Packet \cup {None} /\ maxElapsed \in Nat
  BY DEF TableInv, ListOK, RowsOK
<1>3. PICK k \in DOMAIN new :
        LET before == SubSeq(new, 1, k - 1)
            appended == Only(before, {p \in Packet : Appends(p)})
        IN  /\ \A p \in Range(before) : ~(Appends(p) /\ p \in undrawable)
            /\ packets' = packets \o SubSeq(new, 1, k)
            /\ rows' = old \o [n \in DOMAIN appended |-> Row(appended[n], selectedId, scale)]
  BY DEF LoadStops
<1>. DEFINE before == SubSeq(new, 1, k - 1)
            added == SubSeq(new, 1, k)
            appended == Only(before, {p \in Packet : Appends(p)})
            row(n) == Row(appended[n], selectedId, scale)
            drawn == [n \in DOMAIN appended |-> row(n)]
<1>4. UNCHANGED <<selectedId, undrawable>> /\ emptyRow' = FALSE /\ unbuilt' = TRUE
  BY DEF LoadStops
<1>5. new \in Seq(Packet)
  <2>1. PICK S \in SUBSET Range(Arrival) : recent = Only(Arrival, S)
    BY DEF Answers
  <2>2. recent \in Seq(Packet)
    BY <2>1, OnlyFacts, PacketTableAssumption
  <2>. QED
    BY <2>2, OnlyFacts
<1>6. /\ \A p \in Range(before) : ~(Appends(p) /\ p \in undrawable)
      /\ packets' = packets \o added /\ rows' = old \o drawn
  BY <1>3
<1>. HIDE DEF new
<1>7. /\ before \in Seq(Packet) /\ added \in Seq(Packet)
      /\ Range(before) \subseteq Range(added)
  <2>1. k \in 1 .. Len(new) /\ k - 1 \in 0 .. Len(new) /\ k \in 0 .. Len(new) /\ k \in Nat
    BY <1>3, <1>5
  <2>2. /\ before \in Seq(Packet) /\ Len(before) = k - 1
        /\ \A i \in 1 .. k - 1 : before[i] = new[i]
    BY <1>5, <2>1, BeginningOf
  <2>3. /\ added \in Seq(Packet) /\ Len(added) = k /\ \A i \in 1 .. k : added[i] = new[i]
    BY <1>5, <2>1, BeginningOf
  <2>. HIDE DEF before, added
  <2>4. /\ DOMAIN before = 1 .. k - 1 /\ DOMAIN added = 1 .. k
        /\ \A i \in 1 .. k - 1 : i \in 1 .. k /\ before[i] = added[i]
    BY <2>1, <2>2, <2>3
  <2>. QED
    BY <2>2, <2>3, <2>4 DEF Range
<1>. HIDE DEF before, added
<1>8. appended \in Seq(Packet) /\ Range(appended) = Range(before) \cap {p \in Packet : Appends(p)}
  BY <1>7, OnlyFacts
<1>. HIDE DEF appended
<1>9. /\ scale \in Nat /\ maxElapsed <= scale
      /\ \A p \in Range(before) : Elapsed[p] <= scale
  <2>1. /\ packets' \in Seq(Packet) /\ scale \in Nat
        /\ \A i \in 1 .. Len(packets') : Elapsed[packets'[i]] <= scale
    BY <1>1 DEF ListOK
  <2>2. \A p \in Range(before) : \E i \in 1 .. Len(packets') : packets'[i] = p
    <3>1. packets' \in Seq(Packet) /\ Range(packets') = Range(packets) \cup Range(added)
      BY <1>2, <1>6, <1>7, Joined
    <3>2. DOMAIN packets' = 1 .. Len(packets')
      BY <3>1
    <3>. QED
      BY <1>7, <3>1, <3>2 DEF Range
  <2>3. maxElapsed <= scale
    BY StopGrowsList DEF TableInv
  <2>. QED
    BY <2>1, <2>2, <2>3
<1>10. /\ old \in Seq(RowType) /\ Len(old) = Len(rows)
       /\ \A n \in 1 .. Len(rows) : /\ rows[n].id \in Packet /\ old[n].id = rows[n].id
                                    /\ old[n].selected = rows[n].selected /\ old[n].scale = scale
  BY <1>2, <1>9, RescaledRows
<1>11. \A p \in Packet : /\ Row(p, selectedId, scale).selected = (p = selectedId)
                         /\ Row(p, selectedId, scale).scale = scale
                         /\ Row(p, selectedId, scale).id = p
  BY Zenon DEF Row
<1>12. \A p \in Packet : Row(p, selectedId, scale) \in RowType
  BY <1>9 DEF Row, RowType
<1>. HIDE DEF scale, RowType
<1>13. \A n \in DOMAIN appended : appended[n] \in Packet /\ appended[n] \in Range(before)
                                  /\ appended[n] \notin undrawable
  <2>1. \A n \in DOMAIN appended : appended[n] \in Range(appended)
    BY DEF Range
  <2>. QED
    BY <1>6, <1>8, <2>1
<1>14. /\ drawn \in Seq(RowType) /\ DOMAIN drawn = DOMAIN appended
       /\ \A n \in DOMAIN drawn :
            drawn[n].selected = (drawn[n].id = selectedId) /\ drawn[n].scale = scale
              /\ Elapsed[drawn[n].id] <= scale /\ drawn[n].id \notin undrawable
  <2>1. \A n \in DOMAIN appended : row(n) \in RowType
    BY <1>12, <1>13
  <2>2. DOMAIN appended = 1 .. Len(appended) /\ Len(appended) \in Nat
    BY <1>8
  <2>3. \A n \in DOMAIN appended :
          /\ row(n).selected = (row(n).id = selectedId) /\ row(n).scale = scale
          /\ Elapsed[row(n).id] <= scale /\ row(n).id \notin undrawable
    <3>. SUFFICES ASSUME NEW n \in DOMAIN appended
                  PROVE  /\ row(n).selected = (row(n).id = selectedId) /\ row(n).scale = scale
                         /\ Elapsed[row(n).id] <= scale /\ row(n).id \notin undrawable
      OBVIOUS
    <3>1. appended[n] \in Packet /\ scale \in Nat
      BY <1>9, <1>13
    <3>2. /\ row(n).selected = (row(n).id = selectedId)
          /\ row(n).scale = scale /\ row(n).id = appended[n]
      BY <1>11, <3>1, Zenon
    <3>. HIDE DEF row
    <3>. QED
      BY <1>9, <1>13, <3>2
  <2>. HIDE DEF row
  <2>4. drawn \in Seq(RowType)
    BY <2>1, <2>2
  <2>. QED
    BY <2>3, <2>4
<1>15. \A n \in 1 .. Len(old) :
         /\ old[n].selected = (old[n].id = selectedId) /\ old[n].scale = scale
         /\ Elapsed[old[n].id] <= scale /\ old[n].id \notin undrawable
  <2>. SUFFICES ASSUME NEW n \in 1 .. Len(old)
                PROVE  /\ old[n].selected = (old[n].id = selectedId) /\ old[n].scale = scale
                       /\ Elapsed[old[n].id] <= scale /\ old[n].id \notin undrawable
    OBVIOUS
  <2>1. n \in 1 .. Len(rows) /\ n \in DOMAIN rows
    BY <1>2, <1>10
  <2>2. /\ rows[n].selected = (rows[n].id = selectedId) /\ Elapsed[rows[n].id] <= maxElapsed
        /\ rows[n].id \notin undrawable
    BY <1>2, <2>1 DEF RowsAgree
  <2>3. /\ rows[n].id \in Packet /\ old[n].id = rows[n].id
        /\ old[n].selected = rows[n].selected /\ old[n].scale = scale
    BY <1>10, <2>1
  <2>4. Elapsed[rows[n].id] \in Nat
    BY <2>3, PacketTableAssumption
  <2>5. Elapsed[rows[n].id] <= scale
    BY <1>2, <1>9, <2>2, <2>4
  <2>. QED
    BY <2>2, <2>3, <2>5, Zenon
<1>. HIDE DEF old, drawn
<1>16. /\ rows' \in Seq(RowType)
       /\ \A n \in DOMAIN rows' : (n \in 1 .. Len(old) /\ rows'[n] = old[n])
                                  \/ \E i \in DOMAIN drawn : rows'[n] = drawn[i]
  <2>1. rows' \in Seq(RowType)
    BY <1>6, <1>10, <1>14
  <2>. SUFFICES ASSUME NEW n \in DOMAIN rows'
                PROVE  (n \in 1 .. Len(old) /\ rows'[n] = old[n])
                         \/ \E i \in DOMAIN drawn : rows'[n] = drawn[i]
    BY <2>1
  <2>2. n \in 1 .. Len(old) + Len(drawn) /\ Len(old) \in Nat /\ Len(drawn) \in Nat
    BY <1>6, <1>10, <1>14
  <2>3. CASE n <= Len(old)
    BY <1>6, <1>10, <1>14, <2>2, <2>3
  <2>4. CASE n > Len(old)
    <3>1. n - Len(old) \in 1 .. Len(drawn) /\ DOMAIN drawn = 1 .. Len(drawn)
      BY <1>14, <2>2, <2>4
    <3>2. rows'[n] = drawn[n - Len(old)]
      BY <1>6, <1>10, <1>14, <2>2, <2>4
    <3>. QED
      BY <3>1, <3>2
  <2>. QED
    BY <2>2, <2>3, <2>4
<1>17. RowsAgree'
  <2>. SUFFICES ASSUME NEW n \in DOMAIN rows'
                PROVE  /\ rows'[n].selected = (rows'[n].id = selectedId)
                       /\ rows'[n].scale = scale /\ Elapsed[rows'[n].id] <= scale
                       /\ rows'[n].id \notin undrawable
    BY <1>4 DEF RowsAgree, scale
  <2>1. CASE n \in 1 .. Len(old) /\ rows'[n] = old[n]
    BY <1>15, <2>1
  <2>2. CASE \E i \in DOMAIN drawn : rows'[n] = drawn[i]
    BY <1>14, <2>2
  <2>. QED
    BY <1>16, <2>1, <2>2
<1>. QED
  BY <1>1, <1>4, <1>16, <1>17 DEF TableInv, RowsOK, EmptyNoticeIsTrue, RowsDue

LEMMA LoadFailsKeepsTable ==
  ASSUME TableInv, NEW l \in Load, LoadFails(l) PROVE TableInv'
<1>1. ListOK'
  BY DEF TableInv, ListOK, LoadFails
<1>2. RowsOK'
  BY DEF TableInv, RowsOK, LoadFails, RowsAgree, EmptyNoticeIsTrue, RowsDue,
         filterVars, controlVars, rowVars
<1>. QED
  BY <1>1, <1>2 DEF TableInv

\* An empty list is drawn as no row.
LEMMA NothingShown ==
  ASSUME NEW run, NEW fs, NEW ts, NEW s, NEW bad
  PROVE  IsTable(<<>>, [shown |-> 0, total |-> 0], <<>>, run, fs, ts, s, bad)
<1>1. Visible(<<>>, run) = {} /\ Passing(<<>>, run, fs, ts) = {}
  BY DEF Visible, Passing
<1>2. Cardinality({}) = 0
  BY FS_EmptySet
<1>3. Len(Shown(<<>>, {}, s)) = 0
  BY <1>2 DEF Shown, Arranged
<1>4. Len(<<>>) = 0 /\ \A n \in 1 .. Len(<<>>) : FALSE
  OBVIOUS
<1>5. Cardinality(Visible(<<>>, run)) = 0
  BY <1>1, <1>2
<1>6. RowsOf(<<>>, <<>>, {}, s)
  BY <1>3, <1>4 DEF RowsOf
<1>. QED
  BY <1>1, <1>4, <1>5, <1>6 DEF IsTable

LEMMA ClearKeepsTable == ASSUME TableInv, ClearTable PROVE TableInv'
<1>1. ListOK'
  BY EmptyIsInjective DEF TableInv, ListOK, ClearTable
<1>2. rows' = <<>> /\ count' = [shown |-> 0, total |-> 0] /\ packets' = <<>> /\ emptyRow' = FALSE
  BY DEF ClearTable
<1>3. RowsDue'
  BY <1>2, NothingShown DEF RowsDue
<1>4. RowsOK'
  BY <1>2, <1>3 DEF RowsOK, RowsAgree, EmptyNoticeIsTrue
<1>. QED
  BY <1>1, <1>4 DEF TableInv

\* The highlight follows the selection, and the rows stay.
LEMMA SelectRowKeepsTable == ASSUME TableInv, NEW m, SelectRow(m) PROVE TableInv'
<1>. DEFINE id == rows[m].id
            new(n) == [rows[n] EXCEPT !.selected = (rows[n].id = id)]
<1>1. /\ m \in DOMAIN rows /\ selectedId' = id /\ rows' = [n \in DOMAIN rows |-> new(n)]
      /\ UNCHANGED <<packets, selectedRunId, facets, typed, undrawable, sort,
                     rebuildScheduled, maxElapsed, emptyRow, count, unbuilt, loads>>
  BY DEF SelectRow, Highlighted, filterVars, controlVars
<1>2. rows \in Seq(RowType) /\ RowsAgree /\ EmptyNoticeIsTrue /\ RowsDue /\ ListOK
  BY DEF TableInv, RowsOK
<1>3. DOMAIN rows = 1 .. Len(rows) /\ Len(rows) \in Nat
  BY <1>2
<1>4. \A n \in 1 .. Len(rows) : rows[n] \in RowType
  BY <1>2, ElementOfSeq
<1>5. \A n \in 1 .. Len(rows) :
        /\ new(n) \in RowType /\ new(n).id = rows[n].id /\ new(n).scale = rows[n].scale
        /\ new(n).selected = (rows[n].id = id)
  BY <1>4 DEF RowType
<1>6. id \in Packet
  BY <1>1, <1>3, <1>4 DEF RowType
<1>7. ListOK'
  BY <1>1, <1>2, <1>6 DEF ListOK
<1>. HIDE DEF new, id, RowType
<1>8. /\ rows' \in Seq(RowType) /\ Len(rows') = Len(rows)
      /\ \A n \in 1 .. Len(rows) : rows'[n] = new(n)
  BY <1>1, <1>3, <1>5
<1>9. \A n \in 1 .. Len(rows) : /\ rows'[n].id = rows[n].id /\ rows'[n].scale = rows[n].scale
                                /\ rows'[n].selected = (rows[n].id = id)
  BY <1>5, <1>8
<1>10. RowsAgree'
  <2>. SUFFICES ASSUME NEW n \in DOMAIN rows'
                PROVE  /\ rows'[n].selected = (rows'[n].id = selectedId')
                       /\ rows'[n].scale = maxElapsed'
                       /\ Elapsed[rows'[n].id] <= maxElapsed'
                       /\ rows'[n].id \notin undrawable'
    BY DEF RowsAgree
  <2>1. n \in 1 .. Len(rows) /\ n \in DOMAIN rows
    BY <1>3, <1>8
  <2>2. /\ rows[n].scale = maxElapsed /\ Elapsed[rows[n].id] <= maxElapsed
        /\ rows[n].id \notin undrawable
    BY <1>2, <2>1 DEF RowsAgree
  <2>3. /\ rows'[n].id = rows[n].id /\ rows'[n].scale = rows[n].scale
        /\ rows'[n].selected = (rows[n].id = id)
    BY <1>9, <2>1
  <2>. QED
    BY <1>1, <2>2, <2>3
<1>11. EmptyNoticeIsTrue'
  <2>1. rows = <<>> => rows' = <<>>
    BY <1>8
  <2>. QED
    BY <1>1, <1>2, <2>1 DEF EmptyNoticeIsTrue
<1>12. RowsDue'
  <2>. SUFFICES ASSUME ~rebuildScheduled, ~unbuilt
                PROVE  IsTable(rows', count, packets, selectedRunId, facets, typed, sort,
                               undrawable)
    BY <1>1 DEF RowsDue
  <2>1. PICK D \in SUBSET Passing(packets, selectedRunId, facets, typed) :
          /\ RowsOf(rows, packets, D, sort)
          /\ Failing(packets, selectedRunId, facets, typed, undrawable) = {} =>
               /\ D = Passing(packets, selectedRunId, facets, typed)
               /\ count = [shown |-> Len(rows),
                           total |-> Cardinality(Visible(packets, selectedRunId))]
    BY <1>2 DEF RowsDue, IsTable
  <2>2. RowsOf(rows', packets, D, sort) /\ Len(rows') = Len(rows)
    BY <1>8, <1>9, <2>1 DEF RowsOf
  <2>. QED
    BY <2>1, <2>2 DEF IsTable
<1>. QED
  BY <1>7, <1>8, <1>10, <1>11, <1>12 DEF TableInv, RowsOK

LEMMA TableStep == TableInv /\ [Next]_vars => TableInv'
<1>. SUFFICES ASSUME TableInv, [Next]_vars PROVE TableInv'
  OBVIOUS
<1>1. CASE FilterAndSort
  <2>1. CASE \E f \in Facet : ToggleFacet(f)
    BY <2>1, FilterKeepsTable DEF ToggleFacet
  <2>2. CASE \E f \in Typed, v \in Text \cup {None} : Type(f, v)
    BY <2>2, TableKept DEF Type, KeepList
  <2>3. CASE \E f \in Typed : RemoveTag(f)
    BY <2>3, FilterKeepsTable DEF RemoveTag
  <2>4. CASE ResetFilters
    BY <2>4, FilterKeepsTable DEF ResetFilters
  <2>5. CASE \E k \in SortKey : ToggleSort(k)
    BY <2>5, SortKeepsTable
  <2>6. CASE \E f \in Facet : RemoveFacetTag(f)
    BY <2>6, FilterKeepsTable DEF RemoveFacetTag
  <2>. QED
    BY <1>1, <2>1, <2>2, <2>3, <2>4, <2>5, <2>6 DEF FilterAndSort
<1>2. CASE ClickRow \/ MoveSelection
  BY <1>2, SelectRowKeepsTable DEF ClickRow, MoveSelection
<1>3. CASE ChooseRun
  BY <1>3, SelectRunKeepsTable DEF ChooseRun
<1>4. CASE ClearAll
  BY <1>4, ClearKeepsTable DEF ClearAll
<1>5. CASE Pane \/ Viewer \/ UNCHANGED vars
  <2>1. UNCHANGED tableVars
    BY <1>5 DEF Pane, Viewer, vars
  <2>. QED
    BY <2>1, TableKept DEF tableVars, filterVars, controlVars
<1>6. CASE ChangeRules \/ Retranslate
  <2>1. Repaint
    BY <1>6 DEF ChangeRules, Retranslate
  <2>2. sort' \in SortType
    BY <2>1 DEF Repaint, TableInv, ListOK
  <2>. QED
    BY <2>1, <2>2, BuiltAnew DEF Repaint
<1>7. CASE Stream
  BY <1>7, LiveKeepsTable DEF Stream
<1>8. CASE Frames
  BY <1>8, FrameKeepsTable DEF Frames
<1>9. CASE Timers
  BY <1>9, FilterKeepsTable DEF Timers, TimerFires
<1>10. CASE Loads
  BY <1>10, LoadEmptiesKeepsTable, LoadFillsKeepsTable, LoadStopsKeepsTable,
     LoadFailsKeepsTable DEF Loads
<1>. QED
  BY <1>1, <1>2, <1>3, <1>4, <1>5, <1>6, <1>7, <1>8, <1>9, <1>10 DEF Next

LEMMA TableInitInv == TableInit => TableInv
<1>. SUFFICES ASSUME TableInit PROVE TableInv
  OBVIOUS
<1>1. ListOK
  <2>1. Unsorted \in SortType
    BY DEF SortType, Unsorted
  <2>2. \A i \in 1 .. Len(<<>>) : FALSE
    OBVIOUS
  <2>3. loads \in [Load -> {"idle", "asked", "emptied"}]
    BY DEF TableInit
  <2>. QED
    BY EmptyIsInjective, <2>1, <2>2, <2>3 DEF TableInit, ListOK
<1>2. rows = <<>> /\ count = [shown |-> 0, total |-> 0] /\ packets = <<>> /\ emptyRow = FALSE
  BY DEF TableInit
<1>3. RowsDue
  BY <1>2, NothingShown DEF RowsDue
<1>. QED
  BY <1>1, <1>2, <1>3 DEF TableInv, RowsOK, RowsAgree, EmptyNoticeIsTrue

LEMMA TableInvIsCurrent == TableInv => TableIsCurrent
<1>. SUFFICES ASSUME TableInv PROVE TableIsCurrent
  OBVIOUS
<1>1. packets \in Seq(Packet) /\ IsInjective(packets) /\ sort \in SortType /\ rows \in Seq(RowType)
  BY DEF TableInv, ListOK, RowsOK
<1>2. RowsAgree /\ EmptyNoticeIsTrue /\ RowsDue
  BY DEF TableInv, RowsOK
<1>3. RowsAreCurrent
  <2>. SUFFICES ASSUME ~rebuildScheduled, ~unbuilt PROVE RowsAreCurrent
    BY DEF RowsAreCurrent
  <2>1. IsTable(rows, count, packets, selectedRunId, facets, typed, sort, undrawable)
    BY <1>2 DEF RowsDue
  <2>2. ListsThose(rows, count, packets, selectedRunId, facets, typed, sort, undrawable)
    BY <1>1, <2>1, TableIsRight
  <2>. QED
    BY <2>2 DEF RowsAreCurrent, ListsThose
<1>. QED
  BY <1>2, <1>3 DEF TableIsCurrent

\* The table is what a rebuild would draw now, up to a packet that cannot be
\* drawn: rows, order, highlight, the scale of the bars, the notice that nothing
\* matches and, if each packet can be drawn, the counter, however many packets
\* arrive, loads overlap and handlers run in between.
THEOREM TableFollows == Spec => []TableIsCurrent
<1>1. Init => TableInv
  BY TableInitInv DEF Init
<1>. QED
  BY <1>1, TableStep, TableInvIsCurrent, PTL DEF Spec

-----------------------------------------------------------------------------
(* Types *)

Flags == {detailSpy, paneOpen, detailCollapsed, typing, moved} \subseteq BOOLEAN
HitsOK == searchHits \in Nat /\ searchIdx \in -1 .. (searchHits - 1)
IndexOK == modal.index \in Nat

LEMMA SearchedTypes ==
  ViewerTypeOK' /\ Search(modalCm', query') => HitsOK'
<1>. SUFFICES ASSUME ViewerTypeOK', Search(modalCm', query') PROVE HitsOK'
  OBVIOUS
<1>1. searchHits' \in Nat
  BY DetailPaneAssumption DEF ViewerTypeOK, Search
<1>2. searchIdx' = IF searchHits' > 0 THEN 0 ELSE -1
  BY DEF Search
<1>3. searchIdx' \in -1 .. (searchHits' - 1)
  BY <1>1, <1>2, FirstHit, Zenon
<1>. QED
  BY <1>1, <1>3 DEF HitsOK

\* A body in the pane has a place.
LEMMA PlacesAreNumbers == ListOK /\ PaneInv => DOMAIN detailBodies \subseteq Nat
<1>. SUFFICES ASSUME ListOK, PaneInv PROVE DOMAIN detailBodies \subseteq Nat
  OBVIOUS
<1>1. CASE detailBodies = <<>>
  BY <1>1
<1>2. CASE detailBodies # <<>>
  <2>0. detail # None
    BY <1>2 DEF PaneInv, BodiesAreOfDetail
  <2>1. detail \in DOMAIN Parts
    BY <2>0, TrafficViewAssumption DEF PaneInv, DetailShowsSelected, ListOK
  <2>2. DOMAIN detailBodies = DOMAIN Parts[detail]
    BY <1>2 DEF PaneInv, BodiesAreOfDetail
  <2>. QED
    BY <2>1, <2>2, DetailPaneAssumption
<1>. QED
  BY <1>1, <1>2

LEMMA RenderedFlags ==
  ASSUME Flags, NEW p, RenderDetail(p, None), UNCHANGED typing,
         paneOpen' \in BOOLEAN, detailCollapsed' \in BOOLEAN
  PROVE  Flags'
<1>1. detailSpy' \in BOOLEAN /\ moved' \in BOOLEAN
  BY Zenon DEF RenderDetail
<1>2. typing' \in BOOLEAN
  BY DEF Flags
<1>. QED
  BY <1>1, <1>2, Zenon DEF Flags

LEMMA PaneFlags ==
  ASSUME Flags
  PROVE  /\ CloseDetail \/ EmptyDetail(None) => Flags'
         /\ \A n : ToggleRaw(n) \/ OpenBodyModal(n) => Flags'
         /\ \A b : RestoreDetail(b) => Flags'
         /\ ModalToggle \/ CloseBodyModal => Flags'
         /\ \A q : SearchFor(q) \/ StepSearch(q) => Flags'
         /\ UNCHANGED detailVars => Flags'
<1>1. ASSUME CloseDetail PROVE Flags'
  BY <1>1, Zenon DEF Flags, CloseDetail, modalVars
<1>2. ASSUME EmptyDetail(None) PROVE Flags'
  <2>1. moved' \in BOOLEAN
    BY <1>2, Zenon DEF EmptyDetail
  <2>. QED
    BY <1>2, <2>1, Zenon DEF Flags, EmptyDetail, modalVars
<1>3. ASSUME NEW n, ToggleRaw(n) PROVE Flags'
  BY <1>3, Zenon DEF Flags, ToggleRaw, drawerVars, modalVars
<1>4. ASSUME NEW n, OpenBodyModal(n) PROVE Flags'
  BY <1>4, Zenon DEF Flags, OpenBodyModal, drawerVars
<1>5. ASSUME NEW b, RestoreDetail(b) PROVE Flags'
  <2>1. paneOpen' \in BOOLEAN
    BY <1>5, Zenon DEF RestoreDetail
  <2>. QED
    BY <1>5, <2>1, Zenon DEF Flags, RestoreDetail, paneVars, modalVars
<1>6. ASSUME ModalToggle PROVE Flags'
  BY <1>6, Zenon DEF Flags, ModalToggle, paneVars, drawerVars
<1>7. ASSUME CloseBodyModal PROVE Flags'
  BY <1>7, Zenon DEF Flags, CloseBodyModal, paneVars, drawerVars
<1>8. ASSUME NEW q, SearchFor(q) PROVE Flags'
  BY <1>8, Zenon DEF Flags, SearchFor, paneVars, drawerVars
<1>9. ASSUME NEW q, StepSearch(q) PROVE Flags'
  BY <1>9, Zenon DEF Flags, StepSearch, paneVars, drawerVars
<1>10. ASSUME UNCHANGED detailVars PROVE Flags'
  BY <1>10, Zenon DEF Flags, detailVars, paneVars, drawerVars, modalVars
<1>. QED
  BY <1>1, <1>2, <1>3, <1>4, <1>5, <1>6, <1>7, <1>8, <1>9, <1>10

\* The hits stay counted and the position stays a number.
ViewerNumbers == HitsOK /\ IndexOK

LEMMA NumbersKept == ViewerNumbers /\ UNCHANGED modalVars => ViewerNumbers'
BY DEF ViewerNumbers, HitsOK, IndexOK, modalVars

LEMMA OpenedNumbers ==
  ASSUME ListOK, PaneInv, ViewerTypeOK', NEW n, OpenBodyModal(n)
  PROVE  ViewerNumbers'
<1>1. modal' = [index |-> n, raw |-> FALSE] /\ n \in DOMAIN detailBodies
      /\ Search(modalCm', query')
  BY DEF OpenBodyModal, RenderModalView
<1>2. n \in Nat
  BY <1>1, PlacesAreNumbers
<1>. QED
  BY <1>1, <1>2, SearchedTypes DEF ViewerNumbers, IndexOK

LEMMA ToggledNumbers ==
  ASSUME ViewerTypeOK, ViewerTypeOK', ViewerNumbers, ModalToggle
  PROVE  ViewerNumbers'
<1>1. IndexOK'
  <2>1. modal' = [modal EXCEPT !.raw = ~@]
    BY DEF ModalToggle
  <2>2. modal'.index = modal.index
    BY <2>1 DEF ViewerTypeOK
  <2>. QED
    BY <2>2 DEF ViewerNumbers, IndexOK
<1>2. HitsOK'
  <2>1. CASE modal.index \in DOMAIN detailBodies
    <3>1. Search(modalCm', query')
      BY <2>1 DEF ModalToggle, RenderModalView
    <3>. QED
      BY <3>1, SearchedTypes
  <2>2. CASE modal.index \notin DOMAIN detailBodies
    BY <2>2 DEF ModalToggle, ViewerNumbers, HitsOK
  <2>. QED
    BY <2>1, <2>2
<1>. QED
  BY <1>1, <1>2 DEF ViewerNumbers

LEMMA SoughtNumbers ==
  ASSUME ViewerTypeOK', ViewerNumbers, NEW q, SearchFor(q)
  PROVE  ViewerNumbers'
<1>1. Search(modalCm', query') /\ UNCHANGED modal
  BY DEF SearchFor
<1>. QED
  BY <1>1, SearchedTypes DEF ViewerNumbers, IndexOK

LEMMA SteppedNumbers ==
  ASSUME ViewerNumbers, NEW delta \in {-1, 1}, StepSearch(delta)
  PROVE  ViewerNumbers'
<1>1. searchHits \in Nat /\ searchHits > 0 /\ searchIdx \in Int
  BY DEF StepSearch, ViewerNumbers, HitsOK
<1>2. searchIdx' = (searchIdx + delta + searchHits) % searchHits
      /\ UNCHANGED <<modal, searchHits>>
  BY DEF StepSearch
<1>3. searchIdx' \in 0 .. (searchHits - 1)
  <2>1. searchIdx + delta + searchHits \in Int
    BY <1>1
  <2>. QED
    BY <2>1, <1>1, <1>2, InCircle
<1>4. searchIdx' \in -1 .. (searchHits - 1)
  BY <1>1, <1>3
<1>. QED
  BY <1>1, <1>2, <1>4 DEF ViewerNumbers, HitsOK, IndexOK

LEMMA ClosedNumbers == ASSUME CloseBodyModal PROVE ViewerNumbers'
BY DEF CloseBodyModal, NoModal, ViewerNumbers, HitsOK, IndexOK

LEMMA NumbersStep ==
  ListOK /\ PaneInv /\ ViewerInv /\ ViewerInv' /\ ViewerNumbers /\ [Next]_vars => ViewerNumbers'
<1>. SUFFICES ASSUME ListOK, PaneInv, ViewerTypeOK, ViewerTypeOK', ViewerNumbers, [Next]_vars
              PROVE  ViewerNumbers'
  BY DEF ViewerInv
<1>1. CASE UNCHANGED modalVars
  BY <1>1, NumbersKept
<1>2. CASE \/ ClickRow \/ MoveSelection \/ ChooseRun \/ ClearAll
           \/ ChangeRules \/ Retranslate \/ UNCHANGED vars
  <2>1. UNCHANGED modalVars
    BY <1>2 DEF ClickRow, MoveSelection, ChooseRun, ClearAll, EmptyDetail, ChangeRules,
                Retranslate, Repaint, vars, detailVars
  <2>. QED
    BY <2>1, <1>1
<1>3. CASE FilterAndSort \/ Stream \/ Frames \/ Timers \/ Loads
  <2>1. UNCHANGED modalVars
    BY <1>3 DEF FilterAndSort, Stream, Frames, Timers, Loads, detailVars
  <2>. QED
    BY <2>1, <1>1
<1>4. CASE Pane
  <2>1. CASE CloseDetail \/ RestoreDetail(selectedId # None)
               \/ \E n \in DOMAIN detailBodies : ToggleRaw(n)
    <3>1. UNCHANGED modalVars
      BY <2>1 DEF CloseDetail, RestoreDetail, ToggleRaw
    <3>. QED
      BY <3>1, <1>1
  <2>. QED
    BY <1>4, <2>1, OpenedNumbers, ClosedNumbers DEF Pane, Escape
<1>5. CASE Viewer
  BY <1>5, ToggledNumbers, SoughtNumbers, SteppedNumbers DEF Viewer
<1>. QED
  BY <1>2, <1>3, <1>4, <1>5 DEF Next

LEMMA FlagsStep == Flags /\ [Next]_vars => Flags'
<1>. SUFFICES ASSUME Flags, [Next]_vars PROVE Flags'
  OBVIOUS
<1>1. ASSUME NEW p, ShowPacket(p, None), UNCHANGED modalVars PROVE Flags'
  BY <1>1, RenderedFlags DEF ShowPacket, modalVars
<1>2. CASE ClickRow \/ MoveSelection
  BY <1>1, <1>2 DEF ClickRow, MoveSelection
<1>3. CASE ChooseRun \/ ClearAll
  BY <1>3, PaneFlags DEF ChooseRun, ClearAll
<1>4. CASE ChangeRules \/ Retranslate
  <2>0. Repaint
    BY <1>4 DEF ChangeRules, Retranslate
  <2>1. UNCHANGED <<typing, paneOpen, detailCollapsed>>
    BY <2>0 DEF Repaint, modalVars, drawerVars
  <2>2. paneOpen' \in BOOLEAN /\ detailCollapsed' \in BOOLEAN
    BY <2>1 DEF Flags
  <2>3. CASE UNCHANGED paneVars
    <3>1. UNCHANGED detailVars
      BY <2>0, <2>3 DEF Repaint, detailVars
    <3>. QED
      BY <3>1, PaneFlags
  <2>4. CASE DetailThrows
    <3>1. detailSpy' \in BOOLEAN /\ moved' \in BOOLEAN /\ typing' \in BOOLEAN
      BY <2>1, <2>4, Zenon DEF DetailThrows, Flags
    <3>. QED
      BY <2>2, <3>1, Zenon DEF Flags
  <2>5. CASE RenderDetail(Listed(selectedId), None)
    BY <2>1, <2>2, <2>5, RenderedFlags
  <2>. QED
    BY <2>0, <2>3, <2>4, <2>5 DEF Repaint
<1>5. CASE FilterAndSort \/ Stream \/ Frames \/ Timers \/ Loads \/ UNCHANGED vars
  <2>1. UNCHANGED detailVars
    BY <1>5 DEF FilterAndSort, Stream, Frames, Timers, Loads, vars
  <2>. QED
    BY <2>1, PaneFlags
<1>6. CASE Pane
  BY <1>6, PaneFlags DEF Pane, Escape
<1>7. CASE Viewer
  BY <1>7, PaneFlags DEF Viewer
<1>. QED
  BY <1>2, <1>3, <1>4, <1>5, <1>6, <1>7 DEF Next

LEMMA RulesStep == undrawable \in Undrawable /\ [Next]_vars => undrawable' \in Undrawable
<1>. SUFFICES ASSUME undrawable \in Undrawable, [Next]_vars PROVE undrawable' \in Undrawable
  OBVIOUS
<1>1. CASE ChangeRules
  BY <1>1 DEF ChangeRules
<1>2. CASE ClickRow \/ MoveSelection \/ ChooseRun \/ ClearAll \/ Retranslate
  BY <1>2 DEF ClickRow, MoveSelection, ChooseRun, ClearAll, Retranslate, SelectRow, SelectRun,
              ClearTable
<1>3. CASE Pane \/ Viewer \/ Stream \/ Frames \/ Loads \/ UNCHANGED vars
  BY <1>3 DEF Pane, Viewer, Stream, Frames, Loads, Live, Frame, LoadEmpties, LoadFills,
              LoadStops, LoadFails, vars, tableVars
<1>4. CASE FilterAndSort \/ Timers
  BY <1>4 DEF FilterAndSort, Timers, ToggleFacet, RemoveFacetTag, Type, TimerFires, RemoveTag,
              ResetFilters, ToggleSort, OnFilterChange, KeepList
<1>. QED
  BY <1>1, <1>2, <1>3, <1>4 DEF Next

LEMMA CommandsStep ==
  commands \in 0 .. MaxCommands /\ [Next]_vars => commands' \in 0 .. MaxCommands
<1>. SUFFICES ASSUME commands \in 0 .. MaxCommands, [Next]_vars
              PROVE  commands' \in 0 .. MaxCommands
  OBVIOUS
<1>1. (commands < MaxCommands /\ commands' = commands + 1) \/ commands' = commands
  BY DEF Next, Command, vars
<1>. QED
  BY <1>1, TrafficViewAssumption

\* Every variable has its type, and the current hit of the viewer's search is
\* one of the hits there are.
THEOREM TypeCorrect == Spec => []TypeOK
<1>. DEFINE All == /\ TableInv /\ FilterInv /\ PaneInv /\ ViewerInv
                   /\ ViewerNumbers /\ Flags /\ commands \in 0 .. MaxCommands
                   /\ undrawable \in Undrawable
<1>1. Init => All
  <2>. SUFFICES ASSUME Init PROVE All
    OBVIOUS
  <2>1. TableInv /\ FilterInv
    BY TableInitInv, FilterInit DEF Init
  <2>2. PaneInv
    BY DEF Init, TableInit, DetailInit, PaneInv, DetailShowsSelected, AtMostOneSpy,
           BodiesAreOfDetail
  <2>3. ViewerInv
    BY DEF Init, DetailInit, ViewerInv, ViewerTypeOK, ShowsBody, CountsHits, Hits,
           ModalOpen, NoModal
  <2>4. ViewerNumbers
    BY DEF Init, DetailInit, NoModal, ViewerNumbers, HitsOK, IndexOK
  <2>5. Flags
    BY DEF Init, DetailInit, Flags
  <2>6. commands \in 0 .. MaxCommands
    BY TrafficViewAssumption DEF Init
  <2>7. undrawable \in Undrawable
    BY DEF Init, TableInit
  <2>. QED
    BY <2>1, <2>2, <2>3, <2>4, <2>5, <2>6, <2>7
<1>2. All => TypeOK
  <2>. SUFFICES ASSUME All PROVE TypeOK
    OBVIOUS
  <2>1. TableTypeOK
    BY DEF TableInv, ListOK, RowsOK, FilterInv, FilterTypeOK, SortType, RowType, TableTypeOK
  <2>2. DetailTypeOK
    BY DEF ViewerInv, ViewerTypeOK, ViewerNumbers, HitsOK, IndexOK, Flags, DetailTypeOK
  <2>. QED
    BY <2>1, <2>2 DEF TypeOK
<1>3. All /\ [Next]_vars => All'
  <2>. SUFFICES ASSUME All, [Next]_vars PROVE All'
    OBVIOUS
  <2>1. TableInv' /\ FilterInv' /\ PaneInv' /\ ViewerInv'
    BY TableStep, FilterStep, PaneStep, ViewerStep
  <2>2. ViewerNumbers'
    BY <2>1, NumbersStep DEF TableInv
  <2>. QED
    BY <2>1, <2>2, FlagsStep, CommandsStep, RulesStep
<1>. HIDE DEF All
<1>. QED
  BY <1>1, <1>2, <1>3, PTL DEF Spec

==============================================================================
