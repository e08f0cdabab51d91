------------------------------- MODULE TrafficView -------------------------------
(***************************************************************************)
(* The traffic view of the browser page: the table of packets and the      *)
(* detail pane, which share the selection.  Handlers run one at a time;    *)
(* packets, frames, timers and answers come in between.  The user acts at  *)
(* most MaxCommands times on the table and the pane, and without a bound   *)
(* within the viewer.                                                      *)
(***************************************************************************)
EXTENDS PacketTable, DetailPane

CONSTANT MaxCommands

ASSUME TrafficViewAssumption == Packet \subseteq DOMAIN Parts /\ MaxCommands \in Nat

VARIABLE commands

vars == <<tableVars, detailVars, commands>>

Command == commands < MaxCommands /\ commands' = commands + 1

Init == TableInit /\ DetailInit(None) /\ commands = 0

Listed(p) == IF p \in Range(packets) THEN p ELSE None

\* What happens by itself.
Stream == \E p \in Packet : Live(p) /\ UNCHANGED detailVars
Frames == Frame /\ UNCHANGED detailVars
Timers == \E f \in Typed : TimerFires(f) /\ UNCHANGED detailVars
Loads ==
  /\ UNCHANGED detailVars
  /\ \E l \in Load :
       \/ LoadEmpties(l)
       \/ \E recent \in Answers : LoadFills(l, recent)
       \/ \E recent \in Answers : LoadStops(l, recent)
       \/ LoadFails(l)

\* The viewer lies over the page: the mouse reaches the table only when it is
\* closed, the keys j and k also when the focus is not in its search field.
FilterAndSort ==
  /\ ~ModalOpen /\ UNCHANGED detailVars
  /\ \/ \E f \in Facet : ToggleFacet(f)
     \/ \E f \in Facet : RemoveFacetTag(f)
     \/ \E f \in Typed, v \in Text \cup {None} : Type(f, v)
     \/ \E f \in Typed : RemoveTag(f)
     \/ ResetFilters
     \/ \E k \in SortKey : ToggleSort(k)

ClickRow ==
  /\ ~ModalOpen /\ UNCHANGED modalVars
  /\ \E n \in DOMAIN rows : SelectRow(n) /\ ShowPacket(Listed(rows[n].id), None)

MoveSelection ==
  /\ ModalOpen => ~typing
  /\ rows # <<>> /\ UNCHANGED modalVars
  /\ \E delta \in {-1, 1} :
       LET n == MovesTo(delta) IN
       SelectRow(n) /\ ShowPacket(Listed(rows[n].id), None)

ChooseRun ==
  /\ ~ModalOpen
  /\ \E r \in Run \cup {None}, l \in Load : SelectRun(r, l) /\ EmptyDetail(None)

ClearAll == ~ModalOpen /\ ClearTable /\ EmptyDetail(None)

Pane ==
  /\ UNCHANGED tableVars
  /\ \/ ~ModalOpen /\ paneOpen /\ CloseDetail
     \/ ~ModalOpen /\ RestoreDetail(selectedId # None)
     \/ ~ModalOpen /\ \E n \in DOMAIN detailBodies : ToggleRaw(n)
     \/ \E n \in DOMAIN detailBodies : paneOpen /\ OpenBodyModal(n)
     \/ Escape

Viewer ==
  /\ UNCHANGED tableVars
  /\ \/ ModalToggle
     \/ \E q \in Query \cup {NoBody} : SearchFor(q)
     \/ \E delta \in {-1, 1} : StepSearch(delta)

\* The table is built anew and then rerenderSelectedDetail() runs, which is not
\* reached if a row cannot be drawn.
Repaint ==
  /\ UNCHANGED <<packets, selectedRunId, selectedId, facets, controlVars, storedFilter,
                 unsaved, sort, rebuildScheduled, maxElapsed, loads, modalVars, drawerVars>>
  /\ RebuildList
  /\ IF RebuildThrows \/ selectedId = None THEN UNCHANGED paneVars
     ELSE IF Listed(selectedId) \in undrawable' THEN DetailThrows
     ELSE RenderDetail(Listed(selectedId), None)

\* refreshSchemaViews(), because the rules in force have changed.
ChangeRules ==
  /\ undrawable' \in Undrawable /\ UNCHANGED tags
  /\ Repaint

\* retranslateRenderedContent(), because the language has.
Retranslate ==
  /\ tags' = Filter(facets, typed) /\ UNCHANGED undrawable
  /\ Repaint

Next ==
  \/ /\ Command
     /\ \/ FilterAndSort \/ ClickRow \/ MoveSelection \/ ChooseRun \/ ClearAll
        \/ Pane \/ ChangeRules \/ Retranslate
  \/ /\ UNCHANGED commands
     /\ Stream \/ Frames \/ Timers \/ Loads \/ Viewer

Spec == Init /\ [][Next]_vars

-----------------------------------------------------------------------------
TypeOK == TableTypeOK /\ DetailTypeOK /\ commands \in 0 .. MaxCommands

\* The pane never shows a packet other than the selected one: not after the
\* selection moved to a row whose packet has gone, nor after the run was
\* changed or the list was cleared.
DetailShowsSelected == detail \in {None, selectedId}

\* The table, however its rows came there (appended, rebuilt at once or a frame
\* later, and cut short by a packet that cannot be drawn), is what a rebuild
\* would draw now: rows, highlight, the scale of the bars and the notice that
\* nothing matches, and the counter if each packet can be drawn.
TableIsCurrent == RowsAreCurrent /\ RowsAgree /\ EmptyNoticeIsTrue

\* The pane follows the selection and leaves nothing running when it is
\* emptied, closed or drawn again.
PaneFollowsSelection == DetailShowsSelected /\ AtMostOneSpy

\* The viewer shows what it says it shows, and the search in it counts the
\* hits in that, through every change of view and query.
ViewerAgrees == ModalShowsItsTitle /\ SearchAgrees

==============================================================================
