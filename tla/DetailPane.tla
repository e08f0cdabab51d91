------------------------------- MODULE DetailPane -------------------------------
(***************************************************************************)
(* The detail pane of the browser page and the full-screen viewer of a     *)
(* body.  The pane keeps a list of the bodies it shows; the viewer         *)
(* remembers a position in that list, which is made anew whenever the      *)
(* details are rendered.  A body is a pair of a packet and a part of it.   *)
(***************************************************************************)
EXTENDS Integers, FiniteSets, Sequences, Functions, SequencesExt

CONSTANTS
  Parts,      \* Parts[p]: the parts of packet p that have a body
  Formatted,  \* bodies that have a formatted view
  Query,      \* what may be searched for
  Found,      \* Found[q][b]: how often q occurs in the formatted view of b
  NoBody

ASSUME DetailPaneAssumption ==
  /\ \A p \in DOMAIN Parts : DOMAIN Parts[p] \subseteq Nat
  /\ \A q \in Query : \A b \in Formatted : Found[q][b] \in Nat
  /\ NoBody \notin Formatted /\ NoBody \notin Query

VARIABLES
  detail,           \* the packet that is rendered, or none
  detailBodies,     \* sequence of [body, raw]
  paneOpen, detailCollapsed,
  detailSpy,        \* whether there is a scroll spy to tear down
  spies,            \* scroll spies that are polling
  modal,            \* NoModal, or [index, raw] of the viewer
  modalTitle,       \* the body that its title names
  modalHost,        \* [body, raw] that it displays, or none
  modalCm,          \* body in the viewer's editor, or none if it shows raw text
  query,            \* what the search field holds
  searchHits, searchIdx, bmCount,
  typing,           \* the focus is in the search field
  moved             \* history: the details were rendered for another packet,
                    \* or without bodies, since the viewer was opened

NoModal == [index |-> 0, raw |-> FALSE]
modalVars == <<modal, modalTitle, modalHost, modalCm, query, searchHits,
               searchIdx, bmCount, typing>>
paneVars == <<detail, detailBodies, detailSpy, spies, moved>>
drawerVars == <<paneOpen, detailCollapsed>>
detailVars == <<paneVars, drawerVars, modalVars>>

ModalOpen == modal # NoModal

-----------------------------------------------------------------------------
(* The pane *)

\* Polling spies after teardownDetailScrollSpy().
\* Mutant: the old spy is forgotten and goes on polling.
AfterTeardown_forgets == spies
AfterTeardown == IF detailSpy THEN spies - 1 ELSE spies

Bodies(p) == [n \in DOMAIN Parts[p] |-> [body |-> <<p, Parts[p][n]>>, raw |-> FALSE]]

\* renderDetail(): p is None if no such packet is listed.
RenderDetail(p, none) ==
  /\ detail' = p
  /\ detailBodies' = IF p = none THEN <<>> ELSE Bodies(p)
  /\ detailSpy' = (p # none)
  /\ spies' = AfterTeardown + (IF p = none THEN 0 ELSE 1)
  /\ moved' = (moved \/ (ModalOpen /\ p # detail))

\* renderDetail() of a packet that cannot be drawn: the exception comes after
\* the list of bodies was emptied and before anything else of the pane changed.
DetailThrows ==
  /\ detailBodies' = <<>> /\ moved' = (moved \/ ModalOpen)
  /\ UNCHANGED <<detail, detailSpy, spies>>

\* selectPacket(), as far as the pane is concerned.
ShowPacket(p, none) ==
  /\ detailCollapsed' = FALSE /\ paneOpen' = TRUE
  /\ RenderDetail(p, none)

\* closeDetail()
CloseDetail ==
  /\ spies' = AfterTeardown /\ detailSpy' = FALSE
  /\ detailCollapsed' = TRUE /\ paneOpen' = FALSE
  /\ UNCHANGED <<detail, detailBodies, moved, modalVars>>

\* renderDetail(null) followed by closeDetail().
EmptyDetail(none) ==
  /\ detail' = none /\ detailBodies' = <<>>
  /\ spies' = AfterTeardown /\ detailSpy' = FALSE
  /\ detailCollapsed' = TRUE /\ paneOpen' = FALSE
  /\ moved' = (moved \/ (ModalOpen /\ detail # none))
  /\ UNCHANGED modalVars

\* The restore button.  The scroll spy is not mounted again.
RestoreDetail(somethingSelected) ==
  /\ detailCollapsed
  /\ detailCollapsed' = FALSE
  /\ paneOpen' = (paneOpen \/ somethingSelected)
  /\ UNCHANGED <<paneVars, modalVars>>

\* The Formatted and Raw buttons of a body in the pane.
ToggleRaw(n) ==
  /\ n \in DOMAIN detailBodies /\ detailBodies[n].body \in Formatted
  /\ detailBodies' = [detailBodies EXCEPT ![n].raw = ~@]
  /\ UNCHANGED <<detail, detailSpy, spies, moved, drawerVars, modalVars>>

-----------------------------------------------------------------------------
(* The viewer *)

\* runBodySearch(): nothing is sought in raw text, or for an empty query.
Search(cm, q) ==
  LET hits == IF cm = NoBody \/ q = NoBody THEN 0 ELSE Found[q][cm] IN
  /\ searchHits' = hits
  /\ searchIdx' = IF hits > 0 THEN 0 ELSE -1
  /\ bmCount' = IF cm = NoBody \/ q = NoBody THEN <<>> ELSE
                IF hits = 0 THEN <<0>> ELSE <<1, hits>>

\* renderModalView() of a body that exists.
\* Mutant: the search is not run again.
RenderModalView_noSearch(b, raw, q) ==
  /\ modalHost' = [body |-> b, raw |-> raw \/ b \notin Formatted]
  /\ modalCm' = IF raw \/ b \notin Formatted THEN NoBody ELSE b
  /\ UNCHANGED <<searchHits, searchIdx, bmCount>>
RenderModalView(b, raw, q) ==
  /\ modalHost' = [body |-> b, raw |-> raw \/ b \notin Formatted]
  /\ modalCm' = IF raw \/ b \notin Formatted THEN NoBody ELSE b
  /\ Search(modalCm', q)

\* openBodyModal(): the search field is emptied and gets the focus.
OpenBodyModal(n) ==
  /\ ~ModalOpen /\ n \in DOMAIN detailBodies
  /\ modal' = [index |-> n, raw |-> FALSE]
  /\ modalTitle' = detailBodies[n].body
  /\ query' = NoBody /\ typing' = TRUE /\ moved' = FALSE
  /\ RenderModalView(detailBodies[n].body, FALSE, NoBody)
  /\ UNCHANGED <<detail, detailBodies, detailSpy, spies, drawerVars>>

\* The Raw button of the viewer.  The focus leaves the search field.  If the
\* list of bodies is now shorter than the position, drawing fails: the view is
\* blank and the rest is as it was.
ModalToggle ==
  /\ ModalOpen /\ modalTitle \in Formatted
  /\ modal' = [modal EXCEPT !.raw = ~@] /\ typing' = FALSE
  /\ \/ /\ modal.index \in DOMAIN detailBodies
        /\ RenderModalView(detailBodies[modal.index].body, modal'.raw, query)
     \/ /\ modal.index \notin DOMAIN detailBodies
        /\ modalHost' = NoBody /\ UNCHANGED <<modalCm, searchHits, searchIdx, bmCount>>
  /\ UNCHANGED <<paneVars, drawerVars, modalTitle, query>>

SearchFor(q) ==
  /\ ModalOpen /\ q # query
  /\ query' = q /\ typing' = TRUE
  /\ Search(modalCm, q)
  /\ UNCHANGED <<paneVars, drawerVars, modal, modalTitle, modalHost, modalCm>>

\* stepSearch(): the hits are a circle.
StepSearch(delta) ==
  /\ ModalOpen /\ searchHits > 0
  /\ searchIdx' = (searchIdx + delta + searchHits) % searchHits
  /\ bmCount' = <<searchIdx' + 1, searchHits>>
  /\ UNCHANGED <<paneVars, drawerVars, modal, modalTitle, modalHost, modalCm, query,
                 searchHits, typing>>

CloseBodyModal ==
  /\ ModalOpen
  /\ modal' = NoModal /\ modalHost' = NoBody /\ modalCm' = NoBody
  /\ searchHits' = 0 /\ searchIdx' = -1
  /\ UNCHANGED <<paneVars, drawerVars, modalTitle, query, bmCount, typing>>

\* The Escape key closes the viewer, or else the pane.
Escape == IF ModalOpen THEN CloseBodyModal ELSE paneOpen /\ CloseDetail

-----------------------------------------------------------------------------
DetailInit(none) ==
  /\ detail = none /\ detailBodies = <<>>
  /\ paneOpen = FALSE /\ detailCollapsed = FALSE
  /\ detailSpy = FALSE /\ spies = 0
  /\ modal = NoModal /\ modalTitle = NoBody /\ modalHost = NoBody /\ modalCm = NoBody
  /\ query = NoBody /\ searchHits = 0 /\ searchIdx = -1 /\ bmCount = <<>>
  /\ typing = FALSE /\ moved = FALSE

DetailTypeOK ==
  /\ modal.index \in Nat /\ modal.raw \in BOOLEAN
  /\ searchHits \in Nat /\ searchIdx \in -1 .. (searchHits - 1)
  /\ {detailSpy, paneOpen, detailCollapsed, typing, moved} \subseteq BOOLEAN
  /\ query \in Query \cup {NoBody}

\* At most one scroll spy polls, and it is the one that can be torn down:
\* rendering the details again and again leaves no loops behind.
AtMostOneSpy == spies = IF detailSpy THEN 1 ELSE 0

\* The viewer displays the body that its title names, unless the details were
\* rendered for another packet, or failed to be rendered, under it.
ModalShowsItsTitle ==
  (ModalOpen /\ ~moved) =>
    modalHost = [body |-> modalTitle, raw |-> modal.raw \/ modalTitle \notin Formatted]

\* The hits and the counter are those of the query in what is displayed, and
\* the current hit is one of them, also after the view was changed under a
\* query ("re-apply the current query", app.js:2172).
SearchAgrees ==
  (ModalOpen /\ ~moved) =>
    LET sought == ~modalHost.raw /\ query # NoBody
        hits == IF sought THEN Found[query][modalTitle] ELSE 0
    IN  /\ searchHits = hits
        /\ (searchIdx = -1) = (hits = 0) /\ searchIdx < searchHits
        /\ bmCount = IF ~sought THEN <<>> ELSE
                     IF hits = 0 THEN <<0>> ELSE <<searchIdx + 1, hits>>
==============================================================================
