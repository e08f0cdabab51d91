------------------------------ MODULE PacketTable ------------------------------
(***************************************************************************)
(* The table of packets in the browser page: filters, sorting, the run     *)
(* that is selected, and the rows, which are appended one by one as        *)
(* packets arrive or built anew from state.packets.                        *)
(*                                                                         *)
(* Filters are of two kinds: facets, which apply when they are clicked     *)
(* (type, method, status, failed), and typed ones (text, latency), which   *)
(* apply 150 ms after the last keystroke; blanks around a text and the     *)
(* choice to search bodies are left out.  Every packet has a run.  A row   *)
(* is a record of its packet, its highlight and the scale of its bar.      *)
(*                                                                         *)
(* A row shows whether its packet conforms to the rules in force, and to   *)
(* find the rule of a packet its URL and the patterns are decoded, which   *)
(* throws on a malformed "%".  The exception ends whatever was drawing.    *)
(***************************************************************************)
EXTENDS Integers, FiniteSets, Sequences, Functions, SequencesExt, Subsequences

CONSTANTS
  Packet, Run, RunOf, None,
  Arrival,        \* all packets, in the order in which the server has them
  SortKey, Value, \* Value[k][p]: what the column k of packet p sorts by
  Elapsed,        \* duration of each packet
  Facet, HasFacet,\* HasFacet[f]: packets that pass facet f
  Group, Multi,   \* the group of each facet; groups of which several may be set
  Typed, Text, Matching,  \* Matching[f][v]: packets that pass filter f at v
  Stored,         \* filters that an earlier visit may have left in the storage
  Undrawable,     \* the sets of packets whose rows some rules fail to draw
  Load            \* bound: calls of loadRecent() under way at once

ASSUME PacketTableAssumption ==
  /\ RunOf \in [Packet -> Run] /\ None \notin Run \cup Packet \cup SortKey \cup Text
  /\ Value \in [SortKey -> [Packet -> Int]] /\ Elapsed \in [Packet -> Nat]
  /\ HasFacet \in [Facet -> SUBSET Packet] /\ Facet \subseteq DOMAIN Group
  /\ Matching \in [Typed -> [Text -> SUBSET Packet]]
  /\ Arrival \in Seq(Packet) /\ IsInjective(Arrival)
  /\ Stored \subseteq [facets : SUBSET Facet, typed : [Typed -> Text \cup {None}]]
  /\ Undrawable \subseteq SUBSET Packet

VARIABLES
  packets,           \* state.packets
  selectedRunId,
  selectedId,
  facets, typed,     \* state.filter: the facets that are set, and the typed ones
  typedControl,      \* what the input fields hold
  timer,             \* typed filters whose debounce timer runs
  storedFilter,
  tags,              \* the filters whose tags are shown
  undrawable,        \* packets whose rows the rules in force fail to draw
  sort,              \* state.sort
  rebuildScheduled,  \* a frame is requested for a rebuild
  maxElapsed,
  rows,              \* the rows of the table
  emptyRow,          \* whether it says that the filters hide everything
  count,             \* the counter above it
  loads,             \* stage of each loadRecent()
  unbuilt,           \* history: the rows were wiped, the list emptied, or a
                     \* load cut short, and no row built anew since
  unsaved            \* history: drawing failed when a filter was last changed

controlVars == <<typed, typedControl, timer>>
filterVars == <<facets, controlVars, storedFilter, tags, unsaved>>
rowVars == <<rows, emptyRow, count, unbuilt>>
tableVars == <<packets, selectedRunId, selectedId, filterVars, undrawable, sort,
               rebuildScheduled, maxElapsed, rowVars, loads>>

Unsorted == [key |-> None, dir |-> "asc"]
NoText == [f \in Typed |-> None]

-----------------------------------------------------------------------------
(* What the table is built from *)

\* The places in the list ps of the packets of the run, or of all packets.
Visible(ps, run) == {i \in DOMAIN ps : run \in {None, RunOf[ps[i]]}}

\* Groups combine with AND, the facets of one group with OR.
MatchesFilter(p, fs, ts) ==
  /\ \A f \in fs : \E g \in fs : Group[g] = Group[f] /\ p \in HasFacet[g]
  /\ \A f \in Typed : ts[f] # None => p \in Matching[f][ts[f]]

\* The places of those that pass the filter.
Passing(ps, run, fs, ts) == {i \in Visible(ps, run) : MatchesFilter(ps[i], fs, ts)}

\* A stable sort: packets that compare equal stay in the order of ps.
SortOrder(ps, s) ==
  LET Compare(p, q) == IF s.key = None THEN 0 ELSE
                       IF s.dir = "desc" THEN Value[s.key][q] - Value[s.key][p]
                                         ELSE Value[s.key][p] - Value[s.key][q]
      Before(i, j) == LET d == Compare(ps[i], ps[j]) IN d < 0 \/ (d = 0 /\ i < j)
  IN  {e \in (DOMAIN ps) \X (DOMAIN ps) : Before(e[1], e[2])}

Row(p, id, scale) == [id |-> p, selected |-> p = id, scale |-> scale]

-----------------------------------------------------------------------------
(* Drawing.  These run on the values that the step ends with. *)

\* The places of those that pass but cannot be drawn.
Failing(ps, run, fs, ts, bad) == {i \in Passing(ps, run, fs, ts) : ps[i] \in bad}
RebuildThrows == Failing(packets', selectedRunId', facets', typed', undrawable') # {}

\* The old rows are gone before the first is drawn.  The exception leaves out
\* the row of the packet and all after it, the counter and the notice; there
\* was a packet, so the notice would not have been shown.
RebuildList ==
  LET visible == Visible(packets', selectedRunId')
      passing == Passing(packets', selectedRunId', facets', typed')
      failing == Failing(packets', selectedRunId', facets', typed', undrawable')
      order == SortOrder(packets', sort')
      drawn == {i \in passing : \A j \in failing : <<i, j>> \in order}
      ps == Arranged(packets', drawn, order)
  IN  /\ rows' = [n \in DOMAIN ps |-> Row(ps[n], selectedId', maxElapsed')]
      /\ count' = IF RebuildThrows THEN count
                  ELSE [shown |-> Len(ps), total |-> Cardinality(visible)]
      /\ emptyRow' = (passing = {} /\ visible # {})
      /\ unbuilt' = FALSE

\* The rest of the state that a filter or sort handler leaves alone.
KeepList == UNCHANGED <<packets, selectedRunId, selectedId, maxElapsed, loads,
                        rebuildScheduled, undrawable>>

\* rescaleWaterfalls()
\* Mutant: bars that are drawn keep their scale.
Rescaled_not(scale) == rows
Rescaled(scale) == [n \in DOMAIN rows |-> [rows[n] EXCEPT !.scale = scale]]

\* Whether addPacket() appends a row for p at once.
Appends(p) ==
  /\ selectedRunId \in {None, RunOf[p]} /\ sort.key = None
  /\ MatchesFilter(p, facets, typed)

\* addPacket() for a packet that was not seen before.  If its row cannot be
\* drawn, the notice has been removed and the counter is not reached.
AddPacket(p) ==
  LET longest == IF Elapsed[p] > maxElapsed THEN Elapsed[p] ELSE maxElapsed
      old == Rescaled(longest)
      listed == Append(packets, p)
      visible == Visible(listed, selectedRunId)
      passing == Passing(listed, selectedRunId, facets, typed)
  IN  /\ packets' = listed /\ maxElapsed' = longest
      /\ IF selectedRunId \notin {None, RunOf[p]} THEN
           /\ rows' = old /\ UNCHANGED <<emptyRow, rebuildScheduled>>
           /\ count' = [shown |-> Cardinality(passing), total |-> Cardinality(visible)]
         ELSE IF sort.key # None THEN
           /\ rebuildScheduled' = TRUE
           /\ rows' = old /\ UNCHANGED <<emptyRow, count>>
         ELSE IF Appends(p) /\ p \in undrawable THEN
           /\ rows' = old /\ emptyRow' = FALSE
           /\ UNCHANGED <<count, rebuildScheduled>>
         ELSE
           /\ rows' = IF Appends(p) THEN Append(old, Row(p, selectedId, longest)) ELSE old
           /\ emptyRow' = (emptyRow /\ ~Appends(p))
           /\ count' = [shown |-> Len(rows'), total |-> Cardinality(visible)]
           /\ UNCHANGED rebuildScheduled

\* A packet of the stream; one that is in the list already is ignored.
Live(p) ==
  /\ p \notin Range(packets)
  /\ AddPacket(p)
  /\ UNCHANGED <<selectedRunId, selectedId, filterVars, undrawable, sort, loads, unbuilt>>

\* The frame that a sorted table has asked for.
Frame ==
  /\ rebuildScheduled /\ rebuildScheduled' = FALSE
  /\ UNCHANGED <<packets, selectedRunId, selectedId, filterVars, undrawable, sort,
                 maxElapsed, loads>>
  /\ RebuildList

-----------------------------------------------------------------------------
(* Filters and sorting *)

Filter(fs, ts) == [facets |-> fs, typed |-> ts]

\* onFilterChange(), once facets' and typed' are given: rows, tags, storage.
OnFilterChange ==
  /\ KeepList /\ UNCHANGED sort
  /\ RebuildList
  /\ unsaved' = RebuildThrows
  /\ IF RebuildThrows THEN UNCHANGED <<storedFilter, tags>>
     ELSE /\ tags' = Filter(facets', typed')
          /\ storedFilter' = Filter(facets', typed')

\* A facet is clicked.
ToggleFacet(f) ==
  LET replaced == {g \in facets : Group[g] = Group[f] /\ Group[f] \notin Multi} IN
  /\ facets' = IF f \in facets THEN facets \ {f} ELSE (facets \ replaced) \cup {f}
  /\ UNCHANGED controlVars
  /\ OnFilterChange

\* The tag of a facet, which may be an old one, clears that facet or its group.
RemoveFacetTag(f) ==
  /\ f \in tags.facets
  /\ facets' = {g \in facets : Group[g] # Group[f] \/ (Group[f] \in Multi /\ g # f)}
  /\ UNCHANGED controlVars
  /\ OnFilterChange

\* A keystroke in an input field starts the timer anew.
Type(f, v) ==
  /\ v # typedControl[f]
  /\ typedControl' = [typedControl EXCEPT ![f] = v]
  /\ timer' = timer \cup {f}
  /\ KeepList
  /\ UNCHANGED <<facets, typed, storedFilter, tags, unsaved, sort, rowVars>>

\* The timer reads the field when it fires, not when it was started.
TimerFires(f) ==
  /\ f \in timer /\ timer' = timer \ {f}
  /\ typed' = [typed EXCEPT ![f] = typedControl[f]]
  /\ UNCHANGED <<facets, typedControl>>
  /\ OnFilterChange

\* The tag of a typed filter.
RemoveTag(f) ==
  /\ tags.typed[f] # None
  /\ typed' = [typed EXCEPT ![f] = None]
  /\ typedControl' = [typedControl EXCEPT ![f] = None]
  /\ UNCHANGED <<facets, timer>>
  /\ OnFilterChange

\* Timers that run go on running.
\* Mutant: the fields keep what was typed.
ResetFilters_keepsFields ==
  /\ facets' = {} /\ typed' = NoText /\ UNCHANGED typedControl
  /\ UNCHANGED timer
  /\ OnFilterChange
ResetFilters ==
  /\ facets' = {} /\ typed' = NoText /\ typedControl' = NoText
  /\ UNCHANGED timer
  /\ OnFilterChange

\* toggleSort(): ascending, descending, off.
ToggleSort(k) ==
  /\ sort' = CASE sort.key # k        -> [key |-> k, dir |-> "asc"]
               [] sort = [key |-> k, dir |-> "asc"] -> [sort EXCEPT !.dir = "desc"]
               [] OTHER               -> Unsorted
  /\ KeepList /\ UNCHANGED filterVars
  /\ RebuildList

-----------------------------------------------------------------------------
(* Runs, loads and the clear button *)

\* selectRun() until its load.  The page's other parts: see TrafficView.
SelectRun(r, l) ==
  /\ loads[l] = "idle" /\ loads' = [loads EXCEPT ![l] = "asked"]
  /\ selectedRunId' = r /\ selectedId' = None
  /\ rows' = <<>> /\ emptyRow' = FALSE /\ unbuilt' = TRUE
  /\ UNCHANGED <<packets, filterVars, undrawable, sort, rebuildScheduled, maxElapsed, count>>

\* loadRecent(): the answer is there; the list is emptied, not the table.
LoadEmpties(l) ==
  /\ loads[l] = "asked" /\ loads' = [loads EXCEPT ![l] = "emptied"]
  /\ packets' = <<>> /\ unbuilt' = TRUE
  /\ UNCHANGED <<selectedRunId, selectedId, filterVars, undrawable, sort,
                 rebuildScheduled, maxElapsed, rows, emptyRow, count>>

\* The packets that a load may bring, the oldest first.
Answers == {Only(Arrival, S) : S \in SUBSET Range(Arrival)}

\* The packets are added one after the other and the table is built anew,
\* which undoes what the single additions did to it.
LoadFills(l, recent) ==
  LET new == Only(recent, Packet \ Range(packets)) IN
  /\ loads[l] = "emptied" /\ loads' = [loads EXCEPT ![l] = "idle"]
  /\ \A p \in Range(new) : ~(Appends(p) /\ p \in undrawable)
  /\ packets' = packets \o new
  /\ maxElapsed' = Max({maxElapsed} \cup {Elapsed[p] : p \in Range(new)})
  /\ rebuildScheduled' = (rebuildScheduled \/
       (sort.key # None /\ \E p \in Range(new) : selectedRunId \in {None, RunOf[p]}))
  /\ UNCHANGED <<selectedRunId, selectedId, filterVars, undrawable, sort>>
  /\ RebuildList

\* The row of the k-th cannot be drawn: those before it have been added one by
\* one, the rest never are, and the table is not built anew.
LoadStops(l, recent) ==
  LET new == Only(recent, Packet \ Range(packets)) IN
  /\ loads[l] = "emptied" /\ loads' = [loads EXCEPT ![l] = "idle"]
  /\ \E k \in DOMAIN new :
       LET before == SubSeq(new, 1, k - 1)
           listed == packets \o before
           appended == Only(before, {p \in Packet : Appends(p)})
       IN  /\ Appends(new[k]) /\ new[k] \in undrawable
           /\ \A p \in Range(before) : ~(Appends(p) /\ p \in undrawable)
           /\ packets' = packets \o SubSeq(new, 1, k)
           /\ maxElapsed' = Max({maxElapsed} \cup {Elapsed[new[n]] : n \in 1 .. k})
           /\ rows' = Rescaled(maxElapsed') \o
                [n \in DOMAIN appended |-> Row(appended[n], selectedId, maxElapsed')]
           /\ count' = IF k = 1 THEN count ELSE
                [shown |-> IF selectedRunId \in {None, RunOf[new[k - 1]]} THEN Len(rows')
                           ELSE Cardinality(Passing(listed, selectedRunId, facets, typed)),
                 total |-> Cardinality(Visible(listed, selectedRunId))]
  /\ emptyRow' = FALSE /\ unbuilt' = TRUE
  /\ UNCHANGED <<selectedRunId, selectedId, filterVars, undrawable, sort, rebuildScheduled>>

LoadFails(l) ==
  /\ loads[l] \in {"asked", "emptied"} /\ loads' = [loads EXCEPT ![l] = "idle"]
  /\ UNCHANGED <<packets, selectedRunId, selectedId, filterVars, undrawable, sort,
                 rebuildScheduled, maxElapsed, rowVars>>

\* The clear button, as far as the table is concerned.
ClearTable ==
  /\ packets' = <<>> /\ selectedRunId' = None /\ selectedId' = None
  /\ maxElapsed' = 1 /\ rows' = <<>> /\ emptyRow' = FALSE
  /\ count' = [shown |-> 0, total |-> 0] /\ unbuilt' = FALSE
  /\ UNCHANGED <<filterVars, undrawable, sort, rebuildScheduled, loads>>

-----------------------------------------------------------------------------
(* Selection *)

Highlighted(id) == [n \in DOMAIN rows |-> [rows[n] EXCEPT !.selected = (rows[n].id = id)]]

\* selectPacket() by a click on a row, as far as the table is concerned.  Rules
\* under which a row was drawn draw its details too.
SelectRow(n) ==
  /\ n \in DOMAIN rows
  /\ selectedId' = rows[n].id
  /\ rows' = Highlighted(rows[n].id)
  /\ UNCHANGED <<packets, selectedRunId, filterVars, undrawable, sort, rebuildScheduled,
                 maxElapsed, emptyRow, count, unbuilt, loads>>

\* moveSelection(): from the highlighted row, or from outside the table.
MovesTo(delta) ==
  LET at == SelectInSeq(rows, LAMBDA r : r.id = selectedId) IN
  IF at = 0 THEN (IF delta > 0 THEN 1 ELSE Len(rows))
  ELSE Min({Len(rows), Max({1, at + delta})})

-----------------------------------------------------------------------------
\* loadFilters() sets the filter and the fields from the storage, and the tags
\* are drawn.
TableInit ==
  /\ packets = <<>> /\ selectedRunId = None /\ selectedId = None
  /\ storedFilter \in Stored /\ facets = storedFilter.facets
  /\ typed = storedFilter.typed /\ typedControl = typed /\ timer = {}
  /\ tags = storedFilter /\ undrawable \in Undrawable /\ unsaved = FALSE
  /\ sort = Unsorted /\ rebuildScheduled = FALSE /\ maxElapsed = 1
  /\ rows = <<>> /\ emptyRow = FALSE /\ count = [shown |-> 0, total |-> 0]
  /\ loads = [l \in Load |-> "idle"] /\ unbuilt = FALSE

TableTypeOK ==
  /\ packets \in Seq(Packet)
  /\ selectedRunId \in Run \cup {None} /\ selectedId \in Packet \cup {None}
  /\ facets \subseteq Facet /\ typed \in [Typed -> Text \cup {None}]
  /\ typedControl \in [Typed -> Text \cup {None}] /\ timer \subseteq Typed
  /\ sort \in [key : SortKey \cup {None}, dir : {"asc", "desc"}]
  /\ undrawable \in Undrawable
  /\ rebuildScheduled \in BOOLEAN /\ maxElapsed \in Nat
  /\ loads \in [Load -> {"idle", "asked", "emptied"}]
  /\ rows \in Seq([id : Packet, selected : BOOLEAN, scale : Nat])

-----------------------------------------------------------------------------
\* Once no rebuild is due, the table shows only packets of the selected run
\* that match the filter, each once and in the chosen order, however its rows
\* came there; and if each of them can be drawn, it shows all of them, as if it
\* had just been built, and the counter says so.
RowsAreCurrent ==
  (~rebuildScheduled /\ ~unbuilt) =>
    LET visible == {p \in Range(packets) : selectedRunId \in {None, RunOf[p]}}
        matching == {p \in visible : MatchesFilter(p, facets, typed)}
        shown == {rows[n].id : n \in DOMAIN rows}
        Place(p) == CHOOSE i \in DOMAIN packets : packets[i] = p
    IN  /\ shown \subseteq matching
        /\ Len(rows) = Cardinality(shown)
        /\ \A i, j \in DOMAIN rows : i < j =>
             LET d == IF sort.key = None THEN 0
                      ELSE Value[sort.key][rows[i].id] - Value[sort.key][rows[j].id]
             IN  \/ IF sort.dir = "asc" THEN d < 0 ELSE d > 0
                 \/ d = 0 /\ Place(rows[i].id) < Place(rows[j].id)
        /\ matching \cap undrawable = {} =>
             /\ shown = matching
             /\ count = [shown |-> Cardinality(matching), total |-> Cardinality(visible)]

\* The row of the selected packet, and no other, is highlighted, even while
\* rows are appended or built anew; timing bars share one scale, so that they
\* compare, and none is longer than its cell (app.js:566).  No row is there
\* that the rules in force could not draw: none outlives the rules of its badge.
RowsAgree ==
  \A n \in DOMAIN rows :
    /\ rows[n].selected = (rows[n].id = selectedId)
    /\ rows[n].scale = maxElapsed
    /\ Elapsed[rows[n].id] <= maxElapsed
    /\ rows[n].id \notin undrawable

\* "No packets match" is never said beside a packet, or of an empty list.
EmptyNoticeIsTrue == emptyRow => rows = <<>> /\ (unbuilt \/ packets # <<>>)

\* Once no timer runs, the input fields hold the filter in force, a reset
\* between a keystroke and its timer included; and unless drawing failed on the
\* last change of a filter, the storage and the tags hold it too.
ControlsAgree ==
  /\ timer = {} => typedControl = typed
  /\ ~unsaved => storedFilter = Filter(facets, typed) /\ tags = Filter(facets, typed)
==============================================================================
