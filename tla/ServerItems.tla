------------------------------ MODULE ServerItems ------------------------------
(***************************************************************************)
(* What the settings of the browser page share: the rules and dashboards   *)
(* that the server's configuration offers, those of them that the user has *)
(* switched off, and as much of the packet list as they are shown in.      *)
(*                                                                         *)
(* The page keeps each list of its settings twice, in a variable and in    *)
(* the browser's local storage; variables named stored... are the storage. *)
(* A rule or link is an id and its content.  The user acts at most         *)
(* MaxCommands times.                                                      *)
(***************************************************************************)
EXTENDS Naturals, FiniteSets, Sequences, Functions, SequencesExt

CONSTANTS
  SchemaId, LocalSchemaId,  \* ids of remote rules, ids minted by the page
  DashId, LocalDashId,      \* ids of remote links, ids minted by the page
  Content,                  \* what a rule or link says
  Offers,                   \* what the server may answer: records of partial
                            \* functions "schemas" and "dashboards"
  Packet, None,
  MaxCommands               \* bound: commands of the user

\* Partial functions from ids to contents.
Rules(ids) == UNION {[S -> Content] : S \in SUBSET ids}

ASSUME ServerItemsAssumption ==
  /\ SchemaId \cap LocalSchemaId = {} /\ DashId \cap LocalDashId = {}
  /\ None \notin SchemaId \cup LocalSchemaId \cup DashId \cup LocalDashId
  /\ None \notin Packet \cup Content
  /\ \A o \in Offers :
       /\ o.schemas \in Rules(SchemaId)
       /\ DOMAIN o.dashboards \subseteq DashId
  /\ MaxCommands \in Nat

VARIABLES
  serverSchemaRules,     \* state.serverSchemaRules
  serverDashboardLinks,  \* state.serverDashboardLinks
  config,                \* the request for them: "asked" or "done"
  disabled,              \* state.disabledServerItems
  storedDisabled,
  packets,               \* ids of state.packets
  filteredOut,           \* packets that the filters hide
  selectedId,            \* state.selectedId
  undrawn,               \* whether the details were last drawn in vain: an
                         \* exception ended it, or came before it
  commands

Nothing == <<>>
Without(f, ids) == Restrict(f, DOMAIN f \ ids)
\* The entries of f, and those of g whose ids f does not have.
Over(f, g) == [i \in DOMAIN f \cup DOMAIN g |-> IF i \in DOMAIN f THEN f[i] ELSE g[i]]
With(f, i, c) == Over([j \in {i} |-> c], f)

Command == commands < MaxCommands /\ commands' = commands + 1

\* The rows of the table, and the packet whose details are shown.
Rows == packets \ filteredOut
Shown == IF selectedId = None THEN {} ELSE {selectedId} \cap packets

ItemsInit ==
  /\ serverSchemaRules = Nothing /\ serverDashboardLinks = Nothing
  /\ config = "asked" /\ disabled = {} /\ storedDisabled = {}
  /\ packets = {} /\ filteredOut = {} /\ selectedId = None /\ undrawn = FALSE
  /\ commands = 0

\* loadServerConfig() until its rebuild.  A failure empties both lists.
ServerAnswers(offer) ==
  /\ config = "asked" /\ config' = "done"
  /\ serverSchemaRules' = offer.schemas
  /\ serverDashboardLinks' = offer.dashboards
  /\ UNCHANGED <<disabled, storedDisabled>>

\* Mutant: a switched item is not stored.
ToggleItem_notStored(key) ==
  /\ disabled' = (disabled \cup {key}) \ (disabled \cap {key})
  /\ UNCHANGED <<serverSchemaRules, serverDashboardLinks, config, storedDisabled>>
ToggleItem(key) ==
  /\ disabled' = (disabled \cup {key}) \ (disabled \cap {key})
  /\ storedDisabled' = disabled'
  /\ UNCHANGED <<serverSchemaRules, serverDashboardLinks, config>>

SchemaKey(id) == <<"schema", id>>
DashKey(id) == <<"dashboard", id>>
EnabledRules(f, off) == Restrict(f, {i \in DOMAIN f : SchemaKey(i) \notin off})
EnabledDashboards(f, off) == Restrict(f, {i \in DOMAIN f : DashKey(i) \notin off})

\* The page is loaded again: what is not stored is gone.
ItemsReload ==
  /\ serverSchemaRules' = Nothing /\ serverDashboardLinks' = Nothing
  /\ config' = "asked"
  /\ disabled' = storedDisabled /\ UNCHANGED storedDisabled
  /\ packets' = {} /\ selectedId' = None /\ UNCHANGED filteredOut

-----------------------------------------------------------------------------
(* The packet list: packets arrive, are filtered, selected and cleared. *)

Arrive(p) == packets' = packets \cup {p} /\ UNCHANGED <<filteredOut, selectedId>>
Filter(S) == filteredOut' = S /\ UNCHANGED <<packets, selectedId>>
Select(p) ==
  /\ p \in Rows
  /\ selectedId' = p /\ UNCHANGED <<packets, filteredOut>>
ClearList ==
  /\ packets' = {} /\ selectedId' = None /\ UNCHANGED filteredOut

listVars == <<packets, filteredOut, selectedId>>
itemVars == <<serverSchemaRules, serverDashboardLinks, config, disabled, storedDisabled>>

ItemsTypeOK ==
  /\ serverSchemaRules \in Rules(SchemaId)
  /\ DOMAIN serverDashboardLinks \subseteq DashId
  /\ config \in {"asked", "done"}
  /\ disabled \subseteq ({"schema"} \X SchemaId) \cup ({"dashboard"} \X DashId)
  /\ storedDisabled \subseteq ({"schema"} \X SchemaId) \cup ({"dashboard"} \X DashId)
  /\ packets \subseteq Packet /\ filteredOut \subseteq Packet
  /\ selectedId \in Packet \cup {None} /\ undrawn \in BOOLEAN
  /\ commands \in 0 .. MaxCommands
==============================================================================
