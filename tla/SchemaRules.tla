------------------------------ MODULE SchemaRules ------------------------------
(***************************************************************************)
(* The schema rules of the browser page: rules of the server's             *)
(* configuration, of URLs the user loads, and local ones; edits of remote  *)
(* rules kept as overrides; and what is drawn from them, the settings list *)
(* and the verdicts on packets, which are cached per packet.               *)
(*                                                                         *)
(* A verdict is represented by the rules it was reached with: it is right  *)
(* when those are the rules in force.  The page counts versions of its     *)
(* rules and compares a cached verdict's version with the current one;     *)
(* here a cached verdict is fresh until the rules are computed again.      *)
(*                                                                         *)
(* Comparing a packet's URL with a rule's pattern may throw, and then the  *)
(* row or the details that wanted the verdict are not drawn, nor anything  *)
(* that the handler would have done after them.                            *)
(***************************************************************************)
EXTENDS ServerItems

CONSTANTS
  Url, Served,  \* what each URL may serve: a set of partial functions
  Fetch,        \* bound: fetches of URLs under way at once
  Throws        \* of each packet: the rules that it cannot be compared with

ASSUME SchemaRulesAssumption ==
  /\ None \notin Url
  /\ \A u \in Url : Served[u] \subseteq Rules(SchemaId) \ {Nothing}
  /\ Throws \in [Packet -> SUBSET Content]

VARIABLES
  urlSchemaSources,     \* sequence of [url, rules], latest loaded last
  localSchemaRules,
  schemaOverrides,      \* edits of remote rules
  editingSchemaRuleId,
  schemaRules,          \* the effective rules, used by the validator
  packetCache,          \* of each packet: the last verdict, and if it is fresh
  rowVerdict,           \* verdicts in the table: the packets in its rows
  detailVerdict,        \* verdict in the detail pane: the packet shown there
  schemaList,           \* the list of rules in the settings
  storedSchema,         \* local storage: sources, local rules and overrides
  fetches,              \* loadSchemaRulesFromUrl() calls
  \* history
  edits,                \* the edits the user has made and not reset
  newest,               \* of each URL: what the newest fetch of it was answered
  raced                 \* URLs with two operations under way at once

settingVars == <<urlSchemaSources, localSchemaRules, schemaOverrides>>
verdictVars == <<packetCache, rowVerdict, detailVerdict, undrawn>>
drawnVars == <<schemaRules, verdictVars, schemaList>>
fetchVars == <<fetches, newest, raced>>
schemaVars == <<settingVars, drawnVars, fetchVars, editingSchemaRuleId,
                storedSchema, edits>>

Idle == [url |-> None, stage |-> "idle", rules |-> Nothing]

-----------------------------------------------------------------------------
(* The rules in force *)

\* allRemoteSchemaRules(): a later source wins over an earlier one.
\* Mutant: the first source with an id wins.
AllRemote_firstWins(server, sources) ==
  LET merged[n \in 0 .. Len(sources)] ==
        IF n = 0 THEN server ELSE Over(merged[n - 1], sources[n].rules)
  IN  merged[Len(sources)]
AllRemote(server, sources) ==
  LET merged[n \in 0 .. Len(sources)] ==
        IF n = 0 THEN server ELSE Over(sources[n].rules, merged[n - 1])
  IN  merged[Len(sources)]

\* effectiveSchemaRule(): an override takes the place of what it edits.
WithOverrides(rules, overrides) ==
  [i \in DOMAIN rules |-> IF i \in DOMAIN overrides THEN overrides[i] ELSE rules[i]]

Effective(server, sources, overrides, local, off) ==
  Over(local, WithOverrides(EnabledRules(AllRemote(server, sources), off), overrides))

SourceUrls(sources) == {sources[n].url : n \in DOMAIN sources}

\* What the list in the settings shows: every rule, which of them are
\* switched off or edited, and which one is highlighted.
Listing(server, sources, overrides, local, off, editing) ==
  LET remote == AllRemote(server, sources) IN
  [rules |-> Over(local, WithOverrides(remote, overrides)),
   off |-> {i \in DOMAIN remote : SchemaKey(i) \in off},
   overridden |-> DOMAIN remote \cap DOMAIN overrides,
   sources |-> SourceUrls(sources),
   editing |-> editing]

-----------------------------------------------------------------------------
(* Validation and what is drawn *)

NoVerdict == [rules |-> Nothing, fresh |-> FALSE]
\* validatePacket(): a cached verdict is used while it is fresh.
Validated(entry, rules) ==
  IF entry.fresh THEN entry ELSE [rules |-> rules, fresh |-> TRUE]
\* Mutant: the version is not raised.
Stale_fresh(entry) == entry
Stale(entry) == [entry EXCEPT !.fresh = FALSE]

\* The packets for which computeValidation() throws.
Undrawable(rules) == {p \in Packet : Range(rules) \cap Throws[p] # {}}

\* rebuildList(): every row, or those before the first that cannot be drawn,
\* which depend on the order of the table.
RowsDrawn(failing) ==
  IF Rows' \cap failing = {} THEN {Rows'} ELSE SUBSET (Rows' \ failing)

\* The rows, the detail pane or both, in this order, are drawn with the given
\* rules; bump when these were just computed.
Draw(rules, bump, what) ==
  LET old == [p \in Packet |-> IF bump THEN Stale(packetCache[p]) ELSE packetCache[p]]
      failing == {p \in Undrawable(rules) : ~old[p].fresh}
      cut == "rows" \in what /\ Rows' \cap failing # {}
      details == "detail" \in what /\ ~cut /\ Shown' \cap failing = {}
      Verdict(p) == packetCache'[p].rules
  IN  \E rows \in IF "rows" \in what THEN RowsDrawn(failing) ELSE {{}} :
        LET drawn == rows \cup (IF details THEN Shown' ELSE {}) IN
        /\ packetCache' =
             [p \in Packet |-> IF p \in drawn THEN Validated(old[p], rules) ELSE old[p]]
        /\ rowVerdict' = IF "rows" \in what THEN [p \in rows |-> Verdict(p)] ELSE rowVerdict
        /\ detailVerdict' = IF details THEN [p \in Shown' |-> Verdict(p)] ELSE detailVerdict
        /\ undrawn' = IF "detail" \in what THEN ~details ELSE undrawn

RenderSchemaRules(editing) ==
  schemaList' = Listing(serverSchemaRules', urlSchemaSources', schemaOverrides',
                        localSchemaRules', disabled', editing)

\* refreshSchemaViews(); editing is what is being edited while it runs.
RefreshSchemaViews(editing) ==
  /\ schemaRules' = Effective(serverSchemaRules', urlSchemaSources', schemaOverrides',
                              localSchemaRules', disabled')
  /\ RenderSchemaRules(editing)
  /\ Draw(schemaRules', TRUE, {"rows", "detail"})

\* rebuildList() or renderDetail() on rules as they are.
Redraw(what) ==
  /\ Draw(schemaRules, FALSE, what)
  /\ UNCHANGED <<settingVars, schemaRules, schemaList, fetchVars,
                 editingSchemaRuleId, storedSchema, edits>>

\* appendRow() for a packet that has arrived.
AppendRow(p) ==
  LET fails == p \in Undrawable(schemaRules) /\ ~packetCache[p].fresh IN
  /\ IF p \in Rows' /\ ~fails
     THEN /\ packetCache' = [packetCache EXCEPT ![p] = Validated(@, schemaRules)]
          /\ rowVerdict' = With(rowVerdict, p, packetCache'[p].rules)
     ELSE UNCHANGED <<packetCache, rowVerdict>>
  /\ UNCHANGED <<detailVerdict, undrawn, settingVars, schemaRules, schemaList, fetchVars,
                 editingSchemaRuleId, storedSchema, edits>>

\* The clear button also empties the cache.
ClearCache ==
  /\ packetCache' = [p \in Packet |-> NoVerdict]
  /\ rowVerdict' = Nothing /\ detailVerdict' = Nothing /\ undrawn' = FALSE
  /\ UNCHANGED <<settingVars, schemaRules, schemaList, fetchVars,
                 editingSchemaRuleId, storedSchema, edits>>

-----------------------------------------------------------------------------
(* Editing *)

Remote == AllRemote(serverSchemaRules, urlSchemaSources)

\* startEditSchemaRule(): any rule of the list.
StartEditRule(i) ==
  /\ i \in DOMAIN schemaList.rules
  /\ i \in DOMAIN Remote \cup DOMAIN localSchemaRules
  /\ editingSchemaRuleId' = i
  /\ UNCHANGED <<schemaRules, verdictVars, fetchVars, storedSchema, edits>>
  /\ UNCHANGED settingVars /\ RenderSchemaRules(i)

CancelEditRule ==
  /\ editingSchemaRuleId # None
  /\ editingSchemaRuleId' = None
  /\ UNCHANGED <<schemaRules, verdictVars, fetchVars, storedSchema, edits>>
  /\ UNCHANGED settingVars /\ RenderSchemaRules(None)

\* The Save button with nothing being edited, a local rule, or a remote one.
\* The list is drawn before the editing ends, which an exception prevents.
EditingAfterRefresh == IF undrawn' THEN editingSchemaRuleId ELSE None
AddRule(i, c) ==
  /\ editingSchemaRuleId = None /\ i \in LocalSchemaId \ DOMAIN localSchemaRules
  /\ localSchemaRules' = With(localSchemaRules, i, c)
  /\ storedSchema' = [storedSchema EXCEPT !.local = localSchemaRules']
  /\ UNCHANGED <<urlSchemaSources, schemaOverrides, editingSchemaRuleId, fetchVars, edits>>
  /\ RefreshSchemaViews(None)

UpdateLocalRule(c) ==
  /\ editingSchemaRuleId \in DOMAIN localSchemaRules
  /\ localSchemaRules' = [localSchemaRules EXCEPT ![editingSchemaRuleId] = c]
  /\ storedSchema' = [storedSchema EXCEPT !.local = localSchemaRules']
  /\ UNCHANGED <<urlSchemaSources, schemaOverrides, fetchVars, edits>>
  /\ RefreshSchemaViews(editingSchemaRuleId)
  /\ editingSchemaRuleId' = EditingAfterRefresh

\* Whatever is not a local rule is taken for a remote one, even if its source
\* has gone in the meantime.
OverrideRule(c) ==
  /\ editingSchemaRuleId \notin {None} \cup DOMAIN localSchemaRules
  /\ schemaOverrides' = With(schemaOverrides, editingSchemaRuleId, c)
  /\ edits' = With(edits, editingSchemaRuleId, c)
  /\ storedSchema' = [storedSchema EXCEPT !.overrides = schemaOverrides']
  /\ UNCHANGED <<urlSchemaSources, localSchemaRules, fetchVars>>
  /\ RefreshSchemaViews(editingSchemaRuleId)
  /\ editingSchemaRuleId' = EditingAfterRefresh

EditingUnless(i) == IF editingSchemaRuleId = i THEN None ELSE editingSchemaRuleId

\* The Reset button of an edited rule.
ResetRule(i) ==
  /\ i \in schemaList.overridden
  /\ schemaOverrides' = Without(schemaOverrides, {i}) /\ edits' = Without(edits, {i})
  /\ storedSchema' = [storedSchema EXCEPT !.overrides = schemaOverrides']
  /\ editingSchemaRuleId' = EditingUnless(i)
  /\ UNCHANGED <<urlSchemaSources, localSchemaRules, fetchVars>>
  /\ RefreshSchemaViews(editingSchemaRuleId')

\* The Delete button of a local rule.
DeleteRule(i) ==
  /\ i \in DOMAIN localSchemaRules \cap DOMAIN schemaList.rules
  /\ localSchemaRules' = Without(localSchemaRules, {i})
  /\ storedSchema' = [storedSchema EXCEPT !.local = localSchemaRules']
  /\ editingSchemaRuleId' = EditingUnless(i)
  /\ UNCHANGED <<urlSchemaSources, schemaOverrides, fetchVars, edits>>
  /\ RefreshSchemaViews(editingSchemaRuleId')

-----------------------------------------------------------------------------
(* URL sources *)

InFlight(u) == {f \in Fetch : fetches[f].url = u}
\* The Load button and a source's Refresh button.
AskUrl(f, u) ==
  /\ fetches[f] = Idle
  /\ fetches' = [fetches EXCEPT ![f] = [url |-> u, stage |-> "asked", rules |-> Nothing]]
  /\ raced' = raced \cup {v \in {u} : InFlight(u) # {}}
  /\ UNCHANGED <<settingVars, drawnVars, editingSchemaRuleId, storedSchema, edits, newest>>

UrlAnswers(f, rules) ==
  /\ fetches[f].stage = "asked" /\ rules \in Served[fetches[f].url]
  /\ fetches' = [fetches EXCEPT ![f].stage = "answered", ![f].rules = rules]
  /\ newest' = [newest EXCEPT ![fetches[f].url] = rules]
  /\ UNCHANGED <<settingVars, drawnVars, editingSchemaRuleId, storedSchema, edits, raced>>

\* An error, another version than 1, or no valid rule: nothing changes.
UrlFails(f) ==
  /\ fetches[f].stage = "asked"
  /\ fetches' = [fetches EXCEPT ![f] = Idle]
  /\ UNCHANGED <<settingVars, drawnVars, editingSchemaRuleId, storedSchema, edits, newest, raced>>

\* The sources of other URLs, in their order.
OtherSources(sources, u) ==
  LET others[n \in 0 .. Len(sources)] ==
        IF n = 0 THEN <<>>
        ELSE IF sources[n].url = u THEN others[n - 1]
        ELSE Append(others[n - 1], sources[n])
  IN  others[Len(sources)]

\* Mutant: a source that is loaded again stays where it was listed, and its
\* old rules with it.
AddSource_keepsOld(u, rules) == Append(urlSchemaSources, [url |-> u, rules |-> rules])
AddSource(u, rules) == Append(OtherSources(urlSchemaSources, u), [url |-> u, rules |-> rules])

\* loadSchemaRulesFromUrl() after its awaits.
FillSource(f) ==
  /\ fetches[f].stage = "answered"
  /\ urlSchemaSources' = AddSource(fetches[f].url, fetches[f].rules)
  /\ storedSchema' = [storedSchema EXCEPT !.sources = urlSchemaSources']
  /\ fetches' = [fetches EXCEPT ![f] = Idle]
  /\ UNCHANGED <<localSchemaRules, schemaOverrides, editingSchemaRuleId, edits, newest, raced>>
  /\ RefreshSchemaViews(editingSchemaRuleId)

RemoveSource(u) ==
  /\ u \in schemaList.sources
  /\ urlSchemaSources' = OtherSources(urlSchemaSources, u)
  /\ storedSchema' = [storedSchema EXCEPT !.sources = urlSchemaSources']
  /\ newest' = [newest EXCEPT ![u] = Nothing]
  /\ raced' = raced \cup {v \in {u} : InFlight(u) # {}}
  /\ UNCHANGED <<localSchemaRules, schemaOverrides, editingSchemaRuleId, edits, fetches>>
  /\ RefreshSchemaViews(editingSchemaRuleId)

-----------------------------------------------------------------------------
SchemaInit ==
  /\ urlSchemaSources = <<>> /\ localSchemaRules = Nothing /\ schemaOverrides = Nothing
  /\ editingSchemaRuleId = None /\ schemaRules = Nothing
  /\ packetCache = [p \in Packet |-> NoVerdict]
  /\ rowVerdict = Nothing /\ detailVerdict = Nothing
  /\ schemaList = Listing(Nothing, <<>>, Nothing, Nothing, {}, None)
  /\ storedSchema = [sources |-> <<>>, local |-> Nothing, overrides |-> Nothing]
  /\ fetches = [f \in Fetch |-> Idle]
  /\ edits = Nothing /\ newest = [u \in Url |-> Nothing] /\ raced = {}

\* Loading the page: the settings come from the storage, the validator has
\* them at once, and the list is drawn when the server's rules have come; until
\* then it is empty.
SchemaReload ==
  /\ urlSchemaSources' = storedSchema.sources
  /\ localSchemaRules' = storedSchema.local
  /\ schemaOverrides' = storedSchema.overrides
  /\ editingSchemaRuleId' = None
  /\ schemaRules' = Effective(Nothing, urlSchemaSources', schemaOverrides',
                              localSchemaRules', storedDisabled)
  /\ schemaList' = Listing(Nothing, <<>>, Nothing, Nothing, {}, None)
  /\ packetCache' = [p \in Packet |-> NoVerdict]
  /\ rowVerdict' = Nothing /\ detailVerdict' = Nothing /\ undrawn' = FALSE
  /\ fetches' = [f \in Fetch |-> Idle]
  /\ raced' = raced \cup {u \in Url : InFlight(u) # {}}
  /\ UNCHANGED <<storedSchema, edits, newest>>

-----------------------------------------------------------------------------
Cached == [rules : Rules(SchemaId \cup LocalSchemaId), fresh : BOOLEAN]
Source == [url : Url, rules : Rules(SchemaId)]

SchemaTypeOK ==
  /\ urlSchemaSources \in Seq(Source)
  /\ localSchemaRules \in Rules(LocalSchemaId)
  /\ schemaOverrides \in Rules(SchemaId \cup LocalSchemaId)
  /\ editingSchemaRuleId \in SchemaId \cup LocalSchemaId \cup {None}
  /\ schemaRules \in Rules(SchemaId \cup LocalSchemaId)
  /\ packetCache \in [Packet -> Cached]
  /\ \A f \in Fetch : fetches[f] = Idle \/ fetches[f].url \in Url
  /\ raced \subseteq Url

\* The rows of the table show the verdicts under the rules that are in force,
\* whatever changed them and however long a packet was filtered away
\* (app.js:237-239: leaving the table out "is what made a disabled rule keep
\* its shield"); every row is there if each packet that should have one can be
\* compared with the rules.  So do the details, unless an exception kept them
\* from being drawn when they last should have been.
ShieldsAreFresh ==
  /\ DOMAIN rowVerdict \subseteq Rows
  /\ Rows \cap Undrawable(schemaRules) = {} => Rows \subseteq DOMAIN rowVerdict
  /\ \A p \in DOMAIN rowVerdict : rowVerdict[p] = schemaRules
  /\ undrawn \/ detailVerdict = [p \in Shown |-> schemaRules]

\* The latest loaded source that has the rule says what it is.
Offering(i) == {n \in DOMAIN urlSchemaSources : i \in DOMAIN urlSchemaSources[n].rules}
Offered(i) == Offering(i) # {} \/ i \in DOMAIN serverSchemaRules
AsOffered(i) ==
  IF Offering(i) = {} THEN serverSchemaRules[i]
  ELSE urlSchemaSources[CHOOSE n \in Offering(i) : \A m \in Offering(i) : m <= n].rules[i]

\* Validation uses the local rules, and of the remote ones those that are on,
\* each as the user has last edited it or else as its latest source has it:
\* no refresh, answer of the server or reload discards an edit or switches a
\* rule on again (docs/server-config-format.md:11-13).
ValidatorFollowsSettings ==
  /\ DOMAIN schemaRules = DOMAIN localSchemaRules
       \cup {i \in SchemaId : Offered(i) /\ SchemaKey(i) \notin disabled}
  /\ \A i \in DOMAIN schemaRules :
       schemaRules[i] = IF i \in LocalSchemaId THEN localSchemaRules[i]
                        ELSE IF i \in DOMAIN edits THEN edits[i] ELSE AsOffered(i)

\* The settings list shows the rules as they are, and whatever it highlights
\* while a rule is being edited is that rule.  (After an edit was saved the
\* rule stays highlighted until the list is drawn again.)
ListIsCurrent ==
  config = "done" =>
    /\ schemaList = Listing(serverSchemaRules, urlSchemaSources, schemaOverrides,
                            localSchemaRules, disabled, schemaList.editing)
    /\ editingSchemaRuleId \in {None, schemaList.editing}

\* Saving an edit never turns a local rule into an override of a rule that
\* does not exist: deleting a rule ends its editing.
NoOverrideOfALocalRule == DOMAIN schemaOverrides \cap LocalSchemaId = {}

\* A URL source has the rules that the newest fetch of it was answered with,
\* is listed once, and is gone once removed, unless two operations on it were
\* under way at once.
SourcesAreAsLastAsked ==
  \A u \in Url \ raced : InFlight(u) = {} =>
    /\ Cardinality({n \in DOMAIN urlSchemaSources : urlSchemaSources[n].url = u})
         = (IF newest[u] = Nothing THEN 0 ELSE 1)
    /\ \A n \in DOMAIN urlSchemaSources :
         urlSchemaSources[n].url = u => urlSchemaSources[n].rules = newest[u]
==============================================================================
