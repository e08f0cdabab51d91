-------------------------------- MODULE Settings --------------------------------
(***************************************************************************)
(* The settings of the browser page as a whole: schema rules and links     *)
(* with the server's configuration, the switched-off items, the storage    *)
(* and the packets that they share.  The page runs one handler at a time;  *)
(* answers of the server and of URLs come in between.                      *)
(***************************************************************************)
EXTENDS SchemaRules, PageLinks

vars == <<itemVars, listVars, commands, schemaVars, linkVars>>

Init == ItemsInit /\ SchemaInit /\ LinksInit

\* rebuildEffectiveRules()
Rebuild ==
  /\ UNCHANGED <<listVars, settingVars, editingSchemaRuleId, storedSchema, fetchVars, edits>>
  /\ RefreshSchemaViews(editingSchemaRuleId)
  /\ RebuildLinks

\* Mutant: the answer does not lead to a rebuild.
ConfigAnswered_noRebuild(offer) ==
  ServerAnswers(offer) /\ UNCHANGED <<listVars, commands, schemaVars, linkVars>>
ConfigAnswered(offer) == ServerAnswers(offer) /\ Rebuild /\ UNCHANGED commands
ConfigFails == ConfigAnswered([schemas |-> Nothing, dashboards |-> Nothing])

ToggleSchema(i) ==
  /\ i \in DOMAIN schemaList.rules \ LocalSchemaId
  /\ Command /\ ToggleItem(SchemaKey(i)) /\ Rebuild
ToggleDash(i) ==
  /\ i \in DOMAIN dashList.links \ LocalDashId
  /\ Command /\ ToggleItem(DashKey(i)) /\ Rebuild

\* Handlers of the schema panel.  Those that change the rules draw the details.
SchemaCommand ==
  /\ Command /\ UNCHANGED <<itemVars, listVars>>
  /\ \/ /\ KeepLinks
        /\ \/ \E i \in SchemaId \cup LocalSchemaId : StartEditRule(i)
           \/ CancelEditRule
           \/ \E f \in Fetch, u \in Url : AskUrl(f, u)
     \/ /\ \/ \E i \in LocalSchemaId, c \in Content : AddRule(i, c)
           \/ \E c \in Content : UpdateLocalRule(c)
           \/ \E c \in Content : OverrideRule(c)
           \/ \E i \in SchemaId \cup LocalSchemaId : ResetRule(i)
           \/ \E i \in LocalSchemaId : DeleteRule(i)
           \/ \E u \in Url : RemoveSource(u)
        /\ RedrawLinks

UrlFetch ==
  /\ UNCHANGED <<itemVars, listVars, commands>>
  /\ \E f \in Fetch :
       \/ \E r \in UNION Range(Served) : UrlAnswers(f, r) /\ KeepLinks
       \/ UrlFails(f) /\ KeepLinks
       \/ FillSource(f) /\ RedrawLinks

\* Handlers of the dashboard and trace panels.  Those that change the links
\* draw the details, verdicts included.
LinkCommand ==
  /\ Command /\ UNCHANGED <<itemVars, listVars>>
  /\ \/ /\ UNCHANGED schemaVars
        /\ \/ \E i \in LocalDashId : StartEditDash(i)
           \/ CancelEditDash
           \/ \E n \in 1 .. MaxTraceLinks : StartEditTrace(n)
           \/ CancelEditTrace
     \/ /\ Redraw({"detail"})
        /\ \/ \E i \in LocalDashId, c \in Dashboard : AddDash(i, c)
           \/ \E c \in Dashboard : UpdateDash(c)
           \/ \E i \in LocalDashId : DeleteDash(i)
           \/ \E w \in Window : ChangeWindow(w)
           \/ \E l \in [header : Header, url : TraceUrl] : AddTrace(l) \/ UpdateTrace(l)
           \/ \E n \in 1 .. MaxTraceLinks : DeleteTrace(n)

\* The packet list changes under the settings.
PacketList ==
  /\ UNCHANGED itemVars
  /\ \/ \E p \in Packet \ packets : UNCHANGED commands /\ Arrive(p) /\ AppendRow(p) /\ KeepLinks
     \/ \E S \in SUBSET Packet : Command /\ Filter(S) /\ Redraw({"rows"}) /\ KeepLinks
     \/ \E p \in Packet : Command /\ Select(p) /\ Redraw({"detail"}) /\ RedrawLinks
     \/ Command /\ ClearList /\ ClearCache /\ RedrawLinks

Reload == Command /\ ItemsReload /\ SchemaReload /\ LinksReload

Next ==
  \/ \E o \in Offers : ConfigAnswered(o)
  \/ ConfigFails
  \/ \E i \in SchemaId : ToggleSchema(i)
  \/ \E i \in DashId : ToggleDash(i)
  \/ SchemaCommand
  \/ UrlFetch
  \/ LinkCommand
  \/ PacketList
  \/ Reload

Spec == Init /\ [][Next]_vars

-----------------------------------------------------------------------------
TypeOK == ItemsTypeOK /\ SchemaTypeOK /\ LinksTypeOK

\* Everything drawn shows the settings as they are, whichever handler changed
\* them: the lists in the settings, the global bar, and the details unless an
\* exception kept them from being drawn.
DrawnIsCurrent == ListIsCurrent /\ DetailLinksAreCurrent /\ BarAndListsAreCurrent

\* Saving an edit changes the rule or link whose Edit button was pressed, and
\* nothing else, whatever was added, deleted or loaded in the meantime.
EditsAreMeant == NoOverrideOfALocalRule /\ EditedLinkExists /\ EditedLinkIsTheOneMeant

\* Whatever the user has changed is in the storage by the end of the handler,
\* so that loading the page again at any moment brings it back.
StoredIsCurrent ==
  /\ TracesSurviveReload
  /\ storedDisabled = disabled
  /\ storedSchema = [sources |-> urlSchemaSources, local |-> localSchemaRules,
                     overrides |-> schemaOverrides]
  /\ storedDashboards = localDashboardLinks
==============================================================================
