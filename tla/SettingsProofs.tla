---------------------------- MODULE SettingsProofs ----------------------------
(***************************************************************************)
(* What the settings of the page promise for any rules, links, sources,    *)
(* packets and commands of the user: what is drawn is what is in force,    *)
(* what is in force is what the user has set, and all of it is stored.     *)
(***************************************************************************)
EXTENDS Settings, TLAPS, WellFoundedInduction, FiniteSetTheorems,
        SequenceTheorems

-----------------------------------------------------------------------------
(* Induction over numbers, from the well-foundedness of their order *)

LEMMA LeastNumber ==
  ASSUME NEW T, T \subseteq Nat, T # {}
  PROVE  \E x \in T : \A y \in T : x <= y
<1>. DEFINE R == OpToRel(<, Nat)
<1>1. IsWellFoundedOn(R, Nat)
  BY NatLessThanWellFounded
<1>2. \A x, y \in Nat : x < y => <<x, y>> \in R
  BY DEF OpToRel
<1>. HIDE DEF R
<1>3. PICK x \in T : \A y \in T : ~ (<<y, x>> \in R)
  BY <1>1, WFMin
<1>4. \A y \in T : ~(y < x)
  BY <1>2, <1>3
<1>. QED
  BY <1>4

\* What holds of 0, and of a number's successor if of the number, holds of all.
LEMMA InductionOverNat ==
  ASSUME NEW P, 0 \in P, \A n \in Nat : n \in P => n + 1 \in P
  PROVE  Nat \subseteq P
<1>. SUFFICES ASSUME Nat \ P # {} PROVE FALSE
  OBVIOUS
<1>1. PICK x \in Nat \ P : \A y \in Nat \ P : x <= y
  BY LeastNumber
<1>2. x - 1 \in Nat /\ x - 1 \in P
  BY <1>1
<1>. QED
  BY <1>1, <1>2

-----------------------------------------------------------------------------
(* Partial functions *)

LEMMA OverDomain ==
  \A f, g : /\ DOMAIN Over(f, g) = DOMAIN f \cup DOMAIN g
            /\ \A i \in DOMAIN f : Over(f, g)[i] = f[i]
            /\ \A i \in DOMAIN g \ DOMAIN f : Over(f, g)[i] = g[i]
BY DEF Over

LEMMA NothingIsEmpty == DOMAIN Nothing = {} /\ \A f : [x \in {} |-> f] = Nothing
BY DEF Nothing

LEMMA RulesFacts ==
  ASSUME NEW ids
  PROVE  /\ Nothing \in Rules(ids)
         /\ \A f \in Rules(ids) :
              /\ f = [i \in DOMAIN f |-> f[i]] /\ DOMAIN f \subseteq ids
              /\ \A i \in DOMAIN f : f[i] \in Content
         /\ \A S \in SUBSET ids : \A f \in [S -> Content] : f \in Rules(ids)
BY NothingIsEmpty, SMTT(30) DEF Rules, Nothing

LEMMA RulesSubset ==
  ASSUME NEW ids, NEW more, ids \subseteq more PROVE Rules(ids) \subseteq Rules(more)
BY DEF Rules

LEMMA RulesOver ==
  ASSUME NEW ids, NEW f \in Rules(ids), NEW g \in Rules(ids)
  PROVE  Over(f, g) \in Rules(ids)
<1>1. DOMAIN f \cup DOMAIN g \in SUBSET ids
  BY RulesFacts
<1>2. Over(f, g) \in [DOMAIN f \cup DOMAIN g -> Content]
  BY RulesFacts DEF Over
<1>. QED
  BY <1>1, <1>2, RulesFacts

LEMMA RulesWith ==
  ASSUME NEW ids, NEW f \in Rules(ids), NEW i \in ids, NEW c \in Content
  PROVE  With(f, i, c) \in Rules(ids)
<1>1. [j \in {i} |-> c] \in [{i} -> Content] /\ {i} \in SUBSET ids
  OBVIOUS
<1>2. [j \in {i} |-> c] \in Rules(ids)
  BY <1>1, RulesFacts
<1>. QED
  BY <1>2, RulesOver DEF With

LEMMA RulesRestrict ==
  ASSUME NEW ids, NEW f \in Rules(ids), NEW S
  PROVE  Restrict(f, S \cap DOMAIN f) \in Rules(ids)
<1>1. S \cap DOMAIN f \in SUBSET ids
  BY RulesFacts
<1>2. Restrict(f, S \cap DOMAIN f) \in [S \cap DOMAIN f -> Content]
  BY RulesFacts DEF Restrict
<1>. QED
  BY <1>1, <1>2, RulesFacts

LEMMA RulesWithout ==
  ASSUME NEW ids, NEW f \in Rules(ids), NEW S
  PROVE  Without(f, S) \in Rules(ids)
<1>1. DOMAIN f \ S \in SUBSET ids
  BY RulesFacts
<1>2. Without(f, S) \in [DOMAIN f \ S -> Content]
  BY RulesFacts DEF Restrict, Without
<1>. QED
  BY <1>1, <1>2, RulesFacts

-----------------------------------------------------------------------------
(* The rules of the sources, merged *)

\* The steps of allRemoteSchemaRules() up to the k-th source.
IsMerged(g, server, sources, k) ==
  g = [n \in 0 .. k |-> IF n = 0 THEN server ELSE Over(sources[n].rules, g[n - 1])]

\* The recursion has a solution.
LEMMA MergeExists ==
  ASSUME NEW server, NEW sources, NEW k \in Nat
  PROVE  \E g : IsMerged(g, server, sources, k)
<1>. DEFINE P == {n \in Nat : \E g : IsMerged(g, server, sources, n)}
<1>1. 0 \in P
  <2>. DEFINE g == [n \in 0 .. 0 |-> server]
  <2>1. IsMerged(g, server, sources, 0)
    BY DEF IsMerged
  <2>. QED
    BY <2>1
<1>2. ASSUME NEW n \in Nat, n \in P PROVE n + 1 \in P
  <2>1. PICK g : IsMerged(g, server, sources, n)
    BY <1>2
  <2>. DEFINE h == [m \in 0 .. n + 1 |->
                     IF m = n + 1 THEN Over(sources[n + 1].rules, g[n]) ELSE g[m]]
  <2>2. \A m \in 0 .. n : g[m] = IF m = 0 THEN server ELSE Over(sources[m].rules, g[m - 1])
    BY <2>1 DEF IsMerged
  <2>3. ASSUME NEW m \in 0 .. n + 1
        PROVE  h[m] = IF m = 0 THEN server ELSE Over(sources[m].rules, h[m - 1])
    <3>1. CASE m = n + 1
      <4>1. h[m] = Over(sources[n + 1].rules, g[n]) /\ h[m - 1] = g[n] /\ m # 0
        BY <3>1
      <4>. QED
        BY <4>1, <3>1
    <3>2. CASE m \in 0 .. n
      <4>1. h[m] = g[m] /\ (m # 0 => h[m - 1] = g[m - 1])
        BY <3>2
      <4>. QED
        BY <4>1, <3>2, <2>2
    <3>. QED
      BY <3>1, <3>2
  <2>4. IsMerged(h, server, sources, n + 1)
    <3>1. h = [m \in 0 .. n + 1 |-> h[m]]
      OBVIOUS
    <3>. HIDE DEF h
    <3>. QED
      BY <3>1, <2>3 DEF IsMerged
  <2>. QED
    BY <2>4
<1>3. Nat \subseteq P
  <2>. HIDE DEF P
  <2>. QED
    BY <1>1, <1>2, InductionOverNat
<1>. QED
  BY <1>3

\* Rule i, as the first n sources and the server have it: the latest source's.
LatestOf(g, server, sources, i, n) ==
  LET Has(m) == i \in DOMAIN sources[m].rules IN
  /\ (i \in DOMAIN g[n]) <=> (i \in DOMAIN server \/ \E m \in 1 .. n : Has(m))
  /\ (\A m \in 1 .. n : ~Has(m)) /\ i \in DOMAIN server => g[n][i] = server[i]
  /\ \A m \in 1 .. n :
       Has(m) /\ (\A l \in 1 .. n : Has(l) => l <= m) => g[n][i] = sources[m].rules[i]

LEMMA MergeIsLatest ==
  ASSUME NEW server, NEW sources, NEW k \in Nat, NEW g, IsMerged(g, server, sources, k),
         NEW i
  PROVE  \A n \in 0 .. k : LatestOf(g, server, sources, i, n)
<1>. DEFINE Has(m) == i \in DOMAIN sources[m].rules
            Q(n) == LatestOf(g, server, sources, i, n)
            P == {n \in Nat : n <= k => Q(n)}
<1>1. /\ g[0] = server
      /\ \A n \in 1 .. k : g[n] = Over(sources[n].rules, g[n - 1])
  BY DEF IsMerged
<1>2. 0 \in P
  BY <1>1 DEF LatestOf
<1>3. ASSUME NEW n \in Nat, n \in P PROVE n + 1 \in P
  <2>. SUFFICES ASSUME n + 1 <= k PROVE Q(n + 1)
    OBVIOUS
  <2>1. /\ (i \in DOMAIN g[n]) <=> (i \in DOMAIN server \/ \E m \in 1 .. n : Has(m))
        /\ (\A m \in 1 .. n : ~Has(m)) /\ i \in DOMAIN server => g[n][i] = server[i]
        /\ \A m \in 1 .. n :
             Has(m) /\ (\A l \in 1 .. n : Has(l) => l <= m) => g[n][i] = sources[m].rules[i]
    BY <1>3 DEF LatestOf
  <2>2. g[n + 1] = Over(sources[n + 1].rules, g[n])
    <3>1. n + 1 \in 1 .. k /\ (n + 1) - 1 = n
      OBVIOUS
    <3>. QED
      BY <1>1, <3>1
  <2>3. /\ (i \in DOMAIN g[n + 1]) <=> (Has(n + 1) \/ i \in DOMAIN g[n])
        /\ Has(n + 1) => g[n + 1][i] = sources[n + 1].rules[i]
        /\ ~Has(n + 1) /\ i \in DOMAIN g[n] => g[n + 1][i] = g[n][i]
    <3>. DEFINE top == sources[n + 1].rules
                old == g[n]
    <3>1. g[n + 1] = Over(top, old)
      BY <2>2
    <3>. HIDE DEF top, old
    <3>2. /\ (i \in DOMAIN Over(top, old)) <=> (i \in DOMAIN top \/ i \in DOMAIN old)
          /\ i \in DOMAIN top => Over(top, old)[i] = top[i]
          /\ i \notin DOMAIN top /\ i \in DOMAIN old => Over(top, old)[i] = old[i]
      BY DEF Over
    <3>. QED
      BY <3>1, <3>2, Zenon DEF top, old
  <2>4. \A m : m \in 1 .. n + 1 <=> m \in 1 .. n \/ m = n + 1
    OBVIOUS
  <2>. HIDE DEF Has
  <2>5. (i \in DOMAIN g[n + 1]) <=> (i \in DOMAIN server \/ \E m \in 1 .. n + 1 : Has(m))
    BY <2>1, <2>3, <2>4
  <2>6. (\A m \in 1 .. n + 1 : ~Has(m)) /\ i \in DOMAIN server => g[n + 1][i] = server[i]
    BY <2>1, <2>3, <2>4
  <2>7. ASSUME NEW m \in 1 .. n + 1, Has(m), \A l \in 1 .. n + 1 : Has(l) => l <= m
        PROVE  g[n + 1][i] = sources[m].rules[i]
    <3>1. CASE m = n + 1
      BY <3>1, <2>7, <2>3
    <3>2. CASE m \in 1 .. n
      <4>1. ~Has(n + 1)
        BY <3>2, <2>7, <2>4
      <4>2. i \in DOMAIN g[n]
        BY <3>2, <2>7, <2>1
      <4>3. g[n][i] = sources[m].rules[i]
        BY <3>2, <2>7, <2>1, <2>4
      <4>. QED
        BY <4>1, <4>2, <4>3, <2>3
    <3>. QED
      BY <3>1, <3>2, <2>4
  <2>. QED
    BY <2>5, <2>6, <2>7 DEF LatestOf, Has
<1>4. Nat \subseteq P
  <2>. HIDE DEF P
  <2>. QED
    BY <1>2, <1>3, InductionOverNat
<1>5. \A n \in 0 .. k : Q(n)
  BY <1>4
<1>. QED
  BY <1>5

\* Merging makes rules of rules.
LEMMA MergeIsRules ==
  ASSUME NEW server \in Rules(SchemaId), NEW sources \in Seq(Source),
         NEW g, IsMerged(g, server, sources, Len(sources))
  PROVE  g[Len(sources)] \in Rules(SchemaId)
<1>. DEFINE k == Len(sources)
            P == {n \in Nat : n <= k => g[n] \in Rules(SchemaId)}
<1>1. /\ g[0] = server /\ k \in Nat
      /\ \A n \in 1 .. k : g[n] = Over(sources[n].rules, g[n - 1])
  BY DEF IsMerged
<1>2. \A n \in 1 .. k : sources[n].rules \in Rules(SchemaId)
  <2>1. \A n \in 1 .. k : sources[n] \in Source
    OBVIOUS
  <2>. QED
    BY <2>1 DEF Source
<1>3. 0 \in P
  BY <1>1
<1>4. ASSUME NEW n \in Nat, n \in P PROVE n + 1 \in P
  <2>. SUFFICES ASSUME n + 1 <= k PROVE g[n + 1] \in Rules(SchemaId)
    OBVIOUS
  <2>1. n + 1 \in 1 .. k /\ (n + 1) - 1 = n /\ n <= k
    BY <1>1
  <2>2. g[n] \in Rules(SchemaId) /\ sources[n + 1].rules \in Rules(SchemaId)
    BY <1>2, <1>4, <2>1
  <2>3. g[n + 1] = Over(sources[n + 1].rules, g[n])
    BY <1>1, <2>1
  <2>. QED
    BY <2>2, <2>3, RulesOver
<1>5. Nat \subseteq P
  <2>. HIDE DEF P
  <2>. QED
    BY <1>3, <1>4, InductionOverNat
<1>. QED
  BY <1>1, <1>5

LEMMA GreatestNumber ==
  ASSUME NEW k \in Nat, NEW T, T \subseteq 1 .. k, T # {}
  PROVE  \E x \in T : \A y \in T : y <= x
<1>. DEFINE D == {k - x : x \in T}
<1>1. D \subseteq Nat /\ D # {}
  <2>1. \A x \in T : k - x \in Nat
    OBVIOUS
  <2>. QED
    BY <2>1
<1>2. PICK d \in D : \A e \in D : d <= e
  <2>. HIDE DEF D
  <2>. QED
    BY <1>1, LeastNumber
<1>3. PICK x \in T : d = k - x
  BY <1>2
<1>4. ASSUME NEW y \in T PROVE y <= x
  <2>1. d <= k - y
    BY <1>2
  <2>. QED
    BY <1>3, <2>1
<1>. QED
  BY <1>4

\* What the sources and the server offer is what is merged, and of a rule that
\* several offer the latest source's.
LEMMA RemoteIsAsOffered ==
  ASSUME NEW server \in Rules(SchemaId), NEW sources \in Seq(Source)
  PROVE  LET Having(i) == {n \in DOMAIN sources : i \in DOMAIN sources[n].rules} IN
         /\ AllRemote(server, sources) \in Rules(SchemaId)
         /\ \A i : i \in DOMAIN AllRemote(server, sources)
                     <=> Having(i) # {} \/ i \in DOMAIN server
         /\ \A i \in DOMAIN AllRemote(server, sources) :
              AllRemote(server, sources)[i] =
                IF Having(i) = {} THEN server[i]
                ELSE sources[CHOOSE n \in Having(i) : \A m \in Having(i) : m <= n].rules[i]
<1>. DEFINE k == Len(sources)
            Having(i) == {n \in DOMAIN sources : i \in DOMAIN sources[n].rules}
            all == AllRemote(server, sources)
<1>1. k \in Nat /\ DOMAIN sources = 1 .. k
  OBVIOUS
<1>2. PICK g : IsMerged(g, server, sources, k) /\ all = g[k]
  <2>1. \E g : IsMerged(g, server, sources, k)
    BY <1>1, MergeExists
  <2>. QED
    BY <2>1 DEF IsMerged, AllRemote
<1>. HIDE DEF all
<1>3. all \in Rules(SchemaId)
  BY <1>2, MergeIsRules
<1>4. k \in 0 .. k
  BY <1>1
<1>5. ASSUME NEW i
      PROVE  /\ i \in DOMAIN all <=> Having(i) # {} \/ i \in DOMAIN server
             /\ Having(i) = {} /\ i \in DOMAIN server => all[i] = server[i]
             /\ \A m \in Having(i) :
                  (\A l \in Having(i) : l <= m) => all[i] = sources[m].rules[i]
  <2>1. /\ (i \in DOMAIN g[k]) <=>
             (i \in DOMAIN server \/ \E m \in 1 .. k : i \in DOMAIN sources[m].rules)
        /\ (\A m \in 1 .. k : i \notin DOMAIN sources[m].rules) /\ i \in DOMAIN server
             => g[k][i] = server[i]
        /\ \A m \in 1 .. k :
             i \in DOMAIN sources[m].rules
             /\ (\A l \in 1 .. k : i \in DOMAIN sources[l].rules => l <= m)
             => g[k][i] = sources[m].rules[i]
    <3>1. LatestOf(g, server, sources, i, k)
      BY <1>1, <1>2, <1>4, MergeIsLatest
    <3>. QED
      BY <3>1 DEF LatestOf
  <2>. QED
    BY <2>1, <1>1, <1>2
<1>6. ASSUME NEW i, Having(i) # {}
      PROVE  all[i] = sources[CHOOSE n \in Having(i) : \A m \in Having(i) : m <= n].rules[i]
  <2>1. PICK n \in Having(i) : \A m \in Having(i) : m <= n
    BY <1>1, <1>6, GreatestNumber
  <2>. HIDE DEF Having
  <2>. QED
    BY <2>1, <1>5
<1>. QED
  BY <1>3, <1>5, <1>6 DEF all

-----------------------------------------------------------------------------
(* What is shared *)

ItemInv ==
  /\ serverSchemaRules \in Rules(SchemaId)
  /\ storedDisabled = disabled
  /\ packets \subseteq Packet /\ (selectedId = None \/ selectedId \in packets)

LEMMA ItemStep == ItemInv /\ [Next]_vars => ItemInv'
<1>. SUFFICES ASSUME ItemInv, [Next]_vars PROVE ItemInv'
  OBVIOUS
<1>1. CASE \E o \in Offers : ConfigAnswered(o)
  BY <1>1, ServerItemsAssumption DEF ConfigAnswered, ServerAnswers, Rebuild, listVars, ItemInv
<1>2. CASE ConfigFails
  BY <1>2, RulesFacts DEF ConfigFails, ConfigAnswered, ServerAnswers, Rebuild, listVars, ItemInv
<1>3. CASE (\E i \in SchemaId : ToggleSchema(i)) \/ (\E i \in DashId : ToggleDash(i))
  BY <1>3 DEF ToggleSchema, ToggleDash, ToggleItem, Rebuild, listVars, ItemInv
<1>4. CASE SchemaCommand \/ UrlFetch \/ LinkCommand
  <2>1. UNCHANGED <<itemVars, listVars>>
    BY <1>4 DEF SchemaCommand, UrlFetch, LinkCommand
  <2>. QED
    BY <2>1 DEF itemVars, listVars, ItemInv
<1>5. CASE PacketList
  <2>1. UNCHANGED itemVars
    BY <1>5 DEF PacketList
  <2>2. /\ packets' \subseteq Packet
        /\ selectedId' = None \/ selectedId' \in packets'
    BY <1>5 DEF PacketList, Arrive, Filter, Select, ClearList, Rows, ItemInv
  <2>. QED
    BY <2>1, <2>2 DEF itemVars, ItemInv
<1>6. CASE Reload
  BY <1>6, RulesFacts DEF Reload, ItemsReload, ItemInv
<1>7. CASE UNCHANGED vars
  BY <1>7 DEF vars, itemVars, listVars, ItemInv
<1>. QED
  BY <1>1, <1>2, <1>3, <1>4, <1>5, <1>6, <1>7 DEF Next

-----------------------------------------------------------------------------
(* The schema rules *)

\* Rules and overrides have their kinds of ids, what is edited exists, the
\* overrides are the user's edits, and the storage has all of them.
SettingInv ==
  /\ urlSchemaSources \in Seq(Source)
  /\ localSchemaRules \in Rules(LocalSchemaId)
  /\ schemaOverrides \in Rules(SchemaId) /\ edits = schemaOverrides
  /\ editingSchemaRuleId \in SchemaId \cup DOMAIN localSchemaRules \cup {None}
  /\ storedSchema = [sources |-> urlSchemaSources, local |-> localSchemaRules,
                     overrides |-> schemaOverrides]

\* A fetch that is under way has its URL, and rules once it is answered.
FetchInv ==
  /\ fetches \in [Fetch -> [url : Url \cup {None}, stage : {"idle", "asked", "answered"},
                            rules : Rules(SchemaId)]]
  /\ \A f \in Fetch :
       /\ fetches[f].stage = "idle" <=> fetches[f].url = None
       /\ fetches[f].stage = "answered" => fetches[f].rules # Nothing

RulesInv == SettingInv /\ FetchInv

LEMMA RulesInit == SchemaInit => RulesInv
<1>. SUFFICES ASSUME SchemaInit PROVE RulesInv
  OBVIOUS
<1>1. \A ids : Nothing \in Rules(ids)
  BY RulesFacts
<1>2. SettingInv
  BY <1>1 DEF SchemaInit, SettingInv
<1>3. FetchInv
  BY <1>1 DEF SchemaInit, FetchInv, Idle
<1>. QED
  BY <1>2, <1>3 DEF RulesInv

LEMMA SettingsKept ==
  SettingInv /\ UNCHANGED <<settingVars, editingSchemaRuleId, storedSchema, edits>>
    => SettingInv'
BY DEF SettingInv, settingVars

\* Only a rule that exists can be edited.
LEMMA StartEditRuleKeeps ==
  ASSUME ItemInv, SettingInv, NEW i \in SchemaId \cup LocalSchemaId, StartEditRule(i)
  PROVE  SettingInv'
<1>1. DOMAIN Remote \subseteq SchemaId
  BY RemoteIsAsOffered, RulesFacts DEF ItemInv, SettingInv, Remote
<1>2. editingSchemaRuleId' \in SchemaId \cup DOMAIN localSchemaRules
  BY <1>1 DEF StartEditRule
<1>. QED
  BY <1>2 DEF StartEditRule, SettingInv, settingVars

LEMMA CancelEditRuleKeeps == ASSUME SettingInv, CancelEditRule PROVE SettingInv'
BY DEF CancelEditRule, SettingInv, settingVars

LEMMA AddRuleKeeps ==
  ASSUME SettingInv, NEW i \in LocalSchemaId, NEW c \in Content, AddRule(i, c)
  PROVE  SettingInv'
<1>1. localSchemaRules' \in Rules(LocalSchemaId)
  BY RulesWith DEF AddRule, SettingInv
<1>2. editingSchemaRuleId' = None
  BY DEF AddRule
<1>. QED
  BY <1>1, <1>2 DEF AddRule, SettingInv

LEMMA UpdateLocalRuleKeeps ==
  ASSUME SettingInv, NEW c \in Content, UpdateLocalRule(c)
  PROVE  SettingInv'
<1>1. localSchemaRules' \in [DOMAIN localSchemaRules -> Content]
  BY RulesFacts DEF UpdateLocalRule, SettingInv
<1>2. localSchemaRules' \in Rules(LocalSchemaId)
  BY <1>1, RulesFacts DEF SettingInv
<1>3. /\ editingSchemaRuleId' \in {None, editingSchemaRuleId}
      /\ DOMAIN localSchemaRules' = DOMAIN localSchemaRules
  BY DEF UpdateLocalRule, EditingAfterRefresh
<1>. QED
  BY <1>2, <1>3 DEF UpdateLocalRule, SettingInv

LEMMA OverrideRuleKeeps ==
  ASSUME SettingInv, NEW c \in Content, OverrideRule(c)
  PROVE  SettingInv'
<1>1. editingSchemaRuleId \in SchemaId
  BY DEF OverrideRule, SettingInv
<1>2. schemaOverrides' \in Rules(SchemaId)
  BY <1>1, RulesWith DEF OverrideRule, SettingInv
<1>3. editingSchemaRuleId' \in {None, editingSchemaRuleId}
  BY DEF OverrideRule, EditingAfterRefresh
<1>. QED
  BY <1>2, <1>3 DEF OverrideRule, SettingInv

LEMMA ResetRuleKeeps == ASSUME SettingInv, NEW i, ResetRule(i) PROVE SettingInv'
<1>1. schemaOverrides' \in Rules(SchemaId)
  BY RulesWithout DEF ResetRule, SettingInv
<1>2. editingSchemaRuleId' \in {None, editingSchemaRuleId}
  BY DEF ResetRule, EditingUnless
<1>. QED
  BY <1>1, <1>2 DEF ResetRule, SettingInv

LEMMA DeleteRuleKeeps == ASSUME SettingInv, NEW i, DeleteRule(i) PROVE SettingInv'
<1>1. localSchemaRules' \in Rules(LocalSchemaId)
      /\ DOMAIN localSchemaRules' = DOMAIN localSchemaRules \ {i}
  BY RulesWithout DEF DeleteRule, SettingInv, Without, Restrict
<1>2. editingSchemaRuleId' \in SchemaId \cup DOMAIN localSchemaRules' \cup {None}
  <2>1. editingSchemaRuleId' = IF editingSchemaRuleId = i THEN None ELSE editingSchemaRuleId
    BY DEF DeleteRule, EditingUnless
  <2>. QED
    BY <1>1, <2>1 DEF SettingInv
<1>. QED
  BY <1>1, <1>2 DEF DeleteRule, SettingInv

-----------------------------------------------------------------------------
(* The sources *)

\* The steps of leaving out the sources of u among the first k.
IsOthers(g, sources, u, k) ==
  g = [n \in 0 .. k |->
        IF n = 0 THEN <<>>
        ELSE IF sources[n].url = u THEN g[n - 1] ELSE Append(g[n - 1], sources[n])]

LEMMA OthersExist ==
  ASSUME NEW sources, NEW u, NEW k \in Nat
  PROVE  \E g : IsOthers(g, sources, u, k)
<1>. DEFINE P == {n \in Nat : \E g : IsOthers(g, sources, u, n)}
            Step(g, m) == IF m = 0 THEN <<>>
                          ELSE IF sources[m].url = u THEN g[m - 1]
                          ELSE Append(g[m - 1], sources[m])
<1>1. 0 \in P
  <2>. DEFINE g == [n \in 0 .. 0 |-> <<>>]
  <2>1. IsOthers(g, sources, u, 0)
    BY DEF IsOthers
  <2>. QED
    BY <2>1
<1>2. ASSUME NEW n \in Nat, n \in P PROVE n + 1 \in P
  <2>1. PICK g : IsOthers(g, sources, u, n)
    BY <1>2
  <2>. DEFINE h == [m \in 0 .. n + 1 |-> IF m = n + 1 THEN Step(g, n + 1) ELSE g[m]]
  <2>2. \A m \in 0 .. n : g[m] = Step(g, m)
    BY <2>1 DEF IsOthers
  <2>3. ASSUME NEW m \in 0 .. n + 1 PROVE h[m] = Step(h, m)
    <3>1. CASE m = n + 1
      <4>1. h[m] = Step(g, n + 1) /\ h[m - 1] = g[n] /\ m # 0
        BY <3>1
      <4>. QED
        BY <4>1, <3>1
    <3>2. CASE m \in 0 .. n
      <4>1. h[m] = g[m] /\ (m # 0 => h[m - 1] = g[m - 1])
        BY <3>2
      <4>. QED
        BY <4>1, <3>2, <2>2
    <3>. QED
      BY <3>1, <3>2
  <2>4. IsOthers(h, sources, u, n + 1)
    <3>1. h = [m \in 0 .. n + 1 |-> h[m]]
      OBVIOUS
    <3>. HIDE DEF h
    <3>. QED
      BY <3>1, <2>3 DEF IsOthers
  <2>. QED
    BY <2>4
<1>3. Nat \subseteq P
  <2>. HIDE DEF P
  <2>. QED
    BY <1>1, <1>2, InductionOverNat
<1>. QED
  BY <1>3

\* A URL is listed once.
Distinct(sources) ==
  \A m, n \in DOMAIN sources : sources[m].url = sources[n].url => m = n

\* What a sequence lists at its positions.
Items(sources) == {sources[n] : n \in DOMAIN sources}

LEMMA ItemsAppend ==
  ASSUME NEW S, NEW s \in Seq(S), NEW e \in S
  PROVE  /\ Append(s, e) \in Seq(S) /\ Items(Append(s, e)) = Items(s) \cup {e}
         /\ Distinct(s) /\ (\A x \in Items(s) : x.url # e.url) => Distinct(Append(s, e))
<1>1. /\ Append(s, e) \in Seq(S) /\ Len(s) \in Nat /\ DOMAIN s = 1 .. Len(s)
      /\ DOMAIN Append(s, e) = 1 .. Len(s) + 1
      /\ \A n \in 1 .. Len(s) : Append(s, e)[n] = s[n]
      /\ Append(s, e)[Len(s) + 1] = e
  OBVIOUS
<1>2. \A n : n \in 1 .. Len(s) + 1 <=> n \in 1 .. Len(s) \/ n = Len(s) + 1
  BY <1>1
<1>3. ASSUME Distinct(s), \A x \in Items(s) : x.url # e.url PROVE Distinct(Append(s, e))
  <2>1. \A n \in DOMAIN s : s[n].url # e.url
    BY <1>3 DEF Items
  <2>. QED
    BY <1>1, <1>2, <1>3, <2>1 DEF Distinct
<1>4. Items(Append(s, e)) = Items(s) \cup {e}
  BY <1>1, <1>2 DEF Items
<1>. QED
  BY <1>1, <1>3, <1>4

\* The sources but those of u.
LEMMA OthersAre ==
  ASSUME NEW sources \in Seq(Source), NEW u
  PROVE  /\ OtherSources(sources, u) \in Seq(Source)
         /\ Items(OtherSources(sources, u)) = {s \in Items(sources) : s.url # u}
         /\ Distinct(sources) => Distinct(OtherSources(sources, u))
<1>. DEFINE k == Len(sources)
            First(n) == {sources[m] : m \in 1 .. n}
            others == OtherSources(sources, u)
<1>1. k \in Nat /\ DOMAIN sources = 1 .. k /\ k \in 0 .. k
  OBVIOUS
<1>2. PICK g : IsOthers(g, sources, u, k) /\ others = g[k]
  <2>1. \E g : IsOthers(g, sources, u, k)
    BY <1>1, OthersExist
  <2>. QED
    BY <2>1 DEF IsOthers, OtherSources
<1>. DEFINE Q(n) == /\ g[n] \in Seq(Source)
                    /\ Items(g[n]) = {s \in First(n) : s.url # u}
                    /\ Distinct(sources) => Distinct(g[n])
            P == {n \in Nat : n <= k => Q(n)}
<1>. HIDE DEF others
<1>3. 0 \in P
  <2>1. g[0] = <<>>
    BY <1>1, <1>2 DEF IsOthers
  <2>2. First(0) = {} /\ DOMAIN <<>> = {} /\ <<>> \in Seq(Source)
    OBVIOUS
  <2>3. Items(g[0]) = {} /\ Distinct(g[0]) /\ g[0] \in Seq(Source)
    BY <2>1, <2>2 DEF Items, Distinct
  <2>4. {s \in First(0) : s.url # u} = {}
    BY <2>2
  <2>. HIDE DEF First
  <2>. QED
    BY <2>3, <2>4
<1>4. ASSUME NEW n \in Nat, n \in P PROVE n + 1 \in P
  <2>. SUFFICES ASSUME n + 1 <= k PROVE Q(n + 1)
    OBVIOUS
  <2>1. Q(n) /\ n + 1 \in 1 .. k
    BY <1>1, <1>4
  <2>. DEFINE e == sources[n + 1]
  <2>2. g[n + 1] = IF e.url = u THEN g[n] ELSE Append(g[n], e)
    <3>1. n + 1 \in 0 .. k /\ n + 1 # 0 /\ (n + 1) - 1 = n
      BY <2>1
    <3>. QED
      BY <1>2, <3>1 DEF IsOthers
  <2>3. e \in Source
    BY <2>1
  <2>4. First(n + 1) = First(n) \cup {e}
    <3>1. \A m : m \in 1 .. n + 1 <=> m \in 1 .. n \/ m = n + 1
      OBVIOUS
    <3>. QED
      BY <3>1
  <2>5. CASE e.url = u
    <3>1. g[n + 1] = g[n]
      BY <2>2, <2>5
    <3>2. {s \in First(n + 1) : s.url # u} = {s \in First(n) : s.url # u}
      <4>. HIDE DEF First
      <4>. QED
        BY <2>4, <2>5
    <3>. HIDE DEF First
    <3>. QED
      BY <2>1, <3>1, <3>2
  <2>6. CASE e.url # u
    <3>1. g[n + 1] = Append(g[n], e)
      BY <2>2, <2>6
    <3>2. {s \in First(n + 1) : s.url # u} = {s \in First(n) : s.url # u} \cup {e}
      <4>. HIDE DEF First
      <4>. QED
        BY <2>4, <2>6
    <3>3. Distinct(sources) => \A x \in Items(g[n]) : x.url # e.url
      <4>1. SUFFICES ASSUME Distinct(sources), NEW m \in 1 .. n, sources[m].url = e.url
                     PROVE  FALSE
        BY <2>1
      <4>2. m \in DOMAIN sources /\ n + 1 \in DOMAIN sources /\ m # n + 1
        BY <1>1, <2>1
      <4>. QED
        BY <4>1, <4>2 DEF Distinct
    <3>4. /\ g[n + 1] \in Seq(Source) /\ Items(g[n + 1]) = Items(g[n]) \cup {e}
          /\ Distinct(sources) => Distinct(g[n + 1])
      <4>1. g[n] \in Seq(Source) /\ (Distinct(sources) => Distinct(g[n]))
        BY <2>1
      <4>. HIDE DEF e
      <4>. QED
        BY <4>1, <2>3, <3>1, <3>3, ItemsAppend
    <3>. HIDE DEF First, e
    <3>. QED
      BY <2>1, <3>2, <3>4
  <2>. QED
    BY <2>5, <2>6
<1>5. Nat \subseteq P
  <2>. HIDE DEF P
  <2>. QED
    BY <1>3, <1>4, InductionOverNat
<1>6. Q(k)
  <2>1. k \in Nat /\ k <= k
    BY <1>1
  <2>. HIDE DEF Q, k
  <2>. QED
    BY <2>1, <1>5
<1>7. First(k) = Items(sources)
  BY <1>1 DEF Items
<1>8. /\ others \in Seq(Source) /\ Items(others) = {s \in Items(sources) : s.url # u}
      /\ Distinct(sources) => Distinct(others)
  <2>. HIDE DEF First
  <2>. QED
    BY <1>2, <1>6, <1>7
<1>. QED
  BY <1>8 DEF others

LEMMA AddSourceKeeps ==
  ASSUME NEW sources \in Seq(Source), NEW u \in Url, NEW r \in Rules(SchemaId)
  PROVE  LET new == Append(OtherSources(sources, u), [url |-> u, rules |-> r]) IN
         /\ new \in Seq(Source)
         /\ Items(new) = {s \in Items(sources) : s.url # u} \cup {[url |-> u, rules |-> r]}
         /\ Distinct(sources) => Distinct(new)
<1>. DEFINE others == OtherSources(sources, u)
            e == [url |-> u, rules |-> r]
<1>1. e \in Source /\ e.url = u
  BY DEF Source
<1>2. /\ others \in Seq(Source)
      /\ Items(others) = {s \in Items(sources) : s.url # u}
      /\ Distinct(sources) => Distinct(others)
  BY OthersAre
<1>. HIDE DEF others, e
<1>3. \A x \in Items(others) : x.url # e.url
  BY <1>1, <1>2
<1>4. /\ Append(others, e) \in Seq(Source)
      /\ Items(Append(others, e)) = {s \in Items(sources) : s.url # u} \cup {e}
      /\ Distinct(sources) => Distinct(Append(others, e))
  BY <1>1, <1>2, <1>3, ItemsAppend
<1>. QED
  BY <1>4 DEF others, e

\* The URL and the rules of an answered fetch.
LEMMA AnsweredFetch ==
  ASSUME FetchInv, NEW f \in Fetch, fetches[f].stage = "answered"
  PROVE  fetches[f].url \in Url /\ fetches[f].rules \in Rules(SchemaId)
<1>1. fetches[f] \in [url : Url \cup {None}, stage : {"idle", "asked", "answered"},
                      rules : Rules(SchemaId)]
  BY DEF FetchInv
<1>2. fetches[f].url # None
  BY DEF FetchInv
<1>. QED
  BY <1>1, <1>2

LEMMA FillSourceKeeps ==
  ASSUME RulesInv, NEW f \in Fetch, FillSource(f)
  PROVE  SettingInv'
<1>1. fetches[f].url \in Url /\ fetches[f].rules \in Rules(SchemaId)
  BY AnsweredFetch DEF RulesInv, FillSource
<1>2. urlSchemaSources' \in Seq(Source)
  BY <1>1, AddSourceKeeps DEF FillSource, AddSource, RulesInv, SettingInv
<1>. QED
  BY <1>2 DEF FillSource, RulesInv, SettingInv

LEMMA RemoveSourceKeeps == ASSUME SettingInv, NEW u, RemoveSource(u) PROVE SettingInv'
<1>1. urlSchemaSources' \in Seq(Source)
  BY OthersAre DEF RemoveSource, SettingInv
<1>. QED
  BY <1>1 DEF RemoveSource, SettingInv

LEMMA SettingStep == ItemInv /\ RulesInv /\ [Next]_vars => SettingInv'
<1>. SUFFICES ASSUME ItemInv, RulesInv, [Next]_vars PROVE SettingInv'
  OBVIOUS
<1>. SettingInv
  BY DEF RulesInv
<1>1. ASSUME UNCHANGED <<settingVars, editingSchemaRuleId, storedSchema, edits>>
      PROVE  SettingInv'
  BY <1>1, SettingsKept
<1>2. CASE (\E o \in Offers : ConfigAnswered(o)) \/ ConfigFails
           \/ (\E i \in SchemaId : ToggleSchema(i)) \/ (\E i \in DashId : ToggleDash(i))
  <2>1. Rebuild
    BY <1>2 DEF ConfigFails, ConfigAnswered, ToggleSchema, ToggleDash
  <2>. QED
    BY <1>1, <2>1 DEF Rebuild
<1>3. CASE SchemaCommand
  <2>1. CASE \E f \in Fetch, u \in Url : AskUrl(f, u)
    BY <1>1, <2>1 DEF AskUrl
  <2>. QED
    BY <1>3, <2>1, StartEditRuleKeeps, CancelEditRuleKeeps, AddRuleKeeps, UpdateLocalRuleKeeps,
       OverrideRuleKeeps, ResetRuleKeeps, DeleteRuleKeeps, RemoveSourceKeeps DEF SchemaCommand
<1>4. CASE UrlFetch
  <2>1. CASE \E f \in Fetch : FillSource(f)
    BY <2>1, FillSourceKeeps
  <2>2. CASE \E f \in Fetch : UrlFails(f) \/ \E r \in UNION Range(Served) : UrlAnswers(f, r)
    BY <2>2, <1>1 DEF UrlFails, UrlAnswers
  <2>. QED
    BY <1>4, <2>1, <2>2 DEF UrlFetch
<1>5. CASE LinkCommand
  BY <1>5, <1>1 DEF LinkCommand, Redraw, schemaVars
<1>6. CASE PacketList
  BY <1>6, <1>1 DEF PacketList, Redraw, AppendRow, ClearCache
<1>7. CASE Reload
  BY <1>7 DEF Reload, SchemaReload, SettingInv
<1>8. CASE UNCHANGED vars
  BY <1>8, <1>1 DEF vars, schemaVars
<1>. QED
  BY <1>2, <1>3, <1>4, <1>5, <1>6, <1>7, <1>8 DEF Next

-----------------------------------------------------------------------------
(* Fetches of URLs *)

\* What is listed of u.
Of(u) == {s \in Items(urlSchemaSources) : s.url = u}
AsAsked(u) == Of(u) = IF newest[u] = Nothing THEN {} ELSE {[url |-> u, rules |-> newest[u]]}

\* Of a URL without a race at most one fetch is under way, its answer is the
\* newest, and until there is one the list is as last asked.
SourcesInv ==
  /\ Distinct(urlSchemaSources)
  /\ newest \in [Url -> Rules(SchemaId)]
  /\ \A u \in Url \ raced :
       /\ \A f, g \in InFlight(u) : f = g
       /\ \A f \in InFlight(u) : fetches[f].stage = "answered" => newest[u] = fetches[f].rules
       /\ (\A f \in InFlight(u) : fetches[f].stage = "asked") => AsAsked(u)

\* The steps that neither fetch nor list.
LEMMA SourcesKept ==
  /\ FetchInv /\ UNCHANGED fetches => FetchInv'
  /\ SourcesInv /\ UNCHANGED <<urlSchemaSources, fetchVars>> => SourcesInv'
<1>1. FetchInv /\ UNCHANGED fetches => FetchInv'
  BY DEF FetchInv
<1>2. ASSUME SourcesInv, UNCHANGED <<urlSchemaSources, fetchVars>> PROVE SourcesInv'
  <2>1. UNCHANGED <<urlSchemaSources, fetches, newest, raced>>
    BY <1>2 DEF fetchVars
  <2>2. \A u : InFlight(u)' = InFlight(u) /\ (AsAsked(u)' <=> AsAsked(u))
    BY <2>1 DEF InFlight, AsAsked, Of
  <2>. QED
    BY <1>2, <2>1, <2>2 DEF SourcesInv
<1>. QED
  BY <1>1, <1>2

LEMMA AskUrlKeeps ==
  ASSUME FetchInv, SourcesInv, NEW f \in Fetch, NEW v \in Url, AskUrl(f, v)
  PROVE  FetchInv' /\ SourcesInv'
<1>1. /\ fetches[f] = Idle /\ UNCHANGED <<urlSchemaSources, newest>>
      /\ fetches' = [fetches EXCEPT ![f] = [url |-> v, stage |-> "asked", rules |-> Nothing]]
      /\ raced' = raced \cup {w \in {v} : InFlight(w) # {}}
  BY DEF AskUrl, settingVars
<1>2. Nothing \in Rules(SchemaId) /\ v # None
  BY RulesFacts, SchemaRulesAssumption
<1>3. FetchInv'
  BY <1>1, <1>2 DEF FetchInv
<1>4. \A g \in Fetch \ {f} : fetches'[g] = fetches[g]
  BY <1>1 DEF FetchInv
<1>5. fetches'[f].url = v /\ fetches'[f].stage = "asked"
  BY <1>1 DEF FetchInv
<1>6. ASSUME NEW u \in Url \ raced'
      PROVE  /\ \A g, h \in InFlight(u)' : g = h
             /\ \A g \in InFlight(u)' :
                  fetches'[g].stage = "answered" => newest'[u] = fetches'[g].rules
             /\ (\A g \in InFlight(u)' : fetches'[g].stage = "asked") => AsAsked(u)'
  <2>1. u \in Url \ raced /\ (AsAsked(u)' <=> AsAsked(u))
    BY <1>1 DEF AsAsked, Of
  <2>2. CASE u = v
    <3>1. InFlight(u) = {}
      BY <1>1, <2>2
    <3>2. InFlight(u)' = {f}
      BY <3>1, <1>4, <1>5, <2>2 DEF InFlight
    <3>3. AsAsked(u)
      BY <2>1, <3>1 DEF SourcesInv
    <3>. QED
      BY <1>5, <2>1, <3>2, <3>3
  <2>3. CASE u # v
    <3>1. fetches[f].url = None /\ u # None
      BY <1>1, SchemaRulesAssumption DEF Idle
    <3>2. InFlight(u)' = InFlight(u) /\ f \notin InFlight(u)
      BY <3>1, <1>4, <1>5, <2>3 DEF InFlight
    <3>3. \A g \in InFlight(u) : fetches'[g] = fetches[g]
      BY <3>2, <1>4 DEF InFlight
    <3>. QED
      BY <1>1, <2>1, <3>2, <3>3 DEF SourcesInv
  <2>. QED
    BY <2>2, <2>3
<1>. QED
  BY <1>1, <1>3, <1>6 DEF SourcesInv

LEMMA UrlAnswersKeeps ==
  ASSUME FetchInv, SourcesInv, NEW f \in Fetch, NEW r, UrlAnswers(f, r)
  PROVE  FetchInv' /\ SourcesInv'
<1>. DEFINE v == fetches[f].url
<1>1. /\ fetches[f].stage = "asked" /\ r \in Served[v]
      /\ UNCHANGED <<urlSchemaSources, raced>>
      /\ fetches' = [fetches EXCEPT ![f].stage = "answered", ![f].rules = r]
      /\ newest' = [newest EXCEPT ![v] = r]
  BY DEF UrlAnswers, settingVars
<1>2. fetches[f] \in [url : Url \cup {None}, stage : {"idle", "asked", "answered"},
                      rules : Rules(SchemaId)] /\ v # None
  BY <1>1 DEF FetchInv
<1>3. v \in Url /\ r \in Rules(SchemaId) /\ r # Nothing
  BY <1>1, <1>2, SchemaRulesAssumption
<1>4. fetches'[f] = [url |-> v, stage |-> "answered", rules |-> r]
      /\ \A g \in Fetch \ {f} : fetches'[g] = fetches[g]
  BY <1>1, <1>2 DEF FetchInv
<1>5. fetches' = [g \in Fetch |-> fetches'[g]]
  BY <1>1 DEF FetchInv
<1>. HIDE DEF v
<1>6. FetchInv'
  BY <1>2, <1>3, <1>4, <1>5 DEF FetchInv
<1>7. \A u : InFlight(u)' = InFlight(u)
  BY <1>4 DEF InFlight, v
<1>8. newest' \in [Url -> Rules(SchemaId)] /\ newest'[v] = r
      /\ \A u \in Url \ {v} : newest'[u] = newest[u]
  BY <1>1, <1>3 DEF SourcesInv
<1>9. ASSUME NEW u \in Url \ raced'
      PROVE  /\ \A g, h \in InFlight(u)' : g = h
             /\ \A g \in InFlight(u)' :
                  fetches'[g].stage = "answered" => newest'[u] = fetches'[g].rules
             /\ (\A g \in InFlight(u)' : fetches'[g].stage = "asked") => AsAsked(u)'
  <2>1. u \in Url \ raced
    BY <1>1
  <2>2. CASE u = v
    <3>1. f \in InFlight(u)
      BY <2>2 DEF InFlight, v
    <3>2. \A g \in InFlight(u) : g = f
      BY <2>1, <3>1 DEF SourcesInv
    <3>. QED
      BY <1>4, <1>7, <1>8, <2>2, <3>1, <3>2
  <2>3. CASE u # v
    <3>1. f \notin InFlight(u)
      BY <2>3 DEF InFlight, v
    <3>2. \A g \in InFlight(u) : fetches'[g] = fetches[g]
      BY <3>1, <1>4 DEF InFlight
    <3>3. newest'[u] = newest[u] /\ (AsAsked(u)' <=> AsAsked(u))
      BY <1>1, <1>8, <2>3 DEF AsAsked, Of
    <3>. QED
      BY <1>7, <2>1, <3>2, <3>3 DEF SourcesInv
  <2>. QED
    BY <2>2, <2>3
<1>. QED
  BY <1>1, <1>6, <1>8, <1>9 DEF SourcesInv

\* A fetch ends: it failed, or its answer is filled in.
LEMMA FetchEnds ==
  ASSUME FetchInv, NEW f \in Fetch, fetches' = [fetches EXCEPT ![f] = Idle]
  PROVE  /\ FetchInv'
         /\ \A u : u # None => InFlight(u)' = InFlight(u) \ {f}
         /\ \A g \in Fetch \ {f} : fetches'[g] = fetches[g]
<1>1. Nothing \in Rules(SchemaId)
  BY RulesFacts
<1>2. fetches'[f] = Idle /\ \A g \in Fetch \ {f} : fetches'[g] = fetches[g]
  BY DEF FetchInv
<1>3. FetchInv'
  BY <1>1 DEF FetchInv, Idle
<1>4. ASSUME NEW u, u # None PROVE InFlight(u)' = InFlight(u) \ {f}
  BY <1>2, <1>4 DEF InFlight, Idle
<1>. QED
  BY <1>2, <1>3, <1>4

LEMMA UrlFailsKeeps ==
  ASSUME FetchInv, SourcesInv, NEW f \in Fetch, UrlFails(f)
  PROVE  FetchInv' /\ SourcesInv'
<1>1. /\ fetches[f].stage = "asked" /\ UNCHANGED <<urlSchemaSources, newest, raced>>
      /\ fetches' = [fetches EXCEPT ![f] = Idle]
  BY DEF UrlFails, settingVars
<1>2. /\ FetchInv'
      /\ \A u : u # None => InFlight(u)' = InFlight(u) \ {f}
      /\ \A g \in Fetch \ {f} : fetches'[g] = fetches[g]
  BY <1>1, FetchEnds
<1>3. ASSUME NEW u \in Url \ raced'
      PROVE  /\ \A g, h \in InFlight(u)' : g = h
             /\ \A g \in InFlight(u)' :
                  fetches'[g].stage = "answered" => newest'[u] = fetches'[g].rules
             /\ (\A g \in InFlight(u)' : fetches'[g].stage = "asked") => AsAsked(u)'
  <2>1. u \in Url \ raced /\ (AsAsked(u)' <=> AsAsked(u))
        /\ InFlight(u)' = InFlight(u) \ {f} /\ newest'[u] = newest[u]
    BY <1>1, <1>2, SchemaRulesAssumption DEF AsAsked, Of
  <2>2. \A g \in InFlight(u)' : fetches'[g] = fetches[g]
    BY <1>2, <2>1 DEF InFlight
  <2>3. (\A g \in InFlight(u)' : fetches[g].stage = "asked") => AsAsked(u)
    BY <1>1, <2>1 DEF SourcesInv
  <2>. QED
    BY <2>1, <2>2, <2>3 DEF SourcesInv
<1>. QED
  BY <1>1, <1>2, <1>3 DEF SourcesInv

LEMMA FillSourceSources ==
  ASSUME RulesInv, SourcesInv, NEW f \in Fetch, FillSource(f)
  PROVE  FetchInv' /\ SourcesInv'
<1>. DEFINE v == fetches[f].url
            r == fetches[f].rules
<1>1. /\ fetches[f].stage = "answered" /\ UNCHANGED <<newest, raced>>
      /\ fetches' = [fetches EXCEPT ![f] = Idle]
      /\ urlSchemaSources' = AddSource(v, r)
  BY DEF FillSource
<1>2. v \in Url /\ r \in Rules(SchemaId) /\ r # Nothing /\ v # None
  BY <1>1, AnsweredFetch, SchemaRulesAssumption DEF RulesInv, FetchInv
<1>3. /\ FetchInv'
      /\ \A u : u # None => InFlight(u)' = InFlight(u) \ {f}
      /\ \A g \in Fetch \ {f} : fetches'[g] = fetches[g]
  BY <1>1, FetchEnds DEF RulesInv
<1>4. /\ Items(urlSchemaSources') =
           {s \in Items(urlSchemaSources) : s.url # v} \cup {[url |-> v, rules |-> r]}
      /\ Distinct(urlSchemaSources')
  BY <1>1, <1>2, AddSourceKeeps DEF AddSource, RulesInv, SettingInv, SourcesInv
<1>5. f \in InFlight(v)
  BY DEF InFlight
<1>. HIDE DEF v, r
<1>6. ASSUME NEW u \in Url \ raced'
      PROVE  /\ \A g, h \in InFlight(u)' : g = h
             /\ \A g \in InFlight(u)' :
                  fetches'[g].stage = "answered" => newest'[u] = fetches'[g].rules
             /\ (\A g \in InFlight(u)' : fetches'[g].stage = "asked") => AsAsked(u)'
  <2>1. u \in Url \ raced /\ newest'[u] = newest[u] /\ InFlight(u)' = InFlight(u) \ {f}
    BY <1>1, <1>3, SchemaRulesAssumption
  <2>2. \A g \in InFlight(u)' : fetches'[g] = fetches[g]
    BY <1>3, <2>1 DEF InFlight
  <2>3. CASE u = v
    <3>1. InFlight(u)' = {} /\ newest[u] = r
      BY <1>1, <1>5, <2>1, <2>3 DEF SourcesInv, r
    <3>2. {s \in Items(urlSchemaSources') : s.url = v} = {[url |-> v, rules |-> r]}
      BY <1>4
    <3>3. AsAsked(u)'
      BY <1>2, <2>1, <2>3, <3>1, <3>2 DEF AsAsked, Of
    <3>. QED
      BY <3>1, <3>3
  <2>4. CASE u # v
    <3>1. Of(u)' = Of(u)
      BY <1>4, <2>4 DEF Of
    <3>2. f \notin InFlight(u) /\ (AsAsked(u)' <=> AsAsked(u))
      BY <2>1, <2>4, <3>1 DEF InFlight, AsAsked, v
    <3>. QED
      BY <2>1, <2>2, <3>2 DEF SourcesInv
  <2>. QED
    BY <2>3, <2>4
<1>. QED
  BY <1>1, <1>3, <1>4, <1>6 DEF SourcesInv

LEMMA RemoveSourceSources ==
  ASSUME RulesInv, SourcesInv, NEW v \in Url, RemoveSource(v)
  PROVE  SourcesInv'
<1>1. /\ UNCHANGED fetches /\ newest' = [newest EXCEPT ![v] = Nothing]
      /\ raced' = raced \cup {w \in {v} : InFlight(w) # {}}
      /\ urlSchemaSources' = OtherSources(urlSchemaSources, v)
  BY DEF RemoveSource
<1>2. /\ Items(urlSchemaSources') = {s \in Items(urlSchemaSources) : s.url # v}
      /\ Distinct(urlSchemaSources')
  BY <1>1, OthersAre DEF RulesInv, SettingInv, SourcesInv
<1>3. \A u : InFlight(u)' = InFlight(u)
  BY <1>1 DEF InFlight
<1>4. newest' \in [Url -> Rules(SchemaId)] /\ newest'[v] = Nothing
      /\ \A u \in Url \ {v} : newest'[u] = newest[u]
  BY <1>1, RulesFacts DEF SourcesInv
<1>5. ASSUME NEW u \in Url \ raced'
      PROVE  /\ \A g, h \in InFlight(u)' : g = h
             /\ \A g \in InFlight(u)' :
                  fetches'[g].stage = "answered" => newest'[u] = fetches'[g].rules
             /\ (\A g \in InFlight(u)' : fetches'[g].stage = "asked") => AsAsked(u)'
  <2>1. u \in Url \ raced
    BY <1>1
  <2>2. CASE u = v
    <3>1. InFlight(u) = {}
      BY <1>1, <2>2
    <3>2. Of(u)' = {}
      BY <1>2, <2>2 DEF Of
    <3>. QED
      BY <1>3, <1>4, <2>2, <3>1, <3>2 DEF AsAsked
  <2>3. CASE u # v
    <3>1. Of(u)' = Of(u)
      BY <1>2, <2>3 DEF Of
    <3>2. newest'[u] = newest[u] /\ (AsAsked(u)' <=> AsAsked(u))
      BY <1>4, <2>3, <3>1 DEF AsAsked
    <3>. QED
      BY <1>1, <1>3, <2>1, <3>2 DEF SourcesInv
  <2>. QED
    BY <2>2, <2>3
<1>. QED
  BY <1>2, <1>4, <1>5 DEF SourcesInv

\* Loading the page again ends every fetch.
LEMMA ReloadSources ==
  ASSUME RulesInv, SourcesInv, SchemaReload PROVE FetchInv' /\ SourcesInv'
<1>1. urlSchemaSources' = urlSchemaSources /\ newest' = newest
      /\ raced' = raced \cup {u \in Url : InFlight(u) # {}}
      /\ fetches' = [f \in Fetch |-> Idle]
  BY DEF SchemaReload, RulesInv, SettingInv
<1>2. FetchInv'
  BY <1>1, RulesFacts DEF FetchInv, Idle
<1>3. ASSUME NEW u \in Url \ raced' PROVE InFlight(u)' = {} /\ AsAsked(u)'
  <2>1. u \in Url \ raced /\ InFlight(u) = {}
    BY <1>1
  <2>2. AsAsked(u) /\ (AsAsked(u)' <=> AsAsked(u))
    BY <1>1, <2>1 DEF SourcesInv, AsAsked, Of
  <2>3. InFlight(u)' = {}
    BY <1>1, SchemaRulesAssumption DEF InFlight, Idle
  <2>. QED
    BY <2>2, <2>3
<1>. QED
  BY <1>1, <1>2, <1>3 DEF SourcesInv

LEMMA SourcesStep == RulesInv /\ SourcesInv /\ [Next]_vars => FetchInv' /\ SourcesInv'
<1>. SUFFICES ASSUME RulesInv, SourcesInv, [Next]_vars PROVE FetchInv' /\ SourcesInv'
  OBVIOUS
<1>. FetchInv
  BY DEF RulesInv
<1>1. ASSUME UNCHANGED <<urlSchemaSources, fetchVars>> PROVE FetchInv' /\ SourcesInv'
  BY <1>1, SourcesKept DEF fetchVars
<1>2. CASE (\E o \in Offers : ConfigAnswered(o)) \/ ConfigFails
           \/ (\E i \in SchemaId : ToggleSchema(i)) \/ (\E i \in DashId : ToggleDash(i))
  <2>1. Rebuild
    BY <1>2 DEF ConfigFails, ConfigAnswered, ToggleSchema, ToggleDash
  <2>. QED
    BY <1>1, <2>1 DEF Rebuild, settingVars
<1>3. CASE SchemaCommand
  <2>1. CASE \E f \in Fetch, u \in Url : AskUrl(f, u)
    BY <2>1, AskUrlKeeps
  <2>2. CASE \E u \in Url : RemoveSource(u)
    <3>1. UNCHANGED fetches
      BY <2>2 DEF RemoveSource
    <3>. QED
      BY <2>2, <3>1, RemoveSourceSources, SourcesKept
  <2>3. CASE \/ \E i \in SchemaId \cup LocalSchemaId : StartEditRule(i) \/ ResetRule(i)
             \/ CancelEditRule
             \/ \E i \in LocalSchemaId, c \in Content : AddRule(i, c)
             \/ \E c \in Content : UpdateLocalRule(c) \/ OverrideRule(c)
             \/ \E i \in LocalSchemaId : DeleteRule(i)
    <3>1. UNCHANGED <<urlSchemaSources, fetchVars>>
      BY <2>3 DEF StartEditRule, CancelEditRule, AddRule, UpdateLocalRule, OverrideRule,
                  ResetRule, DeleteRule, settingVars
    <3>. QED
      BY <3>1, <1>1
  <2>. QED
    BY <1>3, <2>1, <2>2, <2>3 DEF SchemaCommand
<1>4. CASE UrlFetch
  BY <1>4, UrlAnswersKeeps, UrlFailsKeeps, FillSourceSources DEF UrlFetch
<1>5. CASE LinkCommand
  BY <1>5, <1>1 DEF LinkCommand, Redraw, schemaVars, settingVars
<1>6. CASE PacketList
  BY <1>6, <1>1 DEF PacketList, Redraw, AppendRow, ClearCache, settingVars
<1>7. CASE Reload
  BY <1>7, ReloadSources DEF Reload
<1>8. CASE UNCHANGED vars
  BY <1>8, <1>1 DEF vars, schemaVars, settingVars
<1>. QED
  BY <1>2, <1>3, <1>4, <1>5, <1>6, <1>7, <1>8 DEF Next

-----------------------------------------------------------------------------
(* What a step does to the rules and to what is drawn from them *)

\* The rules are computed again and everything is drawn.
Refreshes ==
  /\ UNCHANGED listVars
  /\ \E e : RefreshSchemaViews(e) /\ editingSchemaRuleId' \in {None, e}

\* Neither the rules nor what is drawn of packets changes; the settings list
\* may be drawn for another rule to be edited.
Keeps ==
  /\ UNCHANGED <<itemVars, listVars, settingVars, schemaRules, verdictVars>>
  /\ UNCHANGED <<schemaList, editingSchemaRuleId>> \/ RenderSchemaRules(editingSchemaRuleId')

\* A packet comes, packets are filtered, or the details are drawn for another
\* packet.
AppendsRow ==
  \E p \in Packet \ packets : Arrive(p) /\ AppendRow(p) /\ UNCHANGED itemVars
DrawsRows == Redraw({"rows"}) /\ UNCHANGED <<itemVars, selectedId, packets>>
DrawsDetail == Redraw({"detail"}) /\ UNCHANGED <<itemVars, packets, filteredOut>>
Clears == ClearCache /\ UNCHANGED itemVars /\ packets' = {} /\ selectedId' = None

LEMMA Kinds ==
  [Next]_vars => Refreshes \/ Keeps \/ AppendsRow \/ DrawsRows \/ DrawsDetail \/ Clears \/ Reload
<1>. SUFFICES ASSUME [Next]_vars
              PROVE  Refreshes \/ Keeps \/ AppendsRow \/ DrawsRows \/ DrawsDetail \/ Clears \/ Reload
  OBVIOUS
<1>1. CASE (\E o \in Offers : ConfigAnswered(o)) \/ ConfigFails
           \/ (\E i \in SchemaId : ToggleSchema(i)) \/ (\E i \in DashId : ToggleDash(i))
  <2>1. Rebuild
    BY <1>1 DEF ConfigFails, ConfigAnswered, ToggleSchema, ToggleDash
  <2>. QED
    BY <2>1 DEF Rebuild, Refreshes
<1>2. CASE SchemaCommand
  <2>1. UNCHANGED <<itemVars, listVars>>
    BY <1>2 DEF SchemaCommand
  <2>2. CASE \/ \E i \in SchemaId \cup LocalSchemaId : StartEditRule(i)
             \/ CancelEditRule
             \/ \E f \in Fetch, u \in Url : AskUrl(f, u)
    BY <2>1, <2>2 DEF Keeps, StartEditRule, CancelEditRule, AskUrl, drawnVars
  <2>3. CASE \/ \E i \in LocalSchemaId, c \in Content : AddRule(i, c)
             \/ \E c \in Content : UpdateLocalRule(c)
             \/ \E c \in Content : OverrideRule(c)
             \/ \E i \in SchemaId \cup LocalSchemaId : ResetRule(i)
             \/ \E i \in LocalSchemaId : DeleteRule(i)
             \/ \E u \in Url : RemoveSource(u)
    BY <2>1, <2>3 DEF Refreshes, AddRule, UpdateLocalRule, OverrideRule, ResetRule,
                      DeleteRule, RemoveSource, EditingAfterRefresh
  <2>. QED
    BY <1>2, <2>2, <2>3 DEF SchemaCommand
<1>3. CASE UrlFetch
  <2>1. UNCHANGED <<itemVars, listVars>>
    BY <1>3 DEF UrlFetch
  <2>2. CASE \E f \in Fetch : FillSource(f)
    BY <2>1, <2>2 DEF Refreshes, FillSource
  <2>3. CASE \E f \in Fetch : UrlFails(f) \/ \E r \in UNION Range(Served) : UrlAnswers(f, r)
    BY <2>1, <2>3 DEF Keeps, UrlFails, UrlAnswers, drawnVars
  <2>. QED
    BY <1>3, <2>2, <2>3 DEF UrlFetch
<1>4. CASE LinkCommand
  <2>1. UNCHANGED <<itemVars, listVars>> /\ (UNCHANGED schemaVars \/ Redraw({"detail"}))
    BY <1>4 DEF LinkCommand
  <2>. QED
    BY <2>1 DEF Keeps, DrawsDetail, schemaVars, drawnVars, listVars
<1>5. CASE PacketList
  BY <1>5 DEF PacketList, Filter, Select, ClearList, AppendsRow, DrawsRows, DrawsDetail, Clears
<1>6. CASE UNCHANGED vars
  BY <1>6 DEF vars, Keeps, schemaVars, drawnVars
<1>. QED
  BY <1>1, <1>2, <1>3, <1>4, <1>5, <1>6 DEF Next

-----------------------------------------------------------------------------
(* The rules in force *)

\* The validator has the rules that follow from the settings.
RulesInForce ==
  schemaRules = Effective(serverSchemaRules, urlSchemaSources, schemaOverrides,
                          localSchemaRules, disabled)

LEMMA RulesInForceStep == ItemInv /\ RulesInForce /\ [Next]_vars => RulesInForce'
<1>. SUFFICES ASSUME ItemInv, RulesInForce, [Next]_vars PROVE RulesInForce'
  OBVIOUS
<1>1. CASE Refreshes
  BY <1>1 DEF Refreshes, RefreshSchemaViews, RulesInForce
<1>2. CASE Keeps \/ AppendsRow \/ DrawsRows \/ DrawsDetail \/ Clears
  <2>1. UNCHANGED <<schemaRules, itemVars, settingVars>>
    BY <1>2 DEF Keeps, AppendsRow, DrawsRows, DrawsDetail, Clears, AppendRow, Redraw, ClearCache
  <2>. QED
    BY <2>1 DEF RulesInForce, itemVars, settingVars
<1>3. CASE Reload
  <2>1. disabled' = storedDisabled /\ serverSchemaRules' = Nothing
    BY <1>3 DEF Reload, ItemsReload
  <2>. QED
    BY <1>3, <2>1 DEF Reload, SchemaReload, RulesInForce
<1>. QED
  BY <1>1, <1>2, <1>3, Kinds

SchemaInv == ItemInv /\ RulesInv /\ SourcesInv /\ RulesInForce

LEMMA SchemaInvHolds == Spec => []SchemaInv
<1>1. Init => SchemaInv
  <2>. SUFFICES ASSUME Init PROVE SchemaInv
    OBVIOUS
  <2>1. ItemInv /\ RulesInv
    BY RulesFacts, RulesInit DEF Init, ItemsInit, ItemInv
  <2>2. SourcesInv
    <3>1. \A u \in Url : InFlight(u) = {}
      BY SchemaRulesAssumption DEF Init, SchemaInit, InFlight, Idle
    <3>2. Items(urlSchemaSources) = {} /\ Distinct(urlSchemaSources)
      BY DEF Init, SchemaInit, Items, Distinct
    <3>3. newest = [u \in Url |-> Nothing] /\ newest \in [Url -> Rules(SchemaId)]
      BY RulesFacts DEF Init, SchemaInit
    <3>. QED
      BY <3>1, <3>2, <3>3 DEF SourcesInv, AsAsked, Of
  <2>3. RulesInForce
    <3>1. Nothing \in Rules(SchemaId) /\ <<>> \in Seq(Source) /\ DOMAIN Nothing = {}
      BY RulesFacts, NothingIsEmpty
    <3>2. DOMAIN AllRemote(Nothing, <<>>) = {}
      <4>1. ASSUME NEW i, NEW none \in Seq(Source), DOMAIN none = {}
            PROVE  i \notin DOMAIN AllRemote(Nothing, none)
        <5>1. i \in DOMAIN AllRemote(Nothing, none)
                <=> {n \in DOMAIN none : i \in DOMAIN none[n].rules} # {} \/ i \in DOMAIN Nothing
          BY <3>1, RemoteIsAsOffered
        <5>. QED
          BY <3>1, <4>1, <5>1
      <4>2. DOMAIN <<>> = {}
        OBVIOUS
      <4>. QED
        BY <3>1, <4>1, <4>2
    <3>3. \A off : DOMAIN EnabledRules(AllRemote(Nothing, <<>>), off) = {}
      BY <3>2 DEF EnabledRules, Restrict
    <3>4. \A off : DOMAIN WithOverrides(EnabledRules(AllRemote(Nothing, <<>>), off), Nothing) = {}
      BY <3>3 DEF WithOverrides
    <3>5. \A g : DOMAIN g = {} => Over(Nothing, g) = Nothing
      BY <3>1, NothingIsEmpty DEF Over
    <3>6. Effective(Nothing, <<>>, Nothing, Nothing, {}) = Nothing
      BY <3>4, <3>5 DEF Effective
    <3>. QED
      BY <3>6 DEF RulesInForce, Init, ItemsInit, SchemaInit
  <2>. QED
    BY <2>1, <2>2, <2>3 DEF SchemaInv
<1>2. SchemaInv /\ [Next]_vars => SchemaInv'
  BY ItemStep, SettingStep, SourcesStep, RulesInForceStep DEF RulesInv, SchemaInv
<1>. QED
  BY <1>1, <1>2, PTL DEF Spec

-----------------------------------------------------------------------------
\* A URL source has the rules that the newest fetch of it was answered with,
\* is listed once, and is gone once removed, for any number of URLs and of
\* fetches under way, as long as two of one URL do not overlap.
THEOREM SourcesAreRight == Spec => []SourcesAreAsLastAsked
<1>1. SchemaInv => SourcesAreAsLastAsked
  <2>. SUFFICES ASSUME SchemaInv, NEW u \in Url \ raced, InFlight(u) = {}
                PROVE  /\ Cardinality({n \in DOMAIN urlSchemaSources :
                                         urlSchemaSources[n].url = u})
                            = (IF newest[u] = Nothing THEN 0 ELSE 1)
                       /\ \A n \in DOMAIN urlSchemaSources :
                            urlSchemaSources[n].url = u
                              => urlSchemaSources[n].rules = newest[u]
    BY DEF SourcesAreAsLastAsked
  <2>. DEFINE at == {n \in DOMAIN urlSchemaSources : urlSchemaSources[n].url = u}
  <2>1. AsAsked(u)
    BY DEF SchemaInv, SourcesInv
  <2>2. \A n \in at : urlSchemaSources[n] \in Of(u)
    BY DEF Of, Items
  <2>3. CASE newest[u] = Nothing
    <3>1. at = {}
      BY <2>1, <2>2, <2>3 DEF AsAsked
    <3>2. Cardinality(at) = 0
      BY <3>1, FS_EmptySet
    <3>. QED
      BY <2>3, <3>1, <3>2
  <2>4. CASE newest[u] # Nothing
    <3>1. Of(u) = {[url |-> u, rules |-> newest[u]]}
      BY <2>1, <2>4 DEF AsAsked
    <3>2. PICK n \in at : TRUE
      BY <3>1 DEF Of, Items
    <3>3. at = {n}
      BY <3>2 DEF SchemaInv, SourcesInv, Distinct
    <3>4. Cardinality(at) = 1
      <4>. HIDE DEF at
      <4>. QED
        BY <3>3, FS_Singleton
    <3>5. \A m \in at : urlSchemaSources[m].rules = newest[u]
      BY <2>2, <3>1
    <3>. QED
      BY <2>4, <3>4, <3>5
  <2>. QED
    BY <2>3, <2>4
<1>. QED
  BY <1>1, SchemaInvHolds, PTL

-----------------------------------------------------------------------------
\* Validation uses the local rules, and of the remote ones those that are on,
\* each as the user has last edited it or else as its latest source has it, for
\* any number of sources that offer any rules.
THEOREM ValidatorFollows == Spec => []ValidatorFollowsSettings
<1>1. SchemaInv => ValidatorFollowsSettings
  <2>. SUFFICES ASSUME SchemaInv PROVE ValidatorFollowsSettings
    OBVIOUS
  <2>. DEFINE all == AllRemote(serverSchemaRules, urlSchemaSources)
              on == EnabledRules(all, disabled)
              edited == WithOverrides(on, schemaOverrides)
  <2>1. /\ all \in Rules(SchemaId)
        /\ \A i : i \in DOMAIN all <=> Offered(i)
        /\ \A i \in DOMAIN all : all[i] = AsOffered(i)
    BY RemoteIsAsOffered DEF SchemaInv, ItemInv, RulesInv, SettingInv, Offered, Offering, AsOffered
  <2>2. DOMAIN all \subseteq SchemaId /\ DOMAIN localSchemaRules \subseteq LocalSchemaId
        /\ DOMAIN schemaOverrides \subseteq SchemaId /\ edits = schemaOverrides
    BY <2>1, RulesFacts DEF SchemaInv, RulesInv, SettingInv
  <2>3. schemaRules = Over(localSchemaRules, edited)
    BY DEF SchemaInv, RulesInForce, Effective
  <2>. HIDE DEF all
  <2>4. /\ DOMAIN on = {i \in DOMAIN all : SchemaKey(i) \notin disabled}
        /\ \A i \in DOMAIN on : on[i] = all[i]
    BY DEF EnabledRules, Restrict
  <2>. HIDE DEF on
  <2>5. /\ DOMAIN edited = DOMAIN on
        /\ \A i \in DOMAIN on :
             edited[i] = IF i \in DOMAIN schemaOverrides THEN schemaOverrides[i] ELSE on[i]
    BY DEF WithOverrides
  <2>. HIDE DEF edited
  <2>6. DOMAIN schemaRules = DOMAIN localSchemaRules
          \cup {i \in SchemaId : Offered(i) /\ SchemaKey(i) \notin disabled}
    <3>1. DOMAIN schemaRules = DOMAIN localSchemaRules \cup DOMAIN edited
      BY <2>3, OverDomain
    <3>2. DOMAIN edited = {i \in SchemaId : Offered(i) /\ SchemaKey(i) \notin disabled}
      BY <2>1, <2>2, <2>4, <2>5
    <3>. QED
      BY <3>1, <3>2
  <2>7. ASSUME NEW i \in DOMAIN schemaRules
        PROVE  schemaRules[i] = IF i \in LocalSchemaId THEN localSchemaRules[i]
                                ELSE IF i \in DOMAIN edits THEN edits[i] ELSE AsOffered(i)
    <3>1. i \in LocalSchemaId <=> i \in DOMAIN localSchemaRules
      BY <2>2, <2>6, ServerItemsAssumption
    <3>2. CASE i \in LocalSchemaId
      BY <2>3, <3>1, <3>2, OverDomain
    <3>3. CASE i \notin LocalSchemaId
      <4>1. DOMAIN schemaRules = DOMAIN localSchemaRules \cup DOMAIN edited
        BY <2>3, OverDomain
      <4>2. i \in DOMAIN edited /\ i \notin DOMAIN localSchemaRules
        BY <4>1, <3>1, <3>3
      <4>3. schemaRules[i] = edited[i]
        BY <2>3, <4>2, OverDomain
      <4>. QED
        BY <2>1, <2>2, <2>4, <2>5, <3>3, <4>2, <4>3
    <3>. QED
      BY <3>2, <3>3
  <2>. QED
    BY <2>6, <2>7 DEF ValidatorFollowsSettings
<1>. QED
  BY <1>1, SchemaInvHolds, PTL

-----------------------------------------------------------------------------
(* The verdicts on packets *)

\* A verdict in the cache that counts as fresh was reached with the rules in
\* force.
CacheInv ==
  /\ packetCache = [p \in Packet |-> [rules |-> packetCache[p].rules,
                                      fresh |-> packetCache[p].fresh]]
  /\ \A p \in Packet : packetCache[p].fresh \in BOOLEAN
  /\ \A p \in Packet : packetCache[p].fresh => packetCache[p].rules = schemaRules

\* The rows are given the verdicts of these rules, and all of them are there if
\* each can be drawn.
RowsFollow(rules) ==
  /\ DOMAIN rowVerdict' \subseteq Rows'
  /\ Rows' \cap Undrawable(rules) = {} => Rows' \subseteq DOMAIN rowVerdict'
  /\ \A p \in DOMAIN rowVerdict' : rowVerdict'[p] = rules

\* The details are, unless they are drawn in vain.
DetailsFollow(rules) == undrawn' \/ detailVerdict' = [p \in Shown' |-> rules]

\* Drawing with the rules in force gives every packet drawn their verdict, and
\* leaves in the cache no fresh verdict of other rules.
LEMMA Drawing ==
  ASSUME CacheInv, NEW rules, NEW bump \in BOOLEAN, NEW what, Draw(rules, bump, what),
         schemaRules' = rules, bump \/ rules = schemaRules,
         Rows' \subseteq Packet, Shown' \subseteq Packet
  PROVE  /\ CacheInv'
         /\ "rows" \in what => RowsFollow(rules)
         /\ "rows" \notin what => UNCHANGED rowVerdict
         /\ "detail" \in what => DetailsFollow(rules)
         /\ "detail" \notin what => UNCHANGED <<undrawn, detailVerdict>>
<1>. DEFINE old == [p \in Packet |-> IF bump THEN Stale(packetCache[p]) ELSE packetCache[p]]
            failing == {p \in Undrawable(rules) : ~old[p].fresh}
            cut == "rows" \in what /\ Rows' \cap failing # {}
            details == "detail" \in what /\ ~cut /\ Shown' \cap failing = {}
<1>0. PICK rows \in (IF "rows" \in what THEN RowsDrawn(failing) ELSE {{}}) :
        LET drawn == rows \cup (IF details THEN Shown' ELSE {}) IN
        /\ packetCache' =
             [p \in Packet |-> IF p \in drawn THEN Validated(old[p], rules) ELSE old[p]]
        /\ rowVerdict' = IF "rows" \in what THEN [p \in rows |-> packetCache'[p].rules]
                         ELSE rowVerdict
        /\ detailVerdict' = IF details THEN [p \in Shown' |-> packetCache'[p].rules]
                            ELSE detailVerdict
        /\ undrawn' = IF "detail" \in what THEN ~details ELSE undrawn
  BY DEF Draw
<1>. DEFINE drawn == rows \cup (IF details THEN Shown' ELSE {})
<1>1. packetCache' = [p \in Packet |-> IF p \in drawn THEN Validated(old[p], rules) ELSE old[p]]
  BY <1>0
<1>8. /\ rowVerdict' = IF "rows" \in what THEN [p \in rows |-> packetCache'[p].rules]
                       ELSE rowVerdict
      /\ "detail" \in what =>
           \/ undrawn'
           \/ details /\ detailVerdict' = [p \in Shown' |-> packetCache'[p].rules]
      /\ "detail" \notin what => UNCHANGED <<undrawn, detailVerdict>>
  BY <1>0
<1>9. /\ "rows" \in what => rows \subseteq Rows'
      /\ "rows" \in what /\ Rows' \cap Undrawable(rules) = {} => rows = Rows'
  <2>1. failing \subseteq Undrawable(rules)
    OBVIOUS
  <2>. HIDE DEF failing
  <2>. QED
    BY <2>1 DEF RowsDrawn
<1>10. rows \subseteq drawn /\ (details => Shown' \subseteq drawn)
  OBVIOUS
<1>. HIDE DEF details, drawn
<1>2. ASSUME NEW p \in Packet
      PROVE  /\ old[p] = [rules |-> packetCache[p].rules, fresh |-> old[p].fresh]
             /\ old[p].fresh \in BOOLEAN
             /\ old[p].fresh => packetCache[p].rules = rules
  <2>1. packetCache[p] = [rules |-> packetCache[p].rules, fresh |-> packetCache[p].fresh]
    BY DEF CacheInv
  <2>2. CASE bump
    <3>1. old[p] = [packetCache[p] EXCEPT !.fresh = FALSE]
      BY <2>2 DEF Stale
    <3>2. old[p] = [rules |-> packetCache[p].rules, fresh |-> FALSE]
      BY <2>1, <3>1
    <3>. HIDE DEF old
    <3>3. old[p].fresh = FALSE
      BY <3>2
    <3>. QED
      BY <3>2, <3>3
  <2>3. CASE ~bump
    <3>1. old[p] = packetCache[p]
      BY <2>3
    <3>. QED
      BY <2>1, <2>3, <3>1 DEF CacheInv
  <2>. QED
    BY <2>2, <2>3
<1>. HIDE DEF old
<1>3. ASSUME NEW p \in Packet
      PROVE  /\ packetCache'[p] = [rules |-> packetCache'[p].rules,
                                   fresh |-> packetCache'[p].fresh]
             /\ packetCache'[p].fresh \in BOOLEAN
             /\ packetCache'[p].fresh => packetCache'[p].rules = rules
             /\ p \in drawn => packetCache'[p].rules = rules
  <2>0. /\ old[p] = [rules |-> packetCache[p].rules, fresh |-> old[p].fresh]
        /\ old[p].fresh \in BOOLEAN
        /\ old[p].fresh => old[p].rules = rules
    <3>1. /\ old[p] = [rules |-> packetCache[p].rules, fresh |-> old[p].fresh]
          /\ old[p].fresh \in BOOLEAN
          /\ old[p].fresh => packetCache[p].rules = rules
      BY <1>2
    <3>2. old[p].rules = packetCache[p].rules
      BY <3>1
    <3>. QED
      BY <3>1, <3>2, Zenon
  <2>1. CASE p \in drawn
    <3>1. packetCache'[p] = IF old[p].fresh THEN old[p] ELSE [rules |-> rules, fresh |-> TRUE]
      BY <1>1, <2>1 DEF Validated
    <3>2. CASE old[p].fresh
      <4>1. packetCache'[p] = old[p] /\ old[p].rules = rules
        BY <2>0, <3>1, <3>2, Zenon
      <4>2. old[p] = [rules |-> old[p].rules, fresh |-> old[p].fresh]
        BY <2>0
      <4>. QED
        BY <2>0, <4>1, <4>2, Zenon
    <3>3. CASE ~old[p].fresh
      <4>1. packetCache'[p] = [rules |-> rules, fresh |-> TRUE]
        BY <3>1, <3>3
      <4>. QED
        BY <4>1
    <3>. QED
      BY <3>2, <3>3
  <2>2. CASE p \notin drawn
    <3>1. packetCache'[p] = old[p]
      BY <1>1, <2>2
    <3>2. old[p] = [rules |-> old[p].rules, fresh |-> old[p].fresh]
      BY <2>0
    <3>. QED
      BY <2>0, <2>2, <3>1, <3>2, Zenon
  <2>. QED
    BY <2>1, <2>2
<1>4. CacheInv'
  <2>1. packetCache' = [p \in Packet |-> packetCache'[p]]
    BY <1>1
  <2>2. packetCache' = [p \in Packet |-> [rules |-> packetCache'[p].rules,
                                          fresh |-> packetCache'[p].fresh]]
    BY <2>1, <1>3
  <2>. QED
    BY <2>2, <1>3 DEF CacheInv
<1>5. "rows" \in what => RowsFollow(rules)
  <2>. SUFFICES ASSUME "rows" \in what PROVE RowsFollow(rules)
    OBVIOUS
  <2>1. DOMAIN rowVerdict' = rows /\ \A p \in rows : rowVerdict'[p] = packetCache'[p].rules
    BY <1>8
  <2>2. \A p \in rows : packetCache'[p].rules = rules
    BY <1>3, <1>9, <1>10
  <2>. QED
    BY <1>9, <2>1, <2>2 DEF RowsFollow
<1>6. "detail" \in what => undrawn' \/ detailVerdict' = [p \in Shown' |-> rules]
  <2>. SUFFICES ASSUME "detail" \in what, ~undrawn' PROVE detailVerdict' = [p \in Shown' |-> rules]
    OBVIOUS
  <2>1. detailVerdict' = [p \in Shown' |-> packetCache'[p].rules] /\ details
    BY <1>8
  <2>2. \A p \in Shown' : packetCache'[p].rules = rules
    BY <1>3, <1>10, <2>1
  <2>. QED
    BY <2>1, <2>2
<1>7. "rows" \notin what => UNCHANGED rowVerdict
  BY <1>8
<1>. QED
  BY <1>4, <1>5, <1>6, <1>7, <1>8 DEF DetailsFollow

LEMMA DrawnArePackets == ItemInv' => Rows' \subseteq Packet /\ Shown' \subseteq Packet
BY DEF ItemInv, Rows, Shown

\* A packet that arrives gets a row of its own, if its row can be drawn.
LEMMA AppendedRow ==
  ASSUME ItemInv, CacheInv, ShieldsAreFresh, NEW p \in Packet \ packets,
         Arrive(p), AppendRow(p)
  PROVE  CacheInv' /\ ShieldsAreFresh'
<1>1. /\ UNCHANGED <<schemaRules, undrawn, detailVerdict, selectedId, filteredOut>>
      /\ packets' = packets \cup {p}
  BY DEF Arrive, AppendRow
<1>2. Shown' = Shown /\ Rows' = Rows \cup ({p} \ filteredOut) /\ p \notin Rows
  BY <1>1 DEF Shown, Rows, ItemInv
<1>. DEFINE fails == p \in Undrawable(schemaRules) /\ ~packetCache[p].fresh
            drawn == p \in Rows' /\ ~fails
<1>3. CASE ~drawn
  <2>1. UNCHANGED <<packetCache, rowVerdict>>
    BY <1>3 DEF AppendRow
  <2>2. p \in Rows' => p \in Undrawable(schemaRules)
    BY <1>3
  <2>. QED
    BY <1>1, <1>2, <2>1, <2>2 DEF CacheInv, ShieldsAreFresh
<1>4. CASE drawn
  <2>. DEFINE new == Validated(packetCache[p], schemaRules)
  <2>1. /\ packetCache' = [packetCache EXCEPT ![p] = new]
        /\ rowVerdict' = With(rowVerdict, p, packetCache'[p].rules)
    BY <1>4 DEF AppendRow
  <2>2. /\ packetCache[p] = [rules |-> packetCache[p].rules, fresh |-> packetCache[p].fresh]
        /\ packetCache[p].fresh \in BOOLEAN
        /\ packetCache[p].fresh => packetCache[p].rules = schemaRules
    BY DEF CacheInv
  <2>3. new = [rules |-> schemaRules, fresh |-> TRUE]
    BY <2>2, Zenon DEF Validated
  <2>. HIDE DEF new
  <2>4. new.rules = schemaRules /\ new.fresh = TRUE
    BY <2>3
  <2>5. DOMAIN packetCache = Packet
    BY DEF CacheInv
  <2>6. /\ DOMAIN packetCache' = Packet /\ packetCache'[p] = new
        /\ \A q \in Packet \ {p} : packetCache'[q] = packetCache[q]
        /\ packetCache' = [q \in Packet |-> packetCache'[q]]
    BY <2>1, <2>5
  <2>7. ASSUME NEW q \in Packet
        PROVE  /\ packetCache'[q] = [rules |-> packetCache'[q].rules,
                                     fresh |-> packetCache'[q].fresh]
               /\ packetCache'[q].fresh \in BOOLEAN
               /\ packetCache'[q].fresh => packetCache'[q].rules = schemaRules
    <3>1. CASE q = p
      BY <2>3, <2>4, <2>6, <3>1
    <3>2. CASE q # p
      <4>1. packetCache'[q] = packetCache[q]
        BY <2>6, <3>2
      <4>2. packetCache[q] = [rules |-> packetCache[q].rules, fresh |-> packetCache[q].fresh]
        BY DEF CacheInv
      <4>. QED
        BY <4>1, <4>2 DEF CacheInv
    <3>. QED
      BY <3>1, <3>2
  <2>8. packetCache' = [q \in Packet |-> [rules |-> packetCache'[q].rules,
                                         fresh |-> packetCache'[q].fresh]]
    BY <2>6, <2>7
  <2>9. CacheInv'
    BY <1>1, <2>7, <2>8 DEF CacheInv
  <2>10. rowVerdict' = With(rowVerdict, p, schemaRules)
    BY <2>1, <2>4, <2>6
  <2>11. /\ DOMAIN rowVerdict' = DOMAIN rowVerdict \cup {p} /\ rowVerdict'[p] = schemaRules
         /\ \A q \in DOMAIN rowVerdict \ {p} : rowVerdict'[q] = rowVerdict[q]
    <3>. DEFINE w == With(rowVerdict, p, schemaRules)
    <3>1. /\ DOMAIN w = DOMAIN rowVerdict \cup {p} /\ w[p] = schemaRules
          /\ \A q \in DOMAIN rowVerdict \ {p} : w[q] = rowVerdict[q]
      BY DEF With, Over
    <3>. HIDE DEF w
    <3>2. rowVerdict' = w
      BY <2>10 DEF w
    <3>. QED
      BY <3>1, <3>2
  <2>. QED
    BY <1>1, <1>2, <1>4, <2>9, <2>11 DEF ShieldsAreFresh
<1>. QED
  BY <1>3, <1>4

LEMMA ShieldStep ==
  ItemInv /\ ItemInv' /\ CacheInv /\ ShieldsAreFresh /\ [Next]_vars
    => CacheInv' /\ ShieldsAreFresh'
<1>. SUFFICES ASSUME ItemInv, ItemInv', CacheInv, ShieldsAreFresh, [Next]_vars
              PROVE  CacheInv' /\ ShieldsAreFresh'
  OBVIOUS
<1>1. Rows' \subseteq Packet /\ Shown' \subseteq Packet
  BY DrawnArePackets
<1>2. CASE Refreshes
  <2>1. Draw(schemaRules', TRUE, {"rows", "detail"})
    BY <1>2 DEF Refreshes, RefreshSchemaViews
  <2>2. /\ CacheInv'
        /\ "rows" \in {"rows", "detail"} => RowsFollow(schemaRules')
        /\ "rows" \notin {"rows", "detail"} => UNCHANGED rowVerdict
        /\ "detail" \in {"rows", "detail"} => DetailsFollow(schemaRules')
        /\ "detail" \notin {"rows", "detail"} => UNCHANGED <<undrawn, detailVerdict>>
    BY <1>1, <2>1, Drawing
  <2>. QED
    BY <2>2 DEF ShieldsAreFresh, RowsFollow, DetailsFollow
<1>3. CASE Keeps
  BY <1>3 DEF Keeps, CacheInv, ShieldsAreFresh, Rows, Shown, listVars, verdictVars
<1>4. CASE DrawsRows
  <2>1. Draw(schemaRules, FALSE, {"rows"}) /\ schemaRules' = schemaRules
    BY <1>4 DEF DrawsRows, Redraw
  <2>2. /\ CacheInv'
        /\ "rows" \in {"rows"} => RowsFollow(schemaRules)
        /\ "rows" \notin {"rows"} => UNCHANGED rowVerdict
        /\ "detail" \in {"rows"} => DetailsFollow(schemaRules)
        /\ "detail" \notin {"rows"} => UNCHANGED <<undrawn, detailVerdict>>
    BY <1>1, <2>1, Drawing
  <2>3. Shown' = Shown
    BY <1>4 DEF DrawsRows, Shown
  <2>. QED
    BY <2>1, <2>2, <2>3 DEF ShieldsAreFresh, RowsFollow
<1>5. CASE DrawsDetail
  <2>1. Draw(schemaRules, FALSE, {"detail"}) /\ schemaRules' = schemaRules
    BY <1>5 DEF DrawsDetail, Redraw
  <2>2. /\ CacheInv'
        /\ "rows" \in {"detail"} => RowsFollow(schemaRules)
        /\ "rows" \notin {"detail"} => UNCHANGED rowVerdict
        /\ "detail" \in {"detail"} => DetailsFollow(schemaRules)
        /\ "detail" \notin {"detail"} => UNCHANGED <<undrawn, detailVerdict>>
    BY <1>1, <2>1, Drawing
  <2>3. Rows' = Rows
    BY <1>5 DEF DrawsDetail, Rows
  <2>. QED
    BY <2>1, <2>2, <2>3 DEF ShieldsAreFresh, DetailsFollow
<1>7. CASE AppendsRow
  BY <1>7, AppendedRow DEF AppendsRow
<1>6. CASE Clears \/ Reload
  <2>1. packetCache' = [p \in Packet |-> NoVerdict] /\ rowVerdict' = Nothing
        /\ detailVerdict' = Nothing /\ packets' = {} /\ selectedId' = None
    BY <1>6 DEF Clears, ClearCache, Reload, ItemsReload, SchemaReload
  <2>2. CacheInv'
    BY <2>1 DEF CacheInv, NoVerdict
  <2>3. Rows' = {} /\ Shown' = {}
    BY <2>1 DEF Rows, Shown
  <2>4. ShieldsAreFresh'
    BY <2>1, <2>3, NothingIsEmpty DEF ShieldsAreFresh
  <2>. QED
    BY <2>2, <2>4
<1>. QED
  BY <1>2, <1>3, <1>4, <1>5, <1>6, <1>7, Kinds

\* The table and the detail pane show each packet's verdict under the rules in
\* force, through every edit, answer, filter and selection: a cached verdict is
\* never shown past its rules.  Rows are missing only while a packet cannot be
\* compared with the rules, and the details are behind only after such a packet
\* kept them from being drawn.
THEOREM ShieldsFollowRules == Spec => []ShieldsAreFresh
<1>1. Init => CacheInv /\ ShieldsAreFresh
  <2>. SUFFICES ASSUME Init PROVE CacheInv /\ ShieldsAreFresh
    OBVIOUS
  <2>1. CacheInv
    BY DEF Init, SchemaInit, CacheInv, NoVerdict
  <2>2. Rows = {} /\ Shown = {}
    BY DEF Init, ItemsInit, Rows, Shown
  <2>. QED
    BY <2>1, <2>2, NothingIsEmpty DEF Init, SchemaInit, ShieldsAreFresh
<1>2. ItemInv /\ CacheInv /\ ShieldsAreFresh /\ [Next]_vars => CacheInv' /\ ShieldsAreFresh'
  BY ItemStep, ShieldStep
<1>3. SchemaInv => ItemInv
  BY DEF SchemaInv
<1>. QED
  BY <1>1, <1>2, <1>3, SchemaInvHolds, PTL DEF Spec

-----------------------------------------------------------------------------
(* The settings list *)

LEMMA ListStep == ListIsCurrent /\ [Next]_vars => ListIsCurrent'
<1>. SUFFICES ASSUME ListIsCurrent, [Next]_vars, config' = "done" PROVE
       /\ schemaList' = Listing(serverSchemaRules', urlSchemaSources', schemaOverrides',
                                localSchemaRules', disabled', schemaList'.editing)
       /\ editingSchemaRuleId' \in {None, schemaList'.editing}
  BY DEF ListIsCurrent
<1>1. ASSUME NEW e, RenderSchemaRules(e)
      PROVE  /\ schemaList'.editing = e
             /\ schemaList' = Listing(serverSchemaRules', urlSchemaSources', schemaOverrides',
                                      localSchemaRules', disabled', schemaList'.editing)
  <2>1. schemaList' = Listing(serverSchemaRules', urlSchemaSources', schemaOverrides',
                              localSchemaRules', disabled', e)
    BY <1>1 DEF RenderSchemaRules
  <2>2. schemaList'.editing = e
    BY <2>1 DEF Listing
  <2>. QED
    BY <2>1, <2>2
<1>2. CASE Refreshes
  <2>1. PICK e : RefreshSchemaViews(e) /\ editingSchemaRuleId' \in {None, e}
    BY <1>2 DEF Refreshes
  <2>. QED
    BY <2>1, <1>1 DEF RefreshSchemaViews
<1>3. ASSUME UNCHANGED <<itemVars, settingVars, schemaList, editingSchemaRuleId>>
      PROVE  /\ schemaList' = Listing(serverSchemaRules', urlSchemaSources', schemaOverrides',
                                      localSchemaRules', disabled', schemaList'.editing)
             /\ editingSchemaRuleId' \in {None, schemaList'.editing}
  BY <1>3 DEF ListIsCurrent, itemVars, settingVars
<1>4. CASE Keeps
  <2>1. CASE RenderSchemaRules(editingSchemaRuleId')
    BY <2>1, <1>1
  <2>. QED
    BY <1>4, <2>1, <1>3 DEF Keeps
<1>5. CASE AppendsRow \/ DrawsRows \/ DrawsDetail \/ Clears
  <2>1. UNCHANGED <<itemVars, settingVars, schemaList, editingSchemaRuleId>>
    BY <1>5 DEF AppendsRow, DrawsRows, DrawsDetail, Clears, AppendRow, Redraw, ClearCache
  <2>. QED
    BY <2>1, <1>3
<1>6. CASE Reload
  BY <1>6 DEF Reload, ItemsReload
<1>. QED
  BY <1>2, <1>4, <1>5, <1>6, Kinds

-----------------------------------------------------------------------------
(* The links *)

\* What is edited exists and is the one that was meant; the storage has all.
MeantInv ==
  /\ traceLinks \in Seq([header : Header, url : TraceUrl])
  /\ editingTraceIndex \in 0 .. Len(traceLinks)
  /\ localDashboardLinks = [i \in DOMAIN localDashboardLinks |-> localDashboardLinks[i]]
  /\ EditedLinkIsTheOneMeant /\ TracesSurviveReload
  /\ storedDashboards = localDashboardLinks

\* The details, the bar and the lists are drawn from the links in force.
LinksDrawn ==
  /\ dashboardLinks = EffectiveDashboards(serverDashboardLinks, localDashboardLinks, disabled)
  /\ ~undrawn => detailLinks = [p \in Shown |->
       [dashboards |-> OfScope(dashboardLinks, "packet"), window |-> window,
        traces |-> [h \in Header |-> TraceLinkFor(traceLinks, h)]]]
  /\ config = "done" =>
       /\ globalLinks = OfScope(dashboardLinks, "global")
       /\ dashList = [links |-> Over(localDashboardLinks, serverDashboardLinks),
                      off |-> {i \in DOMAIN serverDashboardLinks : DashKey(i) \in disabled},
                      editing |-> editingDashLinkId]
  /\ traceList = [links |-> traceLinks, editing |-> editingTraceIndex]

LinksInv == MeantInv /\ LinksDrawn

\* A removed link leaves a list of links.
LEMMA RemovedTrace ==
  ASSUME NEW S, NEW s \in Seq(S), NEW n \in DOMAIN s PROVE RemoveAt(s, n) \in Seq(S)
BY DEF RemoveAt

LEMMA SavedTraces ==
  ASSUME traceLinks' \in Seq([header : Header, url : TraceUrl]), storedTraces' = traceLinks'
  PROVE  TracesSurviveReload'
BY PageLinksAssumption DEF TracesSurviveReload

\* With no link of the server a local link is as effective as it is.
LEMMA LocalOnly ==
  ASSUME NEW local, local = [i \in DOMAIN local |-> local[i]], NEW off
  PROVE  EffectiveDashboards(Nothing, local, off) = local
<1>1. DOMAIN EnabledDashboards(Nothing, off) = {}
  BY NothingIsEmpty DEF EnabledDashboards, Restrict
<1>2. \A g : DOMAIN g = {} => Over(local, g) = [i \in DOMAIN local |-> local[i]]
  BY DEF Over
<1>. QED
  BY <1>1, <1>2 DEF EffectiveDashboards

LEMMA LinksInitially == Init => LinksInv
<1>. SUFFICES ASSUME Init PROVE LinksInv
  OBVIOUS
<1>. USE DEF Init, ItemsInit, LinksInit
<1>1. traceLinks = <<Seed>>
  BY DEF LoadedTraces
<1>2. traceLinks \in Seq([header : Header, url : TraceUrl]) /\ Len(traceLinks) \in Nat
  BY <1>1, PageLinksAssumption
<1>3. DOMAIN Nothing = {} /\ Nothing = [i \in DOMAIN Nothing |-> Nothing[i]]
  BY NothingIsEmpty
<1>4. MeantInv
  BY <1>1, <1>2, <1>3 DEF MeantInv, EditedLinkIsTheOneMeant, TracesSurviveReload
<1>5. Shown = {}
  BY DEF Shown
<1>6. LinksDrawn
  BY <1>3, <1>5, LocalOnly, NothingIsEmpty DEF LinksDrawn
<1>. QED
  BY <1>4, <1>6 DEF LinksInv

-----------------------------------------------------------------------------
\* The steps that draw the links, and those that leave them.
LEMMA RebuildLinksKeeps == ASSUME LinksInv, RebuildLinks PROVE LinksInv'
<1>1. MeantInv'
  BY DEF LinksInv, MeantInv, EditedLinkIsTheOneMeant, TracesSurviveReload, RebuildLinks, traceVars
<1>2. traceList' = [links |-> traceLinks', editing |-> editingTraceIndex']
  BY DEF LinksInv, LinksDrawn, RebuildLinks, traceVars
<1>3. LinksDrawn'
  BY <1>2 DEF LinksDrawn, RebuildLinks, ComputeDashboards, RefreshDashboardViews,
              RenderDashboardList, DrawDetail
<1>. QED
  BY <1>1, <1>3 DEF LinksInv

LEMMA RedrawLinksKeeps == ASSUME LinksInv, RedrawLinks, UNCHANGED itemVars PROVE LinksInv'
<1>1. UNCHANGED <<localDashboardLinks, dashboardLinks, editingDashLinkId, storedDashboards,
                  dashList, globalLinks, window, traceLinks, editingTraceIndex, storedTraces,
                  traceList, meant, serverDashboardLinks, disabled, config>>
  BY DEF RedrawLinks, dashVars, traceVars, itemVars
<1>2. MeantInv'
  BY <1>1 DEF LinksInv, MeantInv, EditedLinkIsTheOneMeant, TracesSurviveReload
<1>3. LinksDrawn'
  BY <1>1 DEF LinksInv, LinksDrawn, RedrawLinks, DrawDetail
<1>. QED
  BY <1>2, <1>3 DEF LinksInv

LEMMA KeepLinksKeeps ==
  ASSUME LinksInv, KeepLinks, UNCHANGED <<itemVars, undrawn>>, Shown' = Shown PROVE LinksInv'
<1>1. UNCHANGED <<localDashboardLinks, dashboardLinks, editingDashLinkId, storedDashboards,
                  dashList, globalLinks, window, traceLinks, editingTraceIndex, storedTraces,
                  traceList, meant, serverDashboardLinks, disabled, config, detailLinks, undrawn>>
  BY DEF KeepLinks, linkVars, dashVars, traceVars, itemVars
<1>2. MeantInv'
  BY <1>1 DEF LinksInv, MeantInv, EditedLinkIsTheOneMeant, TracesSurviveReload
<1>3. LinksDrawn'
  BY <1>1 DEF LinksInv, LinksDrawn
<1>. QED
  BY <1>2, <1>3 DEF LinksInv

-----------------------------------------------------------------------------
(* Commands of the panel of dashboards *)

LEMMA EditDashKeeps ==
  ASSUME LinksInv, UNCHANGED <<itemVars, listVars, undrawn>>,
         CancelEditDash \/ \E i \in LocalDashId : StartEditDash(i)
  PROVE  LinksInv'
<1>1. UNCHANGED <<localDashboardLinks, dashboardLinks, storedDashboards, globalLinks,
                  window, traceVars, detailLinks, itemVars, listVars, undrawn>>
  BY DEF CancelEditDash, StartEditDash
<1>2. editingDashLinkId' # None => editingDashLinkId' \in DOMAIN localDashboardLinks
  BY DEF CancelEditDash, StartEditDash
<1>3. RenderDashboardList(editingDashLinkId')
  BY DEF CancelEditDash, StartEditDash
<1>4. MeantInv'
  BY <1>1, <1>2 DEF LinksInv, MeantInv, EditedLinkIsTheOneMeant, TracesSurviveReload, traceVars
<1>5. LinksDrawn'
  BY <1>1, <1>3 DEF LinksInv, LinksDrawn, RenderDashboardList, Shown, traceVars, itemVars, listVars
<1>. QED
  BY <1>4, <1>5 DEF LinksInv

\* Saving draws everything of the dashboards, if what is edited exists then.
LEMMA SavedDashboards ==
  ASSUME LinksInv, SaveDashboards, UNCHANGED itemVars,
         localDashboardLinks' = [i \in DOMAIN localDashboardLinks' |-> localDashboardLinks'[i]],
         editingDashLinkId' # None => editingDashLinkId' \in DOMAIN localDashboardLinks'
  PROVE  LinksInv'
<1>1. MeantInv'
  BY DEF LinksInv, MeantInv, EditedLinkIsTheOneMeant, TracesSurviveReload, SaveDashboards, traceVars
<1>2. traceList' = [links |-> traceLinks', editing |-> editingTraceIndex']
  BY DEF LinksInv, LinksDrawn, SaveDashboards, traceVars
<1>3. LinksDrawn'
  BY <1>2 DEF LinksDrawn, SaveDashboards, ComputeDashboards, RefreshDashboardViews,
              RenderDashboardList, DrawDetail
<1>. QED
  BY <1>1, <1>3 DEF LinksInv

LEMMA DashCommandKeeps ==
  ASSUME LinksInv, UNCHANGED itemVars,
         \/ \E i \in LocalDashId, c \in Dashboard : AddDash(i, c)
         \/ \E c \in Dashboard : UpdateDash(c)
         \/ \E i \in LocalDashId : DeleteDash(i)
  PROVE  LinksInv'
<1>1. CASE \E i \in LocalDashId, c \in Dashboard : AddDash(i, c)
  <2>1. PICK i \in LocalDashId, c \in Dashboard : AddDash(i, c)
    BY <1>1
  <2>2. localDashboardLinks' = [j \in DOMAIN localDashboardLinks' |-> localDashboardLinks'[j]]
        /\ editingDashLinkId' = None /\ SaveDashboards
    BY <2>1 DEF AddDash, With, Over
  <2>. QED
    BY <2>2, SavedDashboards
<1>2. CASE \E c \in Dashboard : UpdateDash(c)
  <2>1. localDashboardLinks' = [j \in DOMAIN localDashboardLinks' |-> localDashboardLinks'[j]]
        /\ editingDashLinkId' = None /\ SaveDashboards
    BY <1>2 DEF UpdateDash
  <2>. QED
    BY <2>1, SavedDashboards
<1>3. CASE \E i \in LocalDashId : DeleteDash(i)
  <2>1. PICK i \in LocalDashId : DeleteDash(i)
    BY <1>3
  <2>2. /\ DOMAIN localDashboardLinks' = DOMAIN localDashboardLinks \ {i}
        /\ localDashboardLinks' = [j \in DOMAIN localDashboardLinks' |-> localDashboardLinks'[j]]
    BY <2>1 DEF DeleteDash, Without, Restrict
  <2>3. editingDashLinkId' # None => editingDashLinkId' \in DOMAIN localDashboardLinks'
    BY <2>1, <2>2 DEF DeleteDash, LinksInv, MeantInv, EditedLinkIsTheOneMeant
  <2>4. SaveDashboards
    BY <2>1 DEF DeleteDash
  <2>. QED
    BY <2>2, <2>3, <2>4, SavedDashboards
<1>. QED
  BY <1>1, <1>2, <1>3

\* The bar is not drawn again: its links do not show the window.
LEMMA ChangeWindowKeeps ==
  ASSUME LinksInv, UNCHANGED itemVars, NEW w, ChangeWindow(w) PROVE LinksInv'
<1>1. UNCHANGED <<localDashboardLinks, dashboardLinks, editingDashLinkId, storedDashboards,
                  dashList, globalLinks, traceLinks, editingTraceIndex, storedTraces,
                  traceList, meant, serverDashboardLinks, disabled, config>>
  BY DEF ChangeWindow, traceVars, itemVars
<1>2. MeantInv'
  BY <1>1 DEF LinksInv, MeantInv, EditedLinkIsTheOneMeant, TracesSurviveReload
<1>3. LinksDrawn'
  BY <1>1 DEF LinksInv, LinksDrawn, ChangeWindow, DrawDetail
<1>. QED
  BY <1>2, <1>3 DEF LinksInv

-----------------------------------------------------------------------------
(* Commands of the panel of trace links *)

LEMMA EditTraceKeeps ==
  ASSUME LinksInv, UNCHANGED <<itemVars, listVars, undrawn>>,
         CancelEditTrace \/ \E n \in 1 .. MaxTraceLinks : StartEditTrace(n)
  PROVE  LinksInv'
<1>1. UNCHANGED <<dashVars, traceLinks, storedTraces, detailLinks, itemVars, listVars, undrawn>>
      /\ RenderTraceLinks(editingTraceIndex')
  BY DEF CancelEditTrace, StartEditTrace
<1>2. UNCHANGED <<localDashboardLinks, dashboardLinks, editingDashLinkId, storedDashboards,
                  dashList, globalLinks, window, serverDashboardLinks, disabled, config>>
  BY <1>1 DEF dashVars, itemVars
<1>3. /\ editingTraceIndex' \in 0 .. Len(traceLinks)
      /\ editingTraceIndex' # 0 => traceLinks[editingTraceIndex'] = meant'
  BY DEF CancelEditTrace, StartEditTrace, LinksInv, MeantInv
<1>4. MeantInv'
  BY <1>1, <1>2, <1>3 DEF LinksInv, MeantInv, EditedLinkIsTheOneMeant, TracesSurviveReload
<1>5. LinksDrawn'
  BY <1>1, <1>2 DEF LinksInv, LinksDrawn, RenderTraceLinks, Shown, listVars
<1>. QED
  BY <1>4, <1>5 DEF LinksInv

\* Every save ends the editing.
LEMMA SavedTraceLinks ==
  ASSUME LinksInv, SaveTraceLinks, UNCHANGED itemVars, editingTraceIndex' = 0,
         traceLinks' \in Seq([header : Header, url : TraceUrl])
  PROVE  LinksInv'
<1>1. UNCHANGED <<localDashboardLinks, dashboardLinks, editingDashLinkId, storedDashboards,
                  dashList, globalLinks, window, serverDashboardLinks, disabled, config>>
  BY DEF SaveTraceLinks, dashVars, itemVars
<1>2. TracesSurviveReload'
  BY SavedTraces DEF SaveTraceLinks
<1>3. 0 \in 0 .. Len(traceLinks')
  OBVIOUS
<1>4. MeantInv'
  BY <1>1, <1>2, <1>3 DEF LinksInv, MeantInv, EditedLinkIsTheOneMeant
<1>5. LinksDrawn'
  BY <1>1 DEF LinksInv, LinksDrawn, SaveTraceLinks, RenderTraceLinks, DrawDetail
<1>. QED
  BY <1>4, <1>5 DEF LinksInv

LEMMA TraceCommandKeeps ==
  ASSUME LinksInv, UNCHANGED itemVars,
         \/ \E l \in [header : Header, url : TraceUrl] : AddTrace(l) \/ UpdateTrace(l)
         \/ \E n \in 1 .. MaxTraceLinks : DeleteTrace(n)
  PROVE  LinksInv'
<1>1. traceLinks \in Seq([header : Header, url : TraceUrl])
  BY DEF LinksInv, MeantInv
<1>2. ASSUME NEW l \in [header : Header, url : TraceUrl], AddTrace(l)
      PROVE  LinksInv'
  <2>1. traceLinks' \in Seq([header : Header, url : TraceUrl])
    BY <1>1, <1>2, AppendProperties DEF AddTrace
  <2>2. SaveTraceLinks /\ editingTraceIndex' = 0
    BY <1>2 DEF AddTrace
  <2>. QED
    BY <2>1, <2>2, SavedTraceLinks
<1>3. ASSUME NEW l \in [header : Header, url : TraceUrl], UpdateTrace(l)
      PROVE  LinksInv'
  <2>1. traceLinks' = [traceLinks EXCEPT ![editingTraceIndex] = l]
        /\ editingTraceIndex \in DOMAIN traceLinks
    BY <1>1, <1>3 DEF UpdateTrace, LinksInv, MeantInv
  <2>2. traceLinks' \in Seq([header : Header, url : TraceUrl])
    <3>. DEFINE L == [header : Header, url : TraceUrl]
    <3>1. traceLinks \in Seq(L)
      BY <1>1
    <3>. HIDE DEF L
    <3>. QED
      BY <1>3, <2>1, <3>1 DEF L
  <2>3. SaveTraceLinks /\ editingTraceIndex' = 0
    BY <1>3 DEF UpdateTrace
  <2>. QED
    BY <2>2, <2>3, SavedTraceLinks
<1>4. ASSUME NEW n \in 1 .. MaxTraceLinks, DeleteTrace(n)
      PROVE  LinksInv'
  <2>1. n \in DOMAIN traceLinks
    BY <1>4 DEF DeleteTrace, LinksInv, LinksDrawn
  <2>2. traceLinks' \in Seq([header : Header, url : TraceUrl])
    BY <1>1, <1>4, <2>1, RemovedTrace DEF DeleteTrace
  <2>3. SaveTraceLinks /\ editingTraceIndex' = 0
    BY <1>4 DEF DeleteTrace
  <2>. QED
    BY <2>2, <2>3, SavedTraceLinks
<1>. QED
  BY <1>2, <1>3, <1>4

-----------------------------------------------------------------------------
LEMMA ReloadLinks == ASSUME ItemInv, LinksInv, Reload PROVE LinksInv'
<1>1. /\ localDashboardLinks' = localDashboardLinks /\ storedDashboards' = storedDashboards
      /\ dashboardLinks' = localDashboardLinks /\ serverDashboardLinks' = Nothing
      /\ editingDashLinkId' = None /\ detailLinks' = Nothing /\ config' = "asked"
  BY DEF Reload, ItemsReload, LinksReload, LinksInv, MeantInv
<1>2. /\ traceLinks' = traceLinks /\ storedTraces' = storedTraces /\ editingTraceIndex' = 0
      /\ traceList' = [links |-> traceLinks', editing |-> editingTraceIndex']
  BY DEF Reload, LinksReload, LoadedTraces, RenderTraceLinks, LinksInv, MeantInv,
         TracesSurviveReload
<1>3. 0 \in 0 .. Len(traceLinks)
  BY DEF LinksInv, MeantInv
<1>4. MeantInv'
  BY <1>1, <1>2, <1>3 DEF LinksInv, MeantInv, EditedLinkIsTheOneMeant, TracesSurviveReload
<1>5. Shown' = {}
  BY DEF Reload, ItemsReload, Shown
<1>6. dashboardLinks' = EffectiveDashboards(serverDashboardLinks', localDashboardLinks', disabled')
  BY <1>1, LocalOnly DEF LinksInv, MeantInv
<1>7. LinksDrawn'
  BY <1>1, <1>2, <1>5, <1>6, NothingIsEmpty DEF LinksDrawn
<1>. QED
  BY <1>4, <1>7 DEF LinksInv

LEMMA LinksStep == ItemInv /\ LinksInv /\ [Next]_vars => LinksInv'
<1>. SUFFICES ASSUME ItemInv, LinksInv, [Next]_vars PROVE LinksInv'
  OBVIOUS
<1>1. CASE (\E o \in Offers : ConfigAnswered(o)) \/ ConfigFails
           \/ (\E i \in SchemaId : ToggleSchema(i)) \/ (\E i \in DashId : ToggleDash(i))
  <2>1. Rebuild
    BY <1>1 DEF ConfigFails, ConfigAnswered, ToggleSchema, ToggleDash
  <2>. QED
    BY <2>1, RebuildLinksKeeps DEF Rebuild
<1>2. CASE SchemaCommand \/ UrlFetch
  <2>1. UNCHANGED <<itemVars, listVars>> /\ ((KeepLinks /\ UNCHANGED undrawn) \/ RedrawLinks)
    BY <1>2 DEF SchemaCommand, UrlFetch, StartEditRule, CancelEditRule, AskUrl, UrlAnswers,
                UrlFails, verdictVars, drawnVars
  <2>2. Shown' = Shown
    BY <2>1 DEF Shown, listVars
  <2>. QED
    BY <2>1, <2>2, KeepLinksKeeps, RedrawLinksKeeps
<1>3. CASE LinkCommand
  <2>1. UNCHANGED <<itemVars, listVars>>
    BY <1>3 DEF LinkCommand
  <2>2. \/ /\ UNCHANGED undrawn
           /\ \/ CancelEditDash \/ \E i \in LocalDashId : StartEditDash(i)
              \/ CancelEditTrace \/ \E n \in 1 .. MaxTraceLinks : StartEditTrace(n)
        \/ \E i \in LocalDashId, c \in Dashboard : AddDash(i, c)
        \/ \E c \in Dashboard : UpdateDash(c)
        \/ \E i \in LocalDashId : DeleteDash(i)
        \/ \E w \in Window : ChangeWindow(w)
        \/ \E l \in [header : Header, url : TraceUrl] : AddTrace(l) \/ UpdateTrace(l)
        \/ \E n \in 1 .. MaxTraceLinks : DeleteTrace(n)
    <3>1. UNCHANGED schemaVars => UNCHANGED undrawn
      BY DEF schemaVars, drawnVars, verdictVars
    <3>. QED
      BY <1>3, <3>1, Zenon DEF LinkCommand
  <2>3. UNCHANGED itemVars
    BY <2>1
  <2>4. UNCHANGED undrawn => UNCHANGED <<itemVars, listVars, undrawn>>
    BY <2>1
  <2>. QED
    BY <2>1, <2>2, <2>3, <2>4, EditDashKeeps, EditTraceKeeps, DashCommandKeeps,
       ChangeWindowKeeps, TraceCommandKeeps, Zenon
<1>4. CASE PacketList
  <2>1. UNCHANGED itemVars
    BY <1>4 DEF PacketList
  <2>2. \/ KeepLinks /\ Shown' = Shown /\ UNCHANGED undrawn
        \/ RedrawLinks
    <3>1. ASSUME Redraw({"rows"}) PROVE UNCHANGED undrawn
      BY <3>1 DEF Redraw, Draw
    <3>. QED
      BY <1>4, <3>1 DEF PacketList, Arrive, Filter, AppendRow, Shown, ItemInv
  <2>. QED
    BY <2>1, <2>2, KeepLinksKeeps, RedrawLinksKeeps
<1>5. CASE Reload
  BY <1>5, ReloadLinks
<1>6. CASE UNCHANGED vars
  <2>1. UNCHANGED <<itemVars, undrawn>> /\ KeepLinks /\ Shown' = Shown
    BY <1>6 DEF vars, KeepLinks, Shown, listVars, schemaVars, drawnVars, verdictVars
  <2>. QED
    BY <2>1, KeepLinksKeeps
<1>. QED
  BY <1>1, <1>2, <1>3, <1>4, <1>5, <1>6 DEF Next

\* Everything the settings keep and draw.
SettingsInv == SchemaInv /\ ListIsCurrent /\ LinksInv

LEMMA SettingsInvHolds == Spec => []SettingsInv
<1>1. Init => ListIsCurrent /\ LinksInv
  BY LinksInitially DEF Init, ItemsInit, ListIsCurrent
<1>2. SchemaInv => ItemInv
  BY DEF SchemaInv
<1>3. ItemInv /\ ListIsCurrent /\ LinksInv /\ [Next]_vars => ListIsCurrent' /\ LinksInv'
  BY ListStep, LinksStep
<1>4. SettingsInv <=> SchemaInv /\ ListIsCurrent /\ LinksInv
  BY DEF SettingsInv
<1>. QED
  BY <1>1, <1>2, <1>3, <1>4, SchemaInvHolds, PTL DEF Spec

-----------------------------------------------------------------------------
\* traceLinkFor() finds the first link with the header, or none.
LEMMA FirstTrace ==
  ASSUME NEW S, NEW links \in Seq(S), NEW h
  PROVE  TraceLinkFor(links, h) =
           LET n == SelectInSeq(links, LAMBDA l : l.header = h)
           IN  IF n = 0 THEN None ELSE links[n].url
<1>. DEFINE at == {n \in DOMAIN links : links[n].header = h}
            first == CHOOSE n \in at : \A k \in at : n <= k
<1>0. DOMAIN links = 1 .. Len(links)
  OBVIOUS
<1>1. SelectInSeq(links, LAMBDA l : l.header = h) = IF at = {} THEN 0 ELSE first
  BY <1>0 DEF SelectInSeq, Min
<1>2. TraceLinkFor(links, h) = IF at = {} THEN None ELSE links[first].url
  BY DEF TraceLinkFor
<1>3. at # {} => first # 0
  <2>. SUFFICES ASSUME at # {} PROVE first # 0
    OBVIOUS
  <2>1. at \subseteq Nat \ {0}
    OBVIOUS
  <2>2. \E n \in at : \A k \in at : n <= k
    <3>. HIDE DEF at
    <3>. QED
      BY <2>1, LeastNumber
  <2>3. first \in at
    <3>. HIDE DEF at
    <3>. QED
      BY <2>2
  <2>. QED
    BY <2>1, <2>3
<1>. HIDE DEF at, first
<1>. QED
  BY <1>1, <1>2, <1>3

\* Everything drawn shows the settings as they are, whichever handler, answer
\* or reload changed them: the list of rules, the lists of links, the details
\* of the packet shown and the global bar.
THEOREM DrawnFollows == Spec => []DrawnIsCurrent
<1>1. SettingsInv => DrawnIsCurrent
  <2>. SUFFICES ASSUME SettingsInv PROVE DrawnIsCurrent
    OBVIOUS
  <2>1. dashboardLinks = Over(localDashboardLinks,
                              EnabledDashboards(serverDashboardLinks, disabled))
    BY DEF SettingsInv, LinksInv, LinksDrawn, EffectiveDashboards
  <2>2. \A h \in Header : TraceLinkFor(traceLinks, h) =
          LET n == SelectInSeq(traceLinks, LAMBDA l : l.header = h)
          IN  IF n = 0 THEN None ELSE traceLinks[n].url
    BY FirstTrace DEF SettingsInv, LinksInv, MeantInv
  <2>3. [h \in Header |-> TraceLinkFor(traceLinks, h)] = [h \in Header |->
          LET n == SelectInSeq(traceLinks, LAMBDA l : l.header = h)
          IN  IF n = 0 THEN None ELSE traceLinks[n].url]
    BY <2>2
  <2>4. DetailLinksAreCurrent
    BY <2>1, <2>3 DEF SettingsInv, LinksInv, LinksDrawn, DetailLinksAreCurrent
  <2>5. BarAndListsAreCurrent
    BY <2>1 DEF SettingsInv, LinksInv, LinksDrawn, BarAndListsAreCurrent
  <2>. QED
    BY <2>4, <2>5 DEF SettingsInv, DrawnIsCurrent
<1>. QED
  BY <1>1, SettingsInvHolds, PTL

\* Saving an edit changes the rule or link whose Edit button was pressed, and
\* nothing else: a trace link's position still is that link's, a dashboard that
\* is edited exists, and a local rule never becomes an override.
THEOREM EditsMeetTheirLink == Spec => []EditsAreMeant
<1>1. SettingsInv => EditsAreMeant
  <2>. SUFFICES ASSUME SettingsInv PROVE EditsAreMeant
    OBVIOUS
  <2>1. DOMAIN schemaOverrides \subseteq SchemaId
    BY RulesFacts DEF SettingsInv, SchemaInv, RulesInv, SettingInv
  <2>2. NoOverrideOfALocalRule
    BY <2>1, ServerItemsAssumption DEF NoOverrideOfALocalRule
  <2>. QED
    BY <2>2 DEF SettingsInv, LinksInv, MeantInv, EditedLinkExists, EditsAreMeant
<1>. QED
  BY <1>1, SettingsInvHolds, PTL

\* Whatever the user has changed is in the storage by the end of the handler,
\* so that loading the page again at any moment brings it back.
THEOREM StoredIsWhole == Spec => []StoredIsCurrent
<1>1. SettingsInv => StoredIsCurrent
  BY DEF SettingsInv, SchemaInv, ItemInv, RulesInv, SettingInv, LinksInv, MeantInv,
         StoredIsCurrent
<1>. QED
  BY <1>1, SettingsInvHolds, PTL

-----------------------------------------------------------------------------
(* Type correctness *)

\* What is shared and what the user has of links has its type.
KindsInv ==
  /\ DOMAIN serverDashboardLinks \subseteq DashId
  /\ config \in {"asked", "done"}
  /\ disabled \subseteq ({"schema"} \X SchemaId) \cup ({"dashboard"} \X DashId)
  /\ filteredOut \subseteq Packet
  /\ commands \in 0 .. MaxCommands
  /\ DOMAIN localDashboardLinks \subseteq LocalDashId
  /\ \A i \in DOMAIN localDashboardLinks : localDashboardLinks[i] \in Dashboard
  /\ window \in Window

\* A fetch that is not under way has nothing.
IdleInv ==
  /\ \A f \in Fetch : fetches[f].stage = "idle" => fetches[f] = Idle
  /\ raced \subseteq Url

\* A command counts, up to the bound.
LEMMA CommandCounts ==
  ASSUME commands \in 0 .. MaxCommands, Command PROVE commands' \in 0 .. MaxCommands
BY ServerItemsAssumption DEF Command

LEMMA RebuildKinds ==
  ASSUME KindsInv, Rebuild, commands' \in 0 .. MaxCommands,
         DOMAIN serverDashboardLinks' \subseteq DashId, config' \in {"asked", "done"},
         disabled' \subseteq ({"schema"} \X SchemaId) \cup ({"dashboard"} \X DashId)
  PROVE  KindsInv'
<1>1. UNCHANGED <<filteredOut, localDashboardLinks, window>>
  BY DEF Rebuild, listVars, RebuildLinks
<1>. QED
  BY <1>1 DEF KindsInv

LEMMA KindsStep == ItemInv /\ LinksInv /\ KindsInv /\ [Next]_vars => KindsInv'
<1>. SUFFICES ASSUME ItemInv, LinksInv, KindsInv, [Next]_vars PROVE KindsInv'
  OBVIOUS
<1>0. Command => commands' \in 0 .. MaxCommands
  BY CommandCounts DEF KindsInv
<1>1. CASE \E o \in Offers : ConfigAnswered(o)
  <2>1. PICK o \in Offers : ConfigAnswered(o)
    BY <1>1
  <2>2. /\ commands' = commands /\ disabled' = disabled /\ config' = "done" /\ Rebuild
        /\ DOMAIN serverDashboardLinks' \subseteq DashId
    BY <2>1, ServerItemsAssumption DEF ConfigAnswered, ServerAnswers
  <2>. QED
    BY <2>2, RebuildKinds DEF KindsInv
<1>2. CASE ConfigFails
  <2>1. /\ commands' = commands /\ disabled' = disabled /\ config' = "done" /\ Rebuild
        /\ DOMAIN serverDashboardLinks' \subseteq DashId
    BY <1>2, NothingIsEmpty DEF ConfigFails, ConfigAnswered, ServerAnswers
  <2>. QED
    BY <2>1, RebuildKinds DEF KindsInv
<1>3. ASSUME NEW key \in ({"schema"} \X SchemaId) \cup ({"dashboard"} \X DashId),
             Command, ToggleItem(key), Rebuild
      PROVE  KindsInv'
  <2>1. /\ UNCHANGED <<serverDashboardLinks, config>>
        /\ disabled' \subseteq disabled \cup {key}
    BY <1>3 DEF ToggleItem
  <2>2. disabled' \subseteq ({"schema"} \X SchemaId) \cup ({"dashboard"} \X DashId)
    BY <2>1 DEF KindsInv
  <2>. QED
    BY <1>0, <1>3, <2>1, <2>2, RebuildKinds DEF KindsInv
<1>4. CASE \E i \in SchemaId : ToggleSchema(i)
  BY <1>3, <1>4 DEF ToggleSchema, SchemaKey
<1>5. CASE \E i \in DashId : ToggleDash(i)
  BY <1>3, <1>5 DEF ToggleDash, DashKey
<1>6. CASE SchemaCommand \/ UrlFetch
  <2>1. /\ UNCHANGED <<itemVars, listVars>> /\ UNCHANGED dashVars
        /\ commands' = commands \/ Command
    BY <1>6 DEF SchemaCommand, UrlFetch, KeepLinks, RedrawLinks, linkVars
  <2>. QED
    BY <1>0, <2>1 DEF itemVars, listVars, dashVars, KindsInv
<1>7. CASE LinkCommand
  <2>1. UNCHANGED <<itemVars, listVars>> /\ Command
    BY <1>7 DEF LinkCommand
  <2>2. /\ DOMAIN localDashboardLinks' \subseteq LocalDashId
        /\ \A i \in DOMAIN localDashboardLinks' : localDashboardLinks'[i] \in Dashboard
        /\ window' \in Window
    <3>1. CASE \E i \in LocalDashId, c \in Dashboard : AddDash(i, c)
      <4>1. PICK i \in LocalDashId, c \in Dashboard : AddDash(i, c)
        BY <3>1
      <4>2. localDashboardLinks' = With(localDashboardLinks, i, c) /\ window' = window
        BY <4>1 DEF AddDash, SaveDashboards
      <4>. QED
        BY <4>2 DEF With, Over, KindsInv
    <3>2. CASE \E c \in Dashboard : UpdateDash(c)
      BY <3>2 DEF UpdateDash, SaveDashboards, KindsInv
    <3>3. CASE \E i \in LocalDashId : DeleteDash(i)
      BY <3>3 DEF DeleteDash, SaveDashboards, Without, Restrict, KindsInv
    <3>4. CASE \E w \in Window : ChangeWindow(w)
      BY <3>4 DEF ChangeWindow, KindsInv
    <3>5. CASE UNCHANGED <<localDashboardLinks, window>>
      BY <3>5 DEF KindsInv
    <3>6. CASE \/ \E i \in LocalDashId : StartEditDash(i)
               \/ CancelEditDash
               \/ \E n \in 1 .. MaxTraceLinks : StartEditTrace(n)
               \/ CancelEditTrace
      BY <3>5, <3>6 DEF StartEditDash, CancelEditDash, StartEditTrace, CancelEditTrace, dashVars
    <3>7. CASE \/ \E l \in [header : Header, url : TraceUrl] : AddTrace(l) \/ UpdateTrace(l)
               \/ \E n \in 1 .. MaxTraceLinks : DeleteTrace(n)
      BY <3>5, <3>7 DEF AddTrace, UpdateTrace, DeleteTrace, SaveTraceLinks, dashVars
    <3>. QED
      BY <1>7, <3>1, <3>2, <3>3, <3>4, <3>6, <3>7, Zenon DEF LinkCommand
  <2>. QED
    BY <1>0, <2>1, <2>2 DEF itemVars, listVars, KindsInv
<1>8. CASE PacketList
  <2>1. UNCHANGED itemVars /\ UNCHANGED dashVars /\ (commands' = commands \/ Command)
    BY <1>8 DEF PacketList, KeepLinks, RedrawLinks, linkVars
  <2>2. filteredOut' \subseteq Packet
    BY <1>8 DEF PacketList, Arrive, Filter, Select, ClearList, KindsInv
  <2>. QED
    BY <1>0, <2>1, <2>2 DEF itemVars, dashVars, KindsInv
<1>9. CASE Reload
  <2>1. /\ serverDashboardLinks' = Nothing /\ config' = "asked" /\ disabled' = storedDisabled
        /\ localDashboardLinks' = storedDashboards
        /\ UNCHANGED <<filteredOut, window>> /\ Command
    BY <1>9 DEF Reload, ItemsReload, LinksReload
  <2>2. disabled' = disabled /\ localDashboardLinks' = localDashboardLinks
    BY <2>1 DEF ItemInv, LinksInv, MeantInv
  <2>. QED
    BY <1>0, <2>1, <2>2, NothingIsEmpty DEF KindsInv
<1>10. CASE UNCHANGED vars
  BY <1>10 DEF vars, itemVars, listVars, linkVars, dashVars, KindsInv
<1>. QED
  BY <1>1, <1>2, <1>4, <1>5, <1>6, <1>7, <1>8, <1>9, <1>10 DEF Next

LEMMA IdleStep == FetchInv /\ IdleInv /\ [Next]_vars => IdleInv'
<1>. SUFFICES ASSUME FetchInv, IdleInv, [Next]_vars PROVE IdleInv'
  OBVIOUS
<1>0. DOMAIN fetches = Fetch
  BY DEF FetchInv
<1>1. ASSUME UNCHANGED <<fetches, raced>> PROVE IdleInv'
  BY <1>1 DEF IdleInv
<1>2. CASE (\E o \in Offers : ConfigAnswered(o)) \/ ConfigFails
           \/ (\E i \in SchemaId : ToggleSchema(i)) \/ (\E i \in DashId : ToggleDash(i))
  <2>1. Rebuild
    BY <1>2 DEF ConfigFails, ConfigAnswered, ToggleSchema, ToggleDash
  <2>. QED
    BY <1>1, <2>1 DEF Rebuild, fetchVars
<1>3. CASE SchemaCommand
  <2>1. CASE \E f \in Fetch, u \in Url : AskUrl(f, u)
    <3>1. PICK f \in Fetch, u \in Url : AskUrl(f, u)
      BY <2>1
    <3>2. fetches' = [fetches EXCEPT ![f] = [url |-> u, stage |-> "asked", rules |-> Nothing]]
          /\ raced' \subseteq raced \cup {u}
      BY <3>1 DEF AskUrl
    <3>. QED
      BY <1>0, <3>2 DEF IdleInv
  <2>2. CASE \E u \in Url : RemoveSource(u)
    BY <2>2 DEF RemoveSource, IdleInv
  <2>3. CASE \/ \E i \in SchemaId \cup LocalSchemaId : StartEditRule(i) \/ ResetRule(i)
             \/ CancelEditRule
             \/ \E i \in LocalSchemaId, c \in Content : AddRule(i, c)
             \/ \E c \in Content : UpdateLocalRule(c) \/ OverrideRule(c)
             \/ \E i \in LocalSchemaId : DeleteRule(i)
    <3>1. UNCHANGED fetchVars
      BY <2>3 DEF StartEditRule, CancelEditRule, AddRule, UpdateLocalRule, OverrideRule,
                  ResetRule, DeleteRule
    <3>. QED
      BY <3>1, <1>1 DEF fetchVars
  <2>. QED
    BY <1>3, <2>1, <2>2, <2>3 DEF SchemaCommand
<1>4. CASE UrlFetch
  <2>1. PICK f \in Fetch : \/ \E r \in UNION Range(Served) : UrlAnswers(f, r)
                           \/ UrlFails(f) \/ FillSource(f)
    BY <1>4 DEF UrlFetch
  <2>2. CASE \E r \in UNION Range(Served) : UrlAnswers(f, r)
    <3>1. PICK r : UrlAnswers(f, r)
      BY <2>2
    <3>2. fetches' = [fetches EXCEPT ![f].stage = "answered", ![f].rules = r] /\ raced' = raced
      BY <3>1 DEF UrlAnswers
    <3>3. fetches[f] \in [url : Url \cup {None}, stage : {"idle", "asked", "answered"},
                          rules : Rules(SchemaId)]
      BY DEF FetchInv
    <3>4. fetches'[f].stage = "answered" /\ \A g \in Fetch \ {f} : fetches'[g] = fetches[g]
      BY <1>0, <3>2, <3>3
    <3>. QED
      BY <3>2, <3>4 DEF IdleInv
  <2>3. CASE UrlFails(f) \/ FillSource(f)
    <3>1. fetches' = [fetches EXCEPT ![f] = Idle] /\ raced' = raced
      BY <2>3 DEF UrlFails, FillSource
    <3>. QED
      BY <1>0, <3>1 DEF IdleInv
  <2>. QED
    BY <2>1, <2>2, <2>3
<1>5. CASE LinkCommand
  BY <1>5, <1>1 DEF LinkCommand, Redraw, schemaVars, fetchVars
<1>6. CASE PacketList
  BY <1>6, <1>1 DEF PacketList, Redraw, AppendRow, ClearCache, fetchVars
<1>7. CASE Reload
  BY <1>7 DEF Reload, SchemaReload, IdleInv
<1>8. CASE UNCHANGED vars
  BY <1>8, <1>1 DEF vars, schemaVars, fetchVars
<1>. QED
  BY <1>2, <1>3, <1>4, <1>5, <1>6, <1>7, <1>8 DEF Next

\* The rules in force are rules of the server, of sources and of the user.
LEMMA RulesAreTyped ==
  ASSUME ItemInv, SettingInv, RulesInForce
  PROVE  schemaRules \in Rules(SchemaId \cup LocalSchemaId)
<1>. DEFINE ids == SchemaId \cup LocalSchemaId
            on == EnabledRules(AllRemote(serverSchemaRules, urlSchemaSources), disabled)
            edited == WithOverrides(on, schemaOverrides)
<1>1. AllRemote(serverSchemaRules, urlSchemaSources) \in Rules(SchemaId)
  BY RemoteIsAsOffered DEF ItemInv, SettingInv
<1>2. on \in Rules(SchemaId)
  <2>. DEFINE all == AllRemote(serverSchemaRules, urlSchemaSources)
              S == {i \in DOMAIN all : SchemaKey(i) \notin disabled}
  <2>1. on = Restrict(all, S \cap DOMAIN all)
    <3>1. S \cap DOMAIN all = S
      OBVIOUS
    <3>. QED
      BY <3>1 DEF EnabledRules
  <2>. QED
    BY <1>1, <2>1, RulesRestrict
<1>3. edited \in Rules(SchemaId)
  <2>. HIDE DEF on
  <2>1. DOMAIN on \in SUBSET SchemaId /\ \A i \in DOMAIN on : on[i] \in Content
    BY <1>2, RulesFacts
  <2>2. \A i \in DOMAIN schemaOverrides : schemaOverrides[i] \in Content
    BY RulesFacts DEF SettingInv
  <2>3. edited \in [DOMAIN on -> Content]
    BY <2>1, <2>2 DEF WithOverrides
  <2>. QED
    BY <2>1, <2>3, RulesFacts
<1>4. edited \in Rules(ids) /\ localSchemaRules \in Rules(ids)
  BY <1>3, RulesSubset DEF SettingInv
<1>. HIDE DEF edited
<1>5. Over(localSchemaRules, edited) \in Rules(ids)
  BY <1>4, RulesOver
<1>. QED
  BY <1>5 DEF RulesInForce, Effective, edited, on

CacheOK == packetCache \in [Packet -> Cached] /\ undrawn \in BOOLEAN
RulesOK == schemaRules \in Rules(SchemaId \cup LocalSchemaId)

LEMMA VerdictsAreTyped ==
  ASSUME NEW rules \in Rules(SchemaId \cup LocalSchemaId), NEW c \in Cached
  PROVE  Stale(c) \in Cached /\ Validated(c, rules) \in Cached
BY DEF Cached, Stale, Validated

\* A verdict that is drawn was reached with rules.
LEMMA DrawnIsTyped ==
  ASSUME CacheOK, NEW rules \in Rules(SchemaId \cup LocalSchemaId),
         NEW bump \in BOOLEAN, NEW what, Draw(rules, bump, what)
  PROVE  CacheOK'
<1>. DEFINE old == [p \in Packet |-> IF bump THEN Stale(packetCache[p]) ELSE packetCache[p]]
<1>. DEFINE failing == {p \in Undrawable(rules) : ~old[p].fresh}
            cut == "rows" \in what /\ Rows' \cap failing # {}
            details == "detail" \in what /\ ~cut /\ Shown' \cap failing = {}
<1>0. PICK rows \in (IF "rows" \in what THEN RowsDrawn(failing) ELSE {{}}) :
        LET drawn == rows \cup (IF details THEN Shown' ELSE {}) IN
        /\ packetCache' =
             [p \in Packet |-> IF p \in drawn THEN Validated(old[p], rules) ELSE old[p]]
        /\ undrawn' = IF "detail" \in what THEN ~details ELSE undrawn
  BY DEF Draw
<1>. DEFINE drawn == rows \cup (IF details THEN Shown' ELSE {})
<1>1. packetCache' = [p \in Packet |-> IF p \in drawn THEN Validated(old[p], rules) ELSE old[p]]
  BY <1>0
<1>5. undrawn' \in {~details, undrawn}
  BY <1>0
<1>. HIDE DEF details, drawn
<1>2. \A p \in Packet : old[p] \in Cached
  BY VerdictsAreTyped DEF CacheOK
<1>. HIDE DEF old
<1>4. packetCache' \in [Packet -> Cached]
  BY <1>1, <1>2, VerdictsAreTyped
<1>6. undrawn' \in BOOLEAN
  BY <1>5 DEF CacheOK
<1>. QED
  BY <1>4, <1>6 DEF CacheOK

LEMMA CacheStep == CacheOK /\ RulesOK /\ RulesOK' /\ [Next]_vars => CacheOK'
<1>. SUFFICES ASSUME CacheOK, RulesOK, RulesOK', [Next]_vars PROVE CacheOK'
  OBVIOUS
<1>1. CASE Refreshes
  <2>1. Draw(schemaRules', TRUE, {"rows", "detail"})
    BY <1>1 DEF Refreshes, RefreshSchemaViews
  <2>. QED
    BY <2>1, DrawnIsTyped DEF RulesOK
<1>2. CASE DrawsRows \/ DrawsDetail
  <2>1. Draw(schemaRules, FALSE, {"rows"}) \/ Draw(schemaRules, FALSE, {"detail"})
    BY <1>2 DEF DrawsRows, DrawsDetail, Redraw
  <2>. QED
    BY <2>1, DrawnIsTyped DEF RulesOK
<1>3. CASE AppendsRow
  <2>1. PICK p \in Packet : AppendRow(p)
    BY <1>3 DEF AppendsRow
  <2>2. \/ UNCHANGED packetCache
        \/ packetCache' = [packetCache EXCEPT ![p] = Validated(packetCache[p], schemaRules)]
    BY <2>1 DEF AppendRow
  <2>3. UNCHANGED undrawn
    BY <2>1 DEF AppendRow
  <2>4. Validated(packetCache[p], schemaRules) \in Cached
    BY VerdictsAreTyped DEF CacheOK, RulesOK
  <2>. QED
    BY <2>2, <2>3, <2>4 DEF CacheOK
<1>4. CASE Keeps
  BY <1>4 DEF Keeps, CacheOK, verdictVars
<1>5. CASE Clears \/ Reload
  <2>1. NoVerdict \in Cached
    BY RulesFacts DEF NoVerdict, Cached
  <2>2. packetCache' = [p \in Packet |-> NoVerdict] /\ undrawn' = FALSE
    BY <1>5 DEF Clears, ClearCache, Reload, SchemaReload
  <2>. QED
    BY <2>1, <2>2 DEF CacheOK
<1>. QED
  BY <1>1, <1>2, <1>3, <1>4, <1>5, Kinds

\* The settings, the storage, the fetches and the cache have their types.
THEOREM TypeCorrect == Spec => []TypeOK
<1>1. Init => KindsInv /\ IdleInv /\ CacheOK
  <2>. SUFFICES ASSUME Init PROVE KindsInv /\ IdleInv /\ CacheOK
    OBVIOUS
  <2>1. KindsInv
    BY NothingIsEmpty, ServerItemsAssumption, PageLinksAssumption
       DEF Init, ItemsInit, LinksInit, KindsInv
  <2>2. IdleInv
    BY DEF Init, SchemaInit, IdleInv
  <2>3. NoVerdict \in Cached
    BY RulesFacts DEF NoVerdict, Cached
  <2>. QED
    BY <2>1, <2>2, <2>3 DEF Init, ItemsInit, SchemaInit, CacheOK
<1>2. SettingsInv => /\ ItemInv /\ FetchInv /\ LinksInv
                     /\ RulesOK
  BY RulesAreTyped DEF SettingsInv, SchemaInv, RulesInv, RulesOK
<1>3. SettingsInv /\ RulesOK' /\ [Next]_vars
      /\ KindsInv /\ IdleInv /\ CacheOK
      => KindsInv' /\ IdleInv' /\ CacheOK'
  <2>. SUFFICES ASSUME SettingsInv, RulesOK', [Next]_vars,
                       KindsInv, IdleInv, CacheOK
                PROVE  KindsInv' /\ IdleInv' /\ CacheOK'
    OBVIOUS
  <2>. QED
    BY <1>2, KindsStep, IdleStep, CacheStep
<1>4. SettingsInv /\ KindsInv /\ IdleInv /\ CacheOK => TypeOK
  <2>. SUFFICES ASSUME SettingsInv, KindsInv, IdleInv, CacheOK
                PROVE  TypeOK
    OBVIOUS
  <2>1. ItemsTypeOK
    BY DEF SettingsInv, SchemaInv, ItemInv, KindsInv, CacheOK, ItemsTypeOK
  <2>2. SchemaTypeOK
    <3>1. /\ schemaOverrides \in Rules(SchemaId \cup LocalSchemaId)
          /\ DOMAIN localSchemaRules \subseteq LocalSchemaId
      BY RulesSubset, RulesFacts DEF SettingsInv, SchemaInv, RulesInv, SettingInv
    <3>2. \A f \in Fetch : fetches[f] = Idle \/ fetches[f].url \in Url
      BY DEF SettingsInv, SchemaInv, RulesInv, FetchInv, IdleInv
    <3>. QED
      BY <1>2, <3>1, <3>2 DEF SettingsInv, SchemaInv, RulesInv, SettingInv, IdleInv,
                         RulesOK, CacheOK, SchemaTypeOK
  <2>3. LinksTypeOK
    BY DEF SettingsInv, LinksInv, MeantInv, EditedLinkIsTheOneMeant, KindsInv, Range, LinksTypeOK
  <2>. QED
    BY <2>1, <2>2, <2>3 DEF TypeOK
<1>. QED
  BY <1>1, <1>2, <1>3, <1>4, SettingsInvHolds, PTL DEF Spec
==============================================================================
