----------------------------- MODULE PageFunctions -----------------------------
(***************************************************************************)
(* The functions of the browser page that look at addresses, rules, times  *)
(* and texts, called once each with every input of some sets.  call is the *)
(* function that was called and its arguments; what it returns is compared *)
(* with what it ought to, said in another way.                             *)
(***************************************************************************)
EXTENDS RuleMatching, PageText

CONSTANTS
  Url, Pattern,           \* addresses, and patterns of rules
  Packets, RuleLists,     \* what is validated, and the rules in force
  Template, Headers,      \* templates, and headers of a request
  Time, Window,           \* times of packets, and windows around them
  Segments,               \* what a cookie header is made of
  Markup,                 \* the lines of XML documents, see PrettyDepths
  Duration, Count,        \* durations in ms, and numbers of things
  Nodes, LabelKey,        \* children of labels, and keys of translations
  BodyCalls               \* calls of the functions in BodyValidation, see BodyFunctions

\* A packet as the links see it: its fields and its time.
PacketOf(time) == [v \in PacketVars \cup {"time"} |-> IF v = "time" THEN time ELSE v]

\* Addresses, templates, cookies and labels as they are parsed, rules for one of
\* the two sides, times since the epoch; and no text of a label is blank.
ASSUME PageFunctionsAssumption ==
  /\ \A a \in Url \cup Pattern : a.path \in Seq(Range(a.path)) /\ a.query \in Seq(Range(a.query))
  /\ \A rs \in RuleLists : \A r \in Range(rs) : r.target \in Side
  /\ \A tp \in Template : \A n \in DOMAIN tp : DOMAIN tp[n] \in {{"literal"}, {"name", "arg"}}
  /\ \A h \in Headers : h \in Seq(Range(h))
  /\ Time \subseteq Nat /\ Window \subseteq Nat /\ Duration \subseteq Int /\ Count \subseteq Nat
  /\ \A t \in Time \cup {Nothing} : PacketOf(t) # Nothing
  /\ \A s \in Segments : /\ s \in Seq(Range(s))
                         /\ \A c \in Range(s) : c = [name |-> c.name, value |-> c.value]
  /\ \A lines \in Markup : lines \in Seq(Range(lines))
  /\ \A ns \in Nodes : /\ ns \in Seq(Range(ns))
                       /\ \A n \in DOMAIN ns : DOMAIN ns[n] \in {{"text"}, {"element"}}
  /\ Blank \notin LabelKey \cup Range(English) \cup Range(Russian)
  /\ \A c \in BodyCalls : c.fn \in {"validate", "mark"}

VARIABLE call

CallInit == call = [fn |-> "none"]

Called(f) == call.fn = f
Calls(c) == call' = c

CallNext ==
  /\ Called("none")
  /\ \/ \E u \in Url, p, q \in Pattern : Calls([fn |-> "match", url |-> u, pattern |-> p, other |-> q])
     \/ \E p \in Packets, rs \in RuleLists : Calls([fn |-> "rules", packet |-> p, rules |-> rs])
     \/ \E tp \in Template, h \in Headers : Calls([fn |-> "template", template |-> tp, headers |-> h])
     \/ \E time \in Time \cup {Nothing}, now \in Time, win \in Window :
          Calls([fn |-> "window", time |-> time, now |-> now, win |-> win])
     \/ \E b \in BOOLEAN, s \in Segments : Calls([fn |-> "cookie", set |-> b, segments |-> s])
     \/ \E lines \in Markup : Calls([fn |-> "xml", lines |-> lines])
     \/ \E c, l, e, m \in Duration :
          Calls([fn |-> "bar", connect |-> c, latency |-> l, elapsed |-> e, max |-> m])
     \/ \E n \in Count : Calls([fn |-> "plural", n |-> n])
     \/ \E ns \in Nodes, k \in LabelKey : Calls([fn |-> "label", nodes |-> ns, key |-> k])
     \/ \E c \in BodyCalls : Calls(c)

CallSpec == CallInit /\ [][CallNext]_call

-----------------------------------------------------------------------------
\* A pattern that is made more general goes on matching what it matched: a
\* segment or a value in the query replaced by a wildcard, or a constraint of
\* the query dropped.  Without malformed segments the comparison never fails.
MoreGeneral(q, p) ==
  /\ Len(q.path) = Len(p.path)
  /\ \A n \in DOMAIN q.path : q.path[n] \in Wild \cup {p.path[n]}
  /\ \A c \in Range(q.query) :
       \E d \in Range(p.query) : d.key = c.key /\ c.value \in {d.value, Star}
Malformed(u) == \E n \in DOMAIN u.path : Decoded[u.path[n]] = Nothing
PatternsGeneralise ==
  Called("match") =>
    LET result == MatchesUrlPattern(call.url, call.pattern) IN
    /\ (result = "yes" /\ MoreGeneral(call.other, call.pattern)) =>
         MatchesUrlPattern(call.url, call.other) = "yes"
    /\ result = "yes" => Len(call.url.path) = Len(call.pattern.path)
    /\ result = "throws" => Malformed(call.url) \/ Malformed(call.pattern)

\* The frame of a body is red exactly if a rule for that side applies that its
\* body does not meet, the marks within it are those of its own errors, and
\* the shield of the row sums up both sides.
BadgesAgree ==
  Called("rules") =>
    LET v == ComputeValidation(call.packet, call.rules)
        Applies(r) == MatchesUrlPattern(call.packet.url, r.pattern) = "yes"
        Meets(body, s) == Errors(body, s) = {}
        Rules(t) == {r \in Range(call.rules) : r.target = t /\ Applies(r)}
        states == {BodyValidationState(v, t) : t \in Side}
    IN  v # Nothing =>
        /\ \A t \in Side :
             /\ (BodyValidationState(v, t) = Nothing) = (Rules(t) = {})
             /\ (BodyValidationState(v, t) = "invalid")
                  = (\E r \in Rules(t) : ~Meets(call.packet[t], r.schema))
             /\ (BodyValidationState(v, t) = "invalid") = (v.paths[t] # {})
        /\ RowShield(v) = IF "invalid" \in states THEN "invalid"
                          ELSE IF "valid" \in states THEN "valid" ELSE Nothing

\* In a trace link every placeholder that the preview explains is replaced,
\* header values whatever the case of the name; and what is left is neither.
TemplatesResolve ==
  Called("template") =>
    LET vars == TraceVars("v", DashboardVars(PacketOf(0), 1, 0, Nothing))
        result == ApplyTemplate(call.template, vars,
                                [m \in {"reqHeader", "respHeader"} |-> call.headers])
    IN  \A n \in DOMAIN call.template :
          LET p == call.template[n] IN
          "name" \in DOMAIN p =>
            /\ PreviewKnows(p) => "value" \in DOMAIN result[n]
            /\ "left" \in DOMAIN result[n] => p = result[n].left /\ ~PreviewKnows(p)
            /\ IsHeaderVar(p) =>
                 \A h \in Range(call.headers) :
                   (Lower[h.name] = Lower[p.arg]) =>
                     \E g \in Range(call.headers) :
                       Lower[g.name] = Lower[h.name] /\ result[n].value = g.value

\* The window of a dashboard lies around the packet, or around now if it has
\* no time (the epoch counts as none), in milliseconds and in whole seconds.
WindowIsAround ==
  Called("window") =>
    LET vars == DashboardVars(PacketOf(call.time), call.win, call.now, Nothing)
        center == IF call.time \in {Nothing, 0} THEN call.now ELSE call.time
    IN  /\ vars.fromMs + vars.toMs = 2 * center /\ vars.toMs - vars.fromMs = 2 * call.win
        /\ vars.fromSec * 1000 <= vars.fromMs /\ vars.fromMs < (vars.fromSec + 1) * 1000
        /\ vars.fromSec <= vars.epochSec /\ vars.epochSec <= vars.toSec
        /\ vars.epochMs = center

\* Every part of a cookie header that is not empty is shown, once, in order.
CookiesLoseNothing ==
  Called("cookie") =>
    LET parsed == ParseCookie(call.set, call.segments)
        shown == parsed.pairs \o parsed.attributes
        filled == Only(call.segments, {s \in Range(call.segments) :
                                         s # [name |-> Blank, value |-> NoArg]})
    IN  [n \in DOMAIN shown |-> shown[n].name] = [n \in DOMAIN filled |-> filled[n].name]

\* The elements that begin, and those that end, in the first n lines.
OpenedBy(lines, n) == Cardinality({m \in 1 .. n : lines[m] = "open"})
ClosedBy(lines, n) == Cardinality({m \in 1 .. n : lines[m] = "close"})
\* prettyXml() writes each line of a document as deep as there are elements
\* around it, an element's own tags not being within it.
IndentIsNesting ==
  Called("xml") =>
    LET lines == call.lines IN
    (\A n \in DOMAIN lines : ClosedBy(lines, n) <= OpenedBy(lines, n)) =>
      PrettyDepths(lines) = [n \in DOMAIN lines |-> OpenedBy(lines, n - 1) - ClosedBy(lines, n)]

\* The parts of a timing bar make up its packet's time and fit the cell, if
\* the packet's times are in order; they are never negative.
BarsAddUp ==
  Called("bar") =>
    LET bar == BuildWaterfall(call.connect, call.latency, call.elapsed)
        InOrder == /\ 0 <= call.connect /\ call.connect <= call.latency
                   /\ call.latency <= call.elapsed /\ call.elapsed <= call.max
    IN  /\ bar.connect >= 0 /\ bar.wait >= 0 /\ bar.proc >= 0
        /\ InOrder => Width(bar.connect, call.max) + Width(bar.wait, call.max)
                        + Width(bar.proc, call.max) = call.elapsed

\* The form for each number is the one Russian asks for: 1, 21, 101 but not 11
\* take the first, 2 to 4, 22 but not 12 to 14 the second.
PluralIsRussian ==
  Called("plural") =>
    LET Ends(k, m) == call.n % 10 = k /\ call.n % 100 # m IN
    RussianPlural(call.n) =
      IF Ends(1, 11) THEN 1
      ELSE IF Ends(2, 12) \/ Ends(3, 13) \/ Ends(4, 14) THEN 2 ELSE 3

\* The icons and fields of a label are where they were, or all of them behind
\* one text that was added.
KeepsElements(old, new) ==
  \E added \in {0, 1} :
    /\ \A n \in DOMAIN old : "element" \in DOMAIN old[n] =>
         n + added \in DOMAIN new /\ new[n + added] = old[n]
    /\ \A n \in DOMAIN new : "element" \in DOMAIN new[n] =>
         n - added \in DOMAIN old /\ old[n - added] = new[n]
\* However often the language is switched, a label reads as if it had been
\* drawn in the last one, and keeps its icons and fields in their places.
LabelsSwitch ==
  Called("label") =>
    LET In(nodes, language) == ReplaceLabel(nodes, Translate(call.key, language))
    IN  \A a, b \in {"en", "ru"} :
          LET twice == In(In(call.nodes, a), b) IN
          /\ twice = In(call.nodes, b)
          /\ KeepsElements(call.nodes, twice)

-----------------------------------------------------------------------------
\* Rules are applied to the packets whose URLs their patterns mean, wherever a
\* wildcard stands, and shield and frames sum up what they find.
RulesAreAppliedRight == PatternsGeneralise /\ BadgesAgree

\* Links to other systems are complete: no placeholder is left that the
\* preview explained, and their window lies around the packet.
LinksAreFilledIn == TemplatesResolve /\ WindowIsAround

\* What is laid out anew loses nothing: the parts of a cookie header, the
\* parts of a packet's time, and the nesting of a document.
LayoutIsFaithful == CookiesLoseNothing /\ BarsAddUp /\ IndentIsNesting

\* Each language is shown by its own rules, whichever was shown before.
LanguagesAreKept == PluralIsRussian /\ LabelsSwitch
==============================================================================
