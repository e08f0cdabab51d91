------------------------------- MODULE PageText -------------------------------
(***************************************************************************)
(* What the browser page makes of texts: templates of dashboard and trace  *)
(* links, the layout of XML bodies, cookies, timing bars, plurals, and the *)
(* labels that are replaced when the language is switched.  Everything     *)
(* here is a function of its arguments.  Texts are model values or         *)
(* strings that are never taken apart.                                     *)
(***************************************************************************)
EXTENDS Integers, FiniteSets, Functions, SequencesExt, Subsequences

CONSTANTS
  Lower,      \* Lower[h]: a header's name in lower case
  NoArg,      \* a placeholder without argument
  Blank,      \* a text of blanks
  English, Russian   \* the tables of translations: functions from keys to texts

ASSUME PageTextAssumption == \A h \in DOMAIN Lower : Lower[Lower[h]] = Lower[h]

-----------------------------------------------------------------------------
(* Templates.  A template is a sequence of [literal] and [name, arg]; a    *)
(* result is a sequence of [literal], [left] (a placeholder as it was) and *)
(* [value].  A value is encoded, so that it is never taken for a           *)
(* placeholder or for a part of the URL's syntax.                          *)

\* The names of dashboardVars(); packet-scope ones are empty without a packet.
TimeVars == {"fromMs", "toMs", "from", "to", "fromSec", "toSec", "fromIso", "toIso"}
PacketVars == {"url", "host", "port", "scheme", "path", "query", "method", "status",
               "label", "type", "thread", "timestamp", "epochMs", "epochSec"}

\* now is the time if the packet has none that can be read, or the epoch (0).
DashboardVars(packet, win, now, none) ==
  LET center == IF packet = none \/ packet.time \in {none, 0} THEN now ELSE packet.time IN
  [v \in TimeVars \cup PacketVars |->
     CASE v \in {"fromMs", "from", "fromIso"} -> center - win
       [] v \in {"toMs", "to", "toIso"} -> center + win
       [] v = "fromSec" -> (center - win) \div 1000
       [] v = "toSec" -> (center + win) \div 1000
       [] packet = none -> ""
       [] v = "epochMs" -> center
       [] v = "epochSec" -> center \div 1000
       [] OTHER -> packet[v]]

\* The first header whose name is the same but for case; "" if there is none.
LookupHeader(headers, name) ==
  LET at == SelectInSeq(headers, LAMBDA h : Lower[h.name] = Lower[name])
  IN  IF at = 0 THEN "" ELSE headers[at].value

IsHeaderVar(p) == p.name \in {"reqHeader", "respHeader"} /\ p.arg # NoArg

ApplyTemplate(template, vars, headers) ==
  [n \in DOMAIN template |->
     LET p == template[n] IN
     IF "literal" \in DOMAIN p THEN p
     ELSE IF IsHeaderVar(p) THEN [value |-> LookupHeader(headers[p.name], p.arg)]
     ELSE IF p.name \in DOMAIN vars THEN [value |-> vars[p.name]] ELSE [left |-> p]]

\* buildTraceUrl(), but for the check that the result is an http URL.
\* Mutant: the value of the header is not a variable.
TraceVars_noValue(value, vars) == vars
TraceVars(value, vars) ==
  [v \in DOMAIN vars \cup {"value"} |-> IF v = "value" THEN value ELSE vars[v]]

\* Placeholders that renderTemplatePreview() has an explanation of.
DashboardVarHints == (PacketVars \ {"url"}) \cup (TimeVars \ {"from", "to"}) \cup {"value"}
PreviewKnows(p) == IsHeaderVar(p) \/ p.name \in DashboardVarHints

-----------------------------------------------------------------------------
(* XML.  A line is of one of these kinds: open, close, self (also comments *)
(* and declarations), pair (opened and closed in the line) and text.       *)

\* The depths at which prettyXml() writes the lines.
\* Mutant: a closing tag does not end the indentation.
PrettyDepths_inside(lines) ==
  [n \in DOMAIN lines |-> Cardinality({m \in 1 .. n - 1 : lines[m] = "open"})]
PrettyDepths(lines) ==
  LET After[n \in 0 .. Len(lines)] ==
        IF n = 0 THEN 0
        ELSE CASE lines[n] = "open" -> After[n - 1] + 1
               [] lines[n] = "close" -> Max({0, After[n - 1] - 1})
               [] OTHER -> After[n - 1]
  IN  [n \in DOMAIN lines |-> IF lines[n] = "close" THEN After[n] ELSE After[n - 1]]

-----------------------------------------------------------------------------
(* Cookies.  A segment is [name, value], value = NoArg if it has no "=".   *)

\* A blank segment is dropped; one without "=" has an empty value.
Filled(s) == s.name # Blank \/ s.value # NoArg
Pair(s) == [name |-> s.name, value |-> IF s.value = NoArg THEN "" ELSE s.value]

ParseCookie(isSetCookie, segments) ==
  LET filled == Only(segments, {s \in Range(segments) : Filled(s)})
      pairs == [n \in DOMAIN filled |-> Pair(filled[n])]
  IN  IF isSetCookie THEN [pairs |-> SubSeq(pairs, 1, Min({1, Len(pairs)})),
                           attributes |-> SubSeq(pairs, 2, Len(pairs))]
      ELSE [pairs |-> pairs, attributes |-> <<>>]

-----------------------------------------------------------------------------
(* Timing bars *)

\* buildWaterfall(): connect, wait and processing of a packet.
BuildWaterfall(connectMs, latencyMs, elapsedMs) ==
  [connect |-> Max({0, connectMs}), wait |-> Max({0, latencyMs - Max({0, connectMs})}),
   proc |-> Max({0, elapsedMs - latencyMs})]

\* scaleBar(): the width of a part, in ms of a bar that is scale ms long.
Width(ms, maxElapsed) == Min({ms, Max({maxElapsed, 1})})

-----------------------------------------------------------------------------
(* Translations *)

\* t(): the text of a key, in English if it is missing, or the key itself.
Translate(key, language) ==
  LET table == IF language = "ru" THEN Russian ELSE English IN
  IF key \in DOMAIN table THEN table[key]
  ELSE IF key \in DOMAIN English THEN English[key] ELSE key

\* plural(): which of the forms n takes in Russian.
RussianPlural(n) ==
  LET abs == (IF n < 0 THEN -n ELSE n) % 100
      tail == abs % 10
  IN  IF abs > 10 /\ abs < 20 THEN 3
      ELSE IF tail = 1 THEN 1 ELSE IF tail > 1 /\ tail < 5 THEN 2 ELSE 3

\* replaceLabel(): the first text that is not blank is replaced.  A node is
\* [text], with the blanks around it left out, or [element].
\* Mutant: a text is added in front of the others.
ReplaceLabel_adds(nodes, text) == <<[text |-> text]>> \o nodes
ReplaceLabel(nodes, text) ==
  LET at == SelectInSeq(nodes, LAMBDA n : "text" \in DOMAIN n /\ n.text # Blank) IN
  IF at = 0 THEN <<[text |-> text]>> \o nodes
  ELSE [nodes EXCEPT ![at] = [text |-> text]]
==============================================================================
