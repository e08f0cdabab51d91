----------------------------- MODULE BodyValidation -----------------------------
(***************************************************************************)
(* How the browser page validates the body of a packet against a schema,   *)
(* and where it marks an error in the text.  Everything here is a function *)
(* of its arguments.                                                       *)
(*                                                                         *)
(* Numbers are counted in halves, so that some are no integers; a string   *)
(* is one of Texts.  The fields of an object and the constraints of a      *)
(* schema are sequences in the order of the text; None is a constraint     *)
(* that is not there.  Errors are a set: their order is not looked at.     *)
(***************************************************************************)
EXTENDS Integers, FiniteSets, Fields

CONSTANTS
  LengthOf,   \* LengthOf[s]: length of each text
  Spelled,    \* Spelled[k]: keys that the pattern of jsonPathParts() finds in .k
  None

ASSUME BodyValidationAssumption ==
  /\ LengthOf \in [DOMAIN LengthOf -> Nat]
  /\ \A k \in DOMAIN Spelled : Spelled[k] \in Seq(STRING)

-----------------------------------------------------------------------------
(* JSON values and schemas *)

Null == [kind |-> "null"]
Number(halves) == [kind |-> "number", halves |-> halves]
String(s) == [kind |-> "string", text |-> s]
Array(s) == [kind |-> "array", elements |-> s]
Object(fs) == [kind |-> "object", fields |-> fs]
Field(k, x) == [key |-> k, value |-> x]

NoSchema == [only |-> "none"]
AnySchema == [types |-> {}, enum |-> None, minLength |-> None, maxLength |-> None,
              minimum |-> None, maximum |-> None, required |-> {},
              properties |-> <<>>, closed |-> FALSE, items |-> NoSchema]

ValueType(x) ==
  IF x.kind = "number" /\ x.halves % 2 = 0 THEN "integer" ELSE x.kind

SchemaTypeMatches(x, types) ==
  ValueType(x) \in types \/ ("number" \in types /\ ValueType(x) = "integer")

Key(k) == [key |-> k]
Item(n) == [item |-> n]
Error(path, what) == [path |-> path, what |-> what]

RECURSIVE ValidateValue(_, _, _)
ValidateValue(x, s, path) ==
  LET Here(what, wrong) == IF wrong THEN {Error(path, what)} ELSE {}
      Below == CASE x.kind = "object" ->
                      UNION {LET k == p.key IN
                             IF k \in KeysOf(x.fields)
                             THEN ValidateValue(At(x.fields, k), p.value, Append(path, Key(k))) ELSE {}
                             : p \in Range(s.properties)}
                 [] x.kind = "array" ->
                      UNION {ValidateValue(x.elements[n], s.items, Append(path, Item(n)))
                             : n \in DOMAIN x.elements}
                 [] OTHER -> {}
  IN  IF s = NoSchema THEN {}
      ELSE IF s.types # {} /\ ~SchemaTypeMatches(x, s.types) THEN {Error(path, "type")}
      ELSE Here("enum", s.enum # None /\ x \notin s.enum)
           \cup Here("minLength", x.kind = "string" /\ s.minLength # None
                                    /\ LengthOf[x.text] < s.minLength)
           \cup Here("maxLength", x.kind = "string" /\ s.maxLength # None
                                    /\ LengthOf[x.text] > s.maxLength)
           \cup Here("minimum", x.kind = "number" /\ s.minimum # None /\ x.halves < s.minimum)
           \cup Here("maximum", x.kind = "number" /\ s.maximum # None /\ x.halves > s.maximum)
           \cup (IF x.kind # "object" THEN {} ELSE
                   {Error(Append(path, Key(k)), "required") : k \in s.required \ KeysOf(x.fields)}
                   \cup {Error(Append(path, Key(k)), "additional") :
                           k \in IF s.closed THEN KeysOf(x.fields) \ KeysOf(s.properties) ELSE {}})
           \cup Below

\* A body is None if there is none, [json |-> x], or [bad |-> text].
ValidateBodyAgainstSchema(body, s) ==
  IF body = None THEN {Error(<<>>, "empty")}
  ELSE IF "bad" \in DOMAIN body THEN {Error(<<>>, "not JSON")}
  ELSE ValidateValue(body.json, s, <<>>)

-----------------------------------------------------------------------------
(* Where errors are marked *)

\* The quoted texts of a formatted body, with the place each one stands at.
RECURSIVE Quoted(_, _)
Quoted(x, path) ==
  CASE x.kind = "string" -> <<[text |-> x.text, path |-> path, isKey |-> FALSE]>>
    [] x.kind = "object" ->
         FlattenSeq([n \in DOMAIN x.fields |->
           LET there == Append(path, Key(x.fields[n].key)) IN
           <<[text |-> x.fields[n].key, path |-> there, isKey |-> TRUE]>>
             \o Quoted(x.fields[n].value, there)])
    [] x.kind = "array" ->
         FlattenSeq([n \in DOMAIN x.elements |-> Quoted(x.elements[n], Append(path, Item(n)))])
    [] OTHER -> <<>>

\* A path is written as $.a[0] and read back.
JsonPathParts(path) ==
  FlattenSeq([n \in DOMAIN path |->
    IF "item" \in DOMAIN path[n] THEN <<path[n]>>
    ELSE [i \in DOMAIN Spelled[path[n].key] |-> Key(Spelled[path[n].key][i])]])

\* The first place where the last key of the path stands in quotes, or 0.
\* Mutant: the last one.
FindJsonPathPosition_last(text, path) ==
  LET parts == JsonPathParts(path) IN
  IF parts = <<>> \/ "item" \in DOMAIN Last(parts) THEN 0
  ELSE LET at == {n \in DOMAIN text : text[n].text = Last(parts).key} IN
       IF at = {} THEN 0 ELSE Max(at)
FindJsonPathPosition(text, path) ==
  LET parts == JsonPathParts(path) IN
  IF parts = <<>> \/ "item" \in DOMAIN Last(parts) THEN 0
  ELSE SelectInSeq(text, LAMBDA q : q.text = Last(parts).key)

\* markMissingField() goes to the line of the parent, or to the first line.
\* (It cuts the last key off the path as it was read back; that this leaves
\* the parent is true of keys that read back as they are written.)
Mark(text, path) ==
  LET at == FindJsonPathPosition(text, path)
      parts == JsonPathParts(path)
  IN  IF at # 0 THEN [kind |-> "underline", at |-> at]
      ELSE IF parts = <<>> \/ "item" \in DOMAIN Last(parts) THEN [kind |-> "none", at |-> 0]
      ELSE [kind |-> "missing", at |-> FindJsonPathPosition(text, Front(path))]

-----------------------------------------------------------------------------
\* What a schema means, said without errors and paths.
RECURSIVE Conforms(_, _)
Conforms(x, s) ==
  \/ s = NoSchema
  \/ /\ \/ s.types \cap {x.kind, ValueType(x)} # {}
        \/ s.types = {}
     /\ s.enum = None \/ x \in s.enum
     /\ x.kind = "string" => /\ s.minLength = None \/ s.minLength <= LengthOf[x.text]
                             /\ s.maxLength = None \/ LengthOf[x.text] <= s.maxLength
     /\ x.kind = "number" => /\ s.minimum = None \/ s.minimum <= x.halves
                             /\ s.maximum = None \/ x.halves <= s.maximum
     /\ x.kind = "array" => \A n \in DOMAIN x.elements : Conforms(x.elements[n], s.items)
     /\ x.kind = "object" =>
          /\ s.required \subseteq KeysOf(x.fields)
          /\ s.closed => KeysOf(x.fields) \subseteq KeysOf(s.properties)
          /\ \A p \in Range(s.properties) :
               p.key \in KeysOf(x.fields) => Conforms(At(x.fields, p.key), p.value)

\* A body meets a schema if it is JSON and conforms to it.
Meets(body, s) == body # None /\ "json" \in DOMAIN body /\ Conforms(body.json, s)

\* The part of x that a path leads to, or None.
RECURSIVE Part(_, _)
Part(x, path) ==
  IF path = <<>> THEN x
  ELSE LET step == Head(path) IN
       IF "key" \in DOMAIN step
       THEN IF x.kind = "object" /\ step.key \in KeysOf(x.fields)
            THEN Part(At(x.fields, step.key), Tail(path)) ELSE None
       ELSE IF x.kind = "array" /\ step.item \in DOMAIN x.elements
            THEN Part(x.elements[step.item], Tail(path)) ELSE None
==============================================================================
