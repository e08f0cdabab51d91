------------------------------ MODULE RuleMatching ------------------------------
(***************************************************************************)
(* Which of the schema rules apply to a packet, by its URL, and what the   *)
(* page makes of the errors that they find: the shield of the packet's row *)
(* and the frames of its bodies.  Everything here is a function of its     *)
(* arguments.  What a schema finds wrong with a body is BodyValidation's;  *)
(* the results of the rules are a set: their order is not looked at.       *)
(***************************************************************************)
EXTENDS Integers, FiniteSets, Fields

CONSTANTS
  Decoded,       \* Decoded[s]: a path segment decoded, or Nothing if it cannot be
  Wild,          \* segments that stand for any: * and {name}
  Star,          \* the value * in a query
  Errors(_, _),  \* Errors(body, schema): what is wrong with the body
  Nothing        \* no segment, no verdict, no result

ASSUME RuleMatchingAssumption == Nothing \notin {"valid", "invalid"}

-----------------------------------------------------------------------------
(* Which rules apply *)

\* A url or pattern is [path |-> segments, query |-> sequence of [key, value]].
\* A segment that cannot be decoded makes the comparison fail with an error.
\* Mutant: the number of segments is not looked at.
MatchesUrlPattern_prefix(url, pattern) ==
  LET shorter == IF Len(url.path) < Len(pattern.path) THEN url.path ELSE pattern.path
      differ == {n \in DOMAIN shorter : /\ pattern.path[n] \notin Wild
                                        /\ Decoded[url.path[n]] # Decoded[pattern.path[n]]}
  IN  IF differ # {} THEN "no" ELSE "yes"
MatchesUrlPattern(url, pattern) ==
  LET Bad(n) == Nothing \in {Decoded[url.path[n]], Decoded[pattern.path[n]]}
      deciding == {n \in DOMAIN pattern.path :
                     /\ pattern.path[n] \notin Wild
                     /\ Bad(n) \/ Decoded[url.path[n]] # Decoded[pattern.path[n]]}
  IN  IF Len(url.path) # Len(pattern.path) THEN "no"
      ELSE IF deciding # {} THEN IF Bad(Min(deciding)) THEN "throws" ELSE "no"
      ELSE IF \A q \in Range(pattern.query) :
                /\ q.key \in KeysOf(url.query)
                /\ q.value \in {Star, At(url.query, q.key)}
      THEN "yes" ELSE "no"

\* A rule has a pattern, a target and a schema.
Applied(url, rules) == {r \in Range(rules) : MatchesUrlPattern(url, r.pattern) = "yes"}
Throws(url, rules) == \E r \in Range(rules) : MatchesUrlPattern(url, r.pattern) = "throws"

\* computeValidation(): a packet has a url and a body on either side; the
\* result is Nothing if the function fails.
Side == {"request", "response"}
ComputeValidation(packet, rules) ==
  LET results == {[target |-> r.target, errors |-> Errors(packet[r.target], r.schema)] :
                    r \in Applied(packet.url, rules)}
  IN  IF Throws(packet.url, rules) THEN Nothing ELSE
      [results |-> results,
       paths |-> [t \in Side |-> UNION {r.errors : r \in {q \in results : q.target = t}}]]

\* The shield of the row, and the frame of a body in the details.
Verdict(results) ==
  IF results = {} THEN Nothing
  ELSE IF \E r \in results : r.errors # {} THEN "invalid" ELSE "valid"
RowShield(validation) == Verdict(validation.results)
BodyValidationState(validation, target) ==
  Verdict({r \in validation.results : r.target = target})
==============================================================================
