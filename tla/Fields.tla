--------------------------------- MODULE Fields ---------------------------------
(***************************************************************************)
(* Lists of things that have a key each: the fields of a JSON object in    *)
(* the order of its text, the properties of a schema, the parameters of a  *)
(* query.  The first with a key counts.                                    *)
(***************************************************************************)
EXTENDS Sequences, Functions, SequencesExt

KeysOf(fields) == {f.key : f \in Range(fields)}
At(fields, k) == fields[SelectInSeq(fields, LAMBDA f : f.key = k)].value
==============================================================================
