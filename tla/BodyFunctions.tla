----------------------------- MODULE BodyFunctions -----------------------------
(***************************************************************************)
(* What the functions of the browser page that look into bodies ought to   *)
(* return: validation against a schema, and the marks of its errors.  They *)
(* are called as PageFunctions calls the others, with BodyCalls: a call is *)
(* [fn |-> "validate", body, schema] or [fn |-> "mark", x, path], x a JSON *)
(* value and path a place in it, with or without something there.          *)
(***************************************************************************)
EXTENDS PageFunctions, BodyValidation

-----------------------------------------------------------------------------
\* validateBodyAgainstSchema() finds no error exactly if the body is JSON that
\* conforms, and the path of an error leads to the part it is about, or past
\* an object without it.
ValidationMatchesReference ==
  Called("validate") =>
    LET errors == ValidateBodyAgainstSchema(call.body, call.schema) IN
    /\ (errors = {}) = Meets(call.body, call.schema)
    /\ (call.body # None /\ "json" \in DOMAIN call.body) =>
         \A e \in errors :
           IF e.what = "required"
           THEN /\ Part(call.body.json, e.path) = None
                /\ Part(call.body.json, Front(e.path)).kind = "object"
           ELSE Part(call.body.json, e.path) # None

\* An error is underlined at the key it is about, and a missing field marked
\* at its parent or at the top (app.js:918), if no text further up in the body
\* reads like the key and the keys are such that a path can be read back.
MarksAreRight ==
  Called("mark") =>
    LET text == Quoted(call.x, <<>>)
        mark == Mark(text, call.path)
        Plain == \A n \in DOMAIN call.path :
                   "key" \in DOMAIN call.path[n] =>
                     Spelled[call.path[n].key] = <<call.path[n].key>>
        IsKey == call.path # <<>> /\ "key" \in DOMAIN Last(call.path)
        Own(p) == SelectInSeq(text, LAMBDA q : q.isKey /\ q.path = p)
        First(p) == \A n \in DOMAIN text :
                      text[n].text = Last(p).key => Own(p) # 0 /\ Own(p) <= n
        parent == Front(call.path)
    IN  (Plain /\ IsKey /\ First(call.path)) =>
          IF Own(call.path) # 0 THEN mark = [kind |-> "underline", at |-> Own(call.path)]
          ELSE /\ mark.kind = "missing"
               /\ (mark.at # 0 /\ First(parent)) => mark.at = Own(parent)

-----------------------------------------------------------------------------
\* What the page says is wrong with a body is what is wrong with it, and it
\* says so at the place that is wrong.
ErrorsAreFoundAndMarked == ValidationMatchesReference /\ MarksAreRight
==============================================================================
