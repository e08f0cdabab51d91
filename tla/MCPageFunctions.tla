---------------------------- MODULE MCPageFunctions ----------------------------
(* Small instances of PageFunctions for TLC.  The errors of a body are those *)
(* that BodyValidation finds.                                               *)
EXTENDS BodyFunctions, TLC

MCLengthOf == [s \in {"a", "id", "x y"} |-> IF s = "a" THEN 1 ELSE IF s = "id" THEN 2 ELSE 3]
MCSpelled == [k \in {"a", "id", "x y"} |-> IF k = "x y" THEN <<"x">> ELSE <<k>>]
MCDecoded == [s \in {"a", "%61", "b", "*", "{n}", "%zz"} |->
                IF s = "%61" THEN "a" ELSE IF s = "%zz" THEN None ELSE s]
MCLower == [h \in {"Id", "id", "other"} |-> IF h = "Id" THEN "id" ELSE h]
MCEnglish == [k \in {"k1", "k2"} |-> IF k = "k1" THEN "one" ELSE "two"]
MCRussian == [k \in {"k1"} |-> "odin"]

Q(k, v) == [key |-> k, value |-> v]
Queries == {<<>>, <<Q("k", "1")>>, <<Q("k", "2")>>, <<Q("k", "1"), Q("j", "1")>>,
            <<Q("k", "1"), Q("k", "2")>>}
Address(s, q) == [path |-> s, query |-> q]
MCUrl == {Address(s, q) : s \in {<<>>, <<"a">>, <<"%61", "b">>, <<"a", "%zz">>, <<"b", "a">>},
                          q \in Queries}
MCPattern ==
  {Address(s, q) : s \in {<<>>, <<"a">>, <<"a", "b">>, <<"*", "b">>, <<"a", "{n}">>, <<"{n}", "*">>},
                   q \in Queries \cup {<<Q("k", "*")>>}}
MCBody == {None, [bad |-> "a"], [json |-> Number(1)], [json |-> Number(2)],
           [json |-> Object(<<>>)], [json |-> Object(<<Field("id", Number(1))>>)]}
MCPackets == {[url |-> Address(p, <<>>), request |-> a, response |-> b] :
                p \in {<<"a">>, <<"b", "a">>, <<"%zz", "a">>}, a, b \in MCBody}
Rules == {[pattern |-> Address(p, <<>>), target |-> t, schema |-> s] :
            p \in {<<"*">>, <<"b", "a">>}, t \in {"request", "response"},
            s \in {AnySchema, [AnySchema EXCEPT !.types = {"integer"}],
                  [AnySchema EXCEPT !.required = {"id"}]}}
MCRuleLists == {<<>>} \cup {<<r>> : r \in Rules} \cup {<<r, q>> : r, q \in Rules}

Placeholder(n, a) == [name |-> n, arg |-> a]
Parts == {[literal |-> "text"], Placeholder("host", NoArg), Placeholder("value", NoArg),
          Placeholder("fromMs", NoArg), Placeholder("nonsense", NoArg), Placeholder("host", "id"),
          Placeholder("reqHeader", NoArg), Placeholder("reqHeader", "id"),
          Placeholder("respHeader", "Id"), Placeholder("url", NoArg)}
MCTemplate == {<<p>> : p \in Parts} \cup {<<p, q>> : p, q \in Parts}
Header(n, v) == [name |-> n, value |-> v]
MCHeaders == {<<>>, <<Header("Id", "1")>>, <<Header("other", "0"), Header("id", "1")>>,
              <<Header("Id", "1"), Header("id", "2")>>}

MCSegments == UNION {[1 .. n -> {[name |-> "sid", value |-> "1"], [name |-> "HttpOnly", value |-> NoArg],
                                 [name |-> Blank, value |-> NoArg], [name |-> Blank, value |-> "1"]}]
                     : n \in 0 .. 3}

MCMarkup == UNION {[1 .. n -> {"open", "close", "self", "pair", "text"}] : n \in 0 .. 5}

Node == {[text |-> Blank], [text |-> "old"], [element |-> "icon"], [element |-> "input"]}
MCNodes == UNION {[1 .. n -> Node] : n \in 0 .. 3}

Leaf == {Null, Number(1), Number(2), Number(4), String("a"), String("id")}
Small == Leaf \cup {Object(<<>>)} \cup {Object(<<Field("id", x)>>) : x \in Leaf}
           \cup {Array(<<x>>) : x \in Leaf}
Document ==
  Small \cup {Object(<<Field("a", x), Field("id", y)>>) : x \in Small, y \in Leaf}
        \cup {Object(<<Field("id", y), Field("a", x)>>) : x \in Small, y \in Leaf}
        \cup {Array(<<x, y>>) : x \in Small, y \in {Number(2), Object(<<Field("x y", Null)>>)}}

Flat ==
  {AnySchema, NoSchema, [AnySchema EXCEPT !.types = {"number"}],
   [AnySchema EXCEPT !.types = {"integer", "string"}],
   [AnySchema EXCEPT !.minimum = 2, !.maxLength = 1],
   [AnySchema EXCEPT !.maximum = 2, !.minLength = 2],
   [AnySchema EXCEPT !.enum = {Number(2), String("id")}]}
Schema ==
  Flat \cup {[AnySchema EXCEPT !.required = {"id"}, !.closed = c,
                               !.properties = <<Field("id", s)>>] : s \in Flat, c \in BOOLEAN}
       \cup {[AnySchema EXCEPT !.items = s] : s \in Flat}
       \cup {[AnySchema EXCEPT !.properties =
               <<Field("a", [AnySchema EXCEPT !.types = {"object"}, !.required = {"id"},
                                              !.properties = <<Field("id", s)>>]),
                 Field("id", NoSchema)>>] : s \in Flat}

Steps == {Key("a"), Key("id"), Key("x y"), Item(1)}
Path == {<<>>} \cup {<<s>> : s \in Steps} \cup {<<s, r>> : s, r \in Steps}
MCBodyCalls ==
  {[fn |-> "validate", body |-> b, schema |-> s] :
     b \in {None, [bad |-> "a"]} \cup {[json |-> x] : x \in Document}, s \in Schema}
  \cup {[fn |-> "mark", x |-> x, path |-> p] : x \in Document, p \in Path}
==============================================================================
