------------------------------- MODULE MCLibrary -------------------------------
(* Instance for TLC of the parts that are called and return, side by side:   *)
(* they share no state, so a behaviour is of one part.  The table of         *)
(* commands, the file, the daemon and the worker take steps; of the others   *)
(* one case is drawn and looked at.                                          *)
EXTENDS MCCommandTable, Identity, Kubo, Engine, Cases, Expression

VARIABLE part

MCContents == {<<1, 2>>, <<1, 2, 3>>}

UpTo(n, S) == UNION {[1..k -> S] : k \in 0..n}

-----------------------------------------------------------------------------
(* Lines: every one of up to four characters, and some words.              *)

OneArg(type) ==
    [name |-> <<120>>, description |-> <<>>, type |-> type, required |-> TRUE, rest |-> FALSE,
     maxLength |-> 0, allowed |-> <<>>, nesting |-> 0, values |-> <<>>]
Expr == [OneArg("string") EXCEPT !.maxLength = 3, !.allowed = <<32, 40, 41, 49>>,
                                 !.nesting = 1, !.rest = TRUE]
Word == [OneArg("string") EXCEPT !.name = <<119>>, !.maxLength = 2]
Optional == [OneArg("enum") EXCEPT !.name = <<121>>, !.required = FALSE,
                                   !.values = <<<<40>>, <<41>>>>]

Declared(args, type) ==
    [name |-> <<99>>, capability |-> "math", tool |-> "solve", summary |-> <<>>,
     args |-> args, result |-> [type |-> type, maxChars |-> 4]]

Descriptors ==
    {Declared(<<Expr>>, "number"), Declared(<<OneArg("integer"), Optional>>, "integer"),
     Declared(<<OneArg("number"), Optional>>, "boolean"), Declared(<<Word, Expr>>, "integer"),
     Declared(<<OneArg("boolean")>>, "number")}

Lines ==
    UpTo(4, {32, 40, 41, 45, 46, 48, 49}) \union {True, False, <<32>> \o True, <<49, 49, 49>>}

Typings == UpTo(4, {10, 32, Slash, 67, 99})

CallCases == [d : Descriptors, rest : Lines]

-----------------------------------------------------------------------------
(* Values: scalars, texts that look like the encoding of others, and what  *)
(* can be built of two of them.                                            *)

Scalars ==
    {[kind |-> "none"], [kind |-> "nonfinite"], [kind |-> "bool", bool |-> TRUE],
     [kind |-> "int", int |-> 0], [kind |-> "int", int |-> 1], [kind |-> "int", int |-> -1],
     [kind |-> "number", num |-> [neg |-> TRUE, mag |-> 0]],
     [kind |-> "number", num |-> [neg |-> FALSE, mag |-> 0]],
     [kind |-> "number", num |-> [neg |-> TRUE, mag |-> 1]],
     [kind |-> "string", text |-> <<>>], [kind |-> "string", text |-> <<4>>],
     [kind |-> "bytes", bytes |-> <<4>>]}

Values ==
    Scalars
    \union {[kind |-> "list", items |-> s] : s \in UpTo(2, Scalars)}
    \union {[kind |-> "object", fields |-> f] :
               f \in UNION {[K -> Scalars] : K \in {{<<1>>}, {<<1>>, <<1, 4>>}, {<<2>>, <<1>>}}}}

Beside == {[kind |-> "string", text |-> <<4>>],
           [kind |-> "list", items |-> <<[kind |-> "none"], [kind |-> "int", int |-> 0]>>],
           [kind |-> "object",
            fields |-> (<<1>> :> [kind |-> "none"] @@ <<1, 4>> :> [kind |-> "int", int |-> 0])],
           [kind |-> "number", num |-> [neg |-> FALSE, mag |-> 0]]}

ValueCases ==
    [tool : {<<1>>}, v : Values,
     other : {<<1>>, <<1, 4>>}, w : Values \intersect (Beside \union Scalars)]

Fragments == UpTo(3, UpTo(2, {0, 1}))
ChunkCases ==
    [domain : {DomainTool}, chunks : UpTo(2, UpTo(2, {0, 1})),
     other : {DomainTool, DomainQuery}, others : Fragments]

Item(id, deps) ==
    [id |-> id, context |-> <<<<1>>, <<2>>, <<>>, <<49>>, <<>>, <<48>>>>, deps |-> deps,
     command |-> <<<<>>, <<>>, <<>>>>]
Items ==
    {Item(<<1>>, <<>>), Item(<<2>>, <<<<1>>>>), Item(<<2>>, <<<<1>>, <<1, 1>>>>),
     Item(<<2>>, <<<<1, 1>>, <<1>>>>), Item(<<3>>, <<>>)}
Batches == {b \in UpTo(3, Items) : \A i, j \in DOMAIN b : i # j => b[i].id # b[j].id}
Head1 == <<<<1>>, <<2>>, <<3>>, <<52>>>>
Head2 == <<<<1, 2>>, <<>>, <<3>>, <<52>>>>
BatchCases == [head : {Head1}, items : Batches, other : {Head1, Head2}, others : Batches]

JsonTexts == {[kind |-> "text", text |-> t] : t \in {Inline, Ipfs, Reuse, <<1001>>}}
JsonLeaves ==
    JsonTexts \union {[kind |-> "null"], [kind |-> "integer", int |-> 1],
                      [kind |-> "float", num |-> [neg |-> TRUE, mag |-> 0]]}
JsonObjects ==
    {[kind |-> "object", fields |-> m] :
        m \in UNION {[K -> JsonLeaves] : K \in SUBSET {Transport, Base64, Retention, <<99>>}}}
Jsons ==
    JsonLeaves \union JsonObjects
    \union {[kind |-> "list", items |-> s] : s \in UpTo(2, JsonLeaves)}
    \union {[kind |-> "object", fields |-> (<<99>> :> o)] : o \in JsonObjects}

-----------------------------------------------------------------------------
(* Messages: payloads whose map comes in either order, with or without a   *)
(* field of a later version.                                               *)

MCPayloadTags == {10, 30}
MCKnownTags == {1, 2}
Payloads == {<<>>, <<<<1, 5>>, <<1, 7>>>>, <<<<1, 7>>, <<1, 5>>>>,
             <<<<9, 1>>, <<1, 5>>>>, <<<<2, 5>>>>}
Envelopes ==
    [did : {"A"}, head : {<<>>, <<<<IdTag, 1>>>>, <<<<DestTag, "B">>, <<TimeTag, 2>>>>},
     tag : MCPayloadTags, payloads : {Payloads}]

Unsigned1 == [did |-> "", time |-> 0, signature |-> Sign("B", <<0>>)]
Topics ==
    {Unsigned1 @@ m : m \in
        [type : {"advertise", "beacon"}, beacon : {<<>>, <<<<1, 3>>, <<2, 4>>>>, <<<<2, 4>>>>},
         ttl : {0, 9}]
        \union [type : {"offer"}, mission : {"m"}, kind : {"ocr"}, deadline : {5}]
        \union [type : {"bid"}, mission : {"m"},
                capabilities : {<<>>, <<<<3>>, <<1>>, <<1, 2>>>>, <<<<1>>, <<1>>, <<2>>>>}]
        \union [type : {"assign"}, mission : {"m"}, assigned : {"A", ""}]}
TopicCases == [did : {"A"}, time : {7}, message : Topics]

-----------------------------------------------------------------------------
(* People: names with marks, at both ends of a century.                    *)

Char(letter, mark, upper) == [letter |-> letter, mark |-> mark, upper |-> upper]
Typed(letters) == [i \in DOMAIN letters |-> Char(letters[i], "none", i = 1)]
Names ==
    {<<>>, <<Typed(<<"P", "U", "L">>)>>, <<Typed(<<"D", "E">>), Typed(<<"A", "B", "E">>)>>,
     <<Typed(<<"D", "E">>)>>, <<Typed(<<"O", "-">>)>>,
     <<<<Char("T", "none", TRUE), Char("O", "acute", FALSE)>>>>,
     <<<<Char("N", "tilde", TRUE)>>, Typed(<<"A">>)>>,
     <<<<Char("U", "none", TRUE), Char("N", "tilde", FALSE), Char("Z", "none", FALSE)>>>>}
MCCatalogue ==
    {<<<<"M", "E", "X", "I", "C", "O">>, <<"M", "C">>>>,
     <<<<"C", "O", "L", "I", "M", "A">>, <<"C", "M">>>>}
MCInconvenient == {<<"P", "U", "T", "O">>}

Dates == {<<1900, 2, 29>>, <<1956, 6, 26>>, <<1999, 12, 31>>, <<2000, 2, 29>>, <<2023, 4, 31>>,
          <<2099, 1, 10>>}
PeopleNamed(names) ==
    {[nombre |-> n, paterno |-> p, materno |-> m, year |-> d[1], month |-> d[2], day |-> d[3],
      sexo |-> s, entidad |-> e, differentiator |-> c] :
        n \in names, p \in names, m \in names, d \in Dates, s \in {"H", "x"},
        e \in {<<"M", "C">>, <<"C", "O", "L", "I", "M", "A">>, <<"Z", "Z">>},
        c \in {"", "1", "B"}}
People == {p \in PeopleNamed(Names) : p.sexo = "H" \/ p.differentiator = ""}

-----------------------------------------------------------------------------
(* Expressions: trees, and the text that the documented precedence gives.  *)
(* A value is the tree it was computed by, and its number: a fraction, or  *)
(* Infinite when there is none or it is out of the range, here 100.  No    *)
(* tree that is drawn goes on from an infinite number.                     *)

Infinite == <<1, 0>>
Bounded(n, d) ==
    IF d = 0 THEN Infinite
    ELSE LET size == IF n < 0 THEN -n ELSE n
             top == IF d < 0 THEN -n ELSE n
             bottom == IF d < 0 THEN -d ELSE d
         IN IF size > 100 * bottom THEN Infinite ELSE <<top, bottom>>

\* A power of an exponent that is a whole number.
PowerOf(a, b) ==
    LET exponent == b[1] \div b[2]
    IN IF exponent = 0 THEN <<1, 1>>
       ELSE IF exponent > 0 THEN Bounded(a[1]^exponent, a[2]^exponent)
       ELSE Bounded(a[2]^(-exponent), a[1]^(-exponent))

NumberOf(op, a, b) ==
    CASE op = "+" -> Bounded(a[1] * b[2] + b[1] * a[2], a[2] * b[2])
      [] op = "-" -> Bounded(a[1] * b[2] - b[1] * a[2], a[2] * b[2])
      [] op = "*" -> Bounded(a[1] * b[1], a[2] * b[2])
      [] op = "/" -> Bounded(a[1] * b[2], a[2] * b[1])
      [] op = "^" -> PowerOf(a, b)

Leaf(raw) == [raw |-> raw]
Node(op, l, r) == [op |-> op, left |-> l, right |-> r]
Minus(t) == [op |-> "neg", of |-> t]
ZeroLeaf == Leaf(<<"0">>)
TwoLeaf == Leaf(<<"2", ".", "0">>)
HugeLeaf == Leaf(<<"9", "9", "9">>)

MCParsed(raw) ==
    [tree |-> Leaf(raw),
     num |-> CASE raw = ZeroLeaf.raw -> <<0, 1>> [] raw = TwoLeaf.raw -> <<2, 1>>
               [] raw = HugeLeaf.raw -> Infinite]
MCApply(op, l, r) == [tree |-> Node(op, l.tree, r.tree), num |-> NumberOf(op, l.num, r.num)]
MCNegate(v) == [tree |-> Minus(v.tree), num |-> <<-v.num[1], v.num[2]>>]
MCIsZero(v) == v.num[1] = 0
MCIsFinite(v) == v.num[2] # 0

Over(trees) ==
    {Node(op, l, r) : op \in {"+", "-", "*", "/", "^"}, l \in trees, r \in trees}
    \union {Minus(t) : t \in trees}
Leaves == {ZeroLeaf, TwoLeaf}
Small == Leaves \union Over(Leaves)
Trees == Small \union Over(Small) \union {HugeLeaf} \union Over({TwoLeaf, HugeLeaf})

\* packages/satellite-capabilities/src/arithmetic.ts: "^ (asociativo a la
\* derecha) > unario - > * / > + -".
Level(tree) ==
    IF "raw" \in DOMAIN tree THEN 5
    ELSE CASE tree.op \in {"+", "-"} -> 1 [] tree.op \in {"*", "/"} -> 2
           [] tree.op = "neg" -> 3 [] OTHER -> 4

RECURSIVE Printed(_, _)
Printed(tree, least) ==
    LET level == Level(tree)
        text ==
            IF level = 5 THEN tree.raw
            ELSE IF level = 3 THEN <<"-">> \o Printed(tree.of, 3)
            ELSE Printed(tree.left, IF level = 4 THEN 5 ELSE level) \o <<" ", tree.op>>
                     \o Printed(tree.right, IF level = 4 THEN 3 ELSE level + 1)
    IN IF level < least THEN <<"(">> \o text \o <<")">> ELSE text

\* What a tree means, or that it has no value: a literal is out of the range,
\* or a divisor is zero.
RECURSIVE Meaning(_)
Meaning(tree) ==
    IF Level(tree) = 5
    THEN LET v == MCParsed(tree.raw) IN IF MCIsFinite(v) THEN Success(v) ELSE Failure
    ELSE IF Level(tree) = 3
    THEN LET v == Meaning(tree.of) IN IF v.ok THEN Success(MCNegate(v.value)) ELSE Failure
    ELSE LET l == Meaning(tree.left)
             r == Meaning(tree.right)
         IN IF ~l.ok \/ ~r.ok THEN Failure
            ELSE IF tree.op = "/" /\ MCIsZero(r.value) THEN Failure
            ELSE Success(MCApply(tree.op, l.value, r.value))

-----------------------------------------------------------------------------
MCDrawn ==
    [call |-> CallCases, line |-> Typings, value |-> ValueCases, chunks |-> ChunkCases,
     batch |-> BatchCases, json |-> Jsons, envelope |-> Envelopes, topic |-> TopicCases,
     person |-> People, expression |-> Trees]

MCInit ==
    /\ Init /\ IdInit /\ KuboInit /\ EngineInit /\ CaseInit
    /\ part \in {"commands", "identity", "kubo", "engine", "case"}
    /\ part # "identity" => original = Absent
    /\ part # "commands" => policy = MCPolicy
    /\ part # "kubo" => pins = {}

MCNext ==
    \/ part = "commands" /\ Next /\ UNCHANGED <<part, case, idVars, kuboVars, engineVars>>
    \/ part = "identity" /\ IdNext /\ UNCHANGED <<part, case, vars, kuboVars, engineVars>>
    \/ part = "kubo" /\ KuboNext /\ UNCHANGED <<part, case, vars, idVars, engineVars>>
    \/ part = "engine" /\ EngineNext /\ UNCHANGED <<part, case, vars, idVars, kuboVars>>
    \/ part = "case" /\ Draw /\ UNCHANGED <<part, vars, idVars, kuboVars, engineVars>>

MCSpec == MCInit /\ [][MCNext]_<<part, case, vars, idVars, kuboVars, engineVars>>

-----------------------------------------------------------------------------
\* The worker computes what the documented precedence means, and refuses an
\* expression exactly when a literal or the result is not finite or when what
\* it divides by comes out as zero.
ExpressionMeans ==
    case.part = "expression" =>
        LET meaning == Meaning(case.in)
        IN Solve(Printed(case.in, 1)) =
               IF meaning.ok /\ MCIsFinite(meaning.value) THEN meaning ELSE Failure
=============================================================================
