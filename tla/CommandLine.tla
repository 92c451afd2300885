----------------------------- MODULE CommandLine -----------------------------
(***************************************************************************)
(* From the line a person types to the arguments of a tool call, and from  *)
(* the node's result to the text shown: the grammar of                     *)
(* rust/fhs/src/commands.rs.                                               *)
(*                                                                         *)
(* A parse returns the set of its outcomes: one value, or none when the    *)
(* code returns an error, whichever it is.                                 *)
(***************************************************************************)
EXTENDS CommandContract

CONSTANT MaxInteger   \* i64::MAX; an instance may take a smaller one

ASSUME MaxIntegerAssumption == MaxInteger \in Nat

MaxLineChars == 2048
MaxScalarChars == 32

Blank == {32, 9}
AnyBlank == {9, 10, 11, 12, 13, 32}
Dot == 46
Slash == 47
True == <<116, 114, 117, 101>>
False == <<102, 97, 108, 115, 101>>

TrimStart(text, blanks) ==
    IF ToSet(text) \subseteq blanks THEN <<>>
    ELSE SubSeq(text, CHOOSE i \in DOMAIN text :
                          text[i] \notin blanks /\ ToSet(SubSeq(text, 1, i - 1)) \subseteq blanks,
                Len(text))

TrimEnd(text, blanks) == Reverse(TrimStart(Reverse(text), blanks))

Trim(text) == TrimEnd(TrimStart(text, AnyBlank), AnyBlank)

\* Length of the first word.
WordLen(text) ==
    CHOOSE n \in 0..Len(text) :
        /\ ToSet(SubSeq(text, 1, n)) \intersect Blank = {}
        /\ n = Len(text) \/ text[n + 1] \in Blank

AsciiLower(text) == [i \in DOMAIN text |-> IF text[i] \in Upper THEN text[i] + 32 ELSE text[i]]

ClassifyLine(typed) ==
    LET line == Trim(typed)
        body == Tail(line)
    IN IF line = <<>> \/ Head(line) # Slash THEN [kind |-> "plain"]
       ELSE IF body # <<>> /\ Head(body) = Slash THEN [kind |-> "escaped", text |-> body]
       ELSE [kind |-> "command", name |-> AsciiLower(SubSeq(body, 1, WordLen(body))),
             rest |-> SubSeq(body, WordLen(body) + 1, Len(body))]

-----------------------------------------------------------------------------
(* Scalars.                                                                *)

AllDigits(text) == text # <<>> /\ ToSet(text) \subseteq Digit

\* A natural number without leading zeros.
PlainNatural(text) == AllDigits(text) /\ (text = <<48>> \/ Head(text) # 48)

Negative(token) == token # <<>> /\ Head(token) = Hyphen

Unsigned(token) == IF Negative(token) THEN Tail(token) ELSE token

NaturalOf(digits) ==
    LET value[i \in 0..Len(digits)] ==
            IF i = 0 THEN 0 ELSE 10 * value[i - 1] + (digits[i] - 48)
    IN value[Len(digits)]

ParseInteger(token) ==
    LET value == IF Negative(token) THEN -NaturalOf(Unsigned(token)) ELSE NaturalOf(token)
    IN IF /\ PlainNatural(Unsigned(token)) /\ Len(token) <= MaxScalarChars
          /\ value \in -MaxInteger - 1..MaxInteger
       THEN {[type |-> "integer", int |-> value]} ELSE {}

\* Mutant: a zero is left as typed.
CanonicalAsTyped(token) == token

\* canonical_number: no zero keeps its sign.
CanonicalNumber(token) ==
    IF Negative(token) /\ ToSet(Tail(token)) \subseteq {48, Dot} THEN Tail(token) ELSE token

IsDecimal(unsigned) ==
    \/ PlainNatural(unsigned)
    \/ \E i \in DOMAIN unsigned :
           /\ unsigned[i] = Dot
           /\ PlainNatural(SubSeq(unsigned, 1, i - 1))
           /\ AllDigits(SubSeq(unsigned, i + 1, Len(unsigned)))

ParseNumber(token) ==
    IF Len(token) <= MaxScalarChars /\ IsDecimal(Unsigned(token))
    THEN {[type |-> "number", text |-> CanonicalNumber(token)]} ELSE {}

-----------------------------------------------------------------------------
(* Arguments.                                                              *)

\* The deepest parenthesis left open along the text; a closing one with none
\* open counts for nothing.
Nesting(text) ==
    LET depth[i \in 0..Len(text)] ==
            IF i = 0 THEN 0
            ELSE IF text[i] = 40 THEN depth[i - 1] + 1
            ELSE IF text[i] = 41 /\ depth[i - 1] > 0 THEN depth[i - 1] - 1
            ELSE depth[i - 1]
    IN CHOOSE n \in 0..Len(text) :
           (\E i \in DOMAIN depth : depth[i] = n) /\ \A i \in DOMAIN depth : depth[i] <= n

FitsString(arg, token) ==
    /\ Len(token) <= arg.maxLength
    /\ arg.allowed = <<>> \/ ToSet(token) \subseteq ToSet(arg.allowed)
    /\ arg.nesting > 0 => Nesting(token) <= arg.nesting

ParseValue(arg, token) ==
    CASE arg.type = "string" ->
             IF FitsString(arg, token) THEN {[type |-> "string", text |-> token]} ELSE {}
      [] arg.type = "integer" -> ParseInteger(token)
      [] arg.type = "number" -> ParseNumber(token)
      [] arg.type = "boolean" ->
             IF token \in {True, False} THEN {[type |-> "boolean", bool |-> token = True]} ELSE {}
      [] arg.type = "enum" ->
             IF token \in ToSet(arg.values) THEN {[type |-> "enum", text |-> token]} ELSE {}
      [] OTHER -> {}

\* What an argument takes of the rest of the line, and what it leaves of it.
Taken(arg, cursor) ==
    IF arg.rest THEN TrimEnd(cursor, Blank) ELSE SubSeq(cursor, 1, WordLen(cursor))
Left(arg, cursor) ==
    IF arg.rest THEN <<>>
    ELSE TrimStart(SubSeq(cursor, WordLen(cursor) + 1, Len(cursor)), Blank)

\* The rest of the line after so many arguments.
Cursors(args, rest) ==
    LET cursor[i \in 0..Len(args)] ==
            IF i = 0 THEN TrimStart(rest, Blank) ELSE Left(args[i], cursor[i - 1])
    IN cursor

\* The loop of parse_args ends at the first argument for which nothing is left,
\* which must not be a required one.
ParseArgs(d, rest) ==
    LET cursor == Cursors(d.args, rest)
        given == {i \in 1..Len(d.args) : cursor[i - 1] # <<>>}
        parsed == [i \in given |-> ParseValue(d.args[i], Taken(d.args[i], cursor[i - 1]))]
    IN IF \/ Len(rest) > MaxLineChars
          \/ \E i \in 1..Len(d.args) :
                 i \notin given /\ i - 1 \in given \union {0} /\ d.args[i].required
          \/ \E i \in given : parsed[i] = {}
          \/ cursor[Len(d.args)] # <<>>
       THEN {}
       ELSE {[i \in given |->
                 [name |-> d.args[i].name, value |-> CHOOSE v \in parsed[i] : TRUE]]}

\* A number is sent as the float nearest to its text, which may be the same for
\* another text; here the text stands for it, and whether it is the zero that
\* has a sign is kept apart.
SentValue(value) ==
    CASE value.type \in {"string", "enum"} -> [kind |-> "string", text |-> value.text]
      [] value.type = "number" ->
             [kind |-> "number", nearest |-> value.text,
              minusZero |-> /\ Negative(value.text)
                            /\ ToSet(Tail(value.text)) \subseteq {48, Dot}]
      [] OTHER -> value

\* args_value: the object of a ToolCall, whose fields have one value by name,
\* the last one.
ArgsValue(args) ==
    [name \in {args[i].name : i \in DOMAIN args} |->
        SentValue(args[CHOOSE i \in DOMAIN args :
                          /\ args[i].name = name
                          /\ \A j \in DOMAIN args : args[j].name = name => j <= i].value)]

-----------------------------------------------------------------------------
(* Results.                                                                *)

DecimalOf(n) ==
    LET size == IF n < 0 THEN -n ELSE n
        decimal[k \in 0..size] ==
            IF k < 10 THEN <<48 + k>> ELSE Append(decimal[k \div 10], 48 + (k % 10))
    IN IF n < 0 THEN <<Hyphen>> \o decimal[size] ELSE decimal[size]

\* validate_result, of the one field an object must have.
ValidateResult(d, text) ==
    IF Len(text) > d.result.maxChars THEN {}
    ELSE CASE d.result.type = "integer" -> {DecimalOf(v.int) : v \in ParseInteger(text)}
           [] d.result.type = "number" -> {v.text : v \in ParseNumber(text)}
           [] d.result.type = "boolean" -> {text} \intersect {True, False}
           [] OTHER -> {}

-----------------------------------------------------------------------------
(* What a parse must give.                                                 *)

\* The text of a value, as a person would write it.
Written(value) ==
    CASE value.type \in {"string", "enum", "number"} -> value.text
      [] value.type = "integer" -> DecimalOf(value.int)
      [] OTHER -> IF value.bool THEN True ELSE False

Rewritten(args) ==
    FlattenSeq([i \in DOMAIN args |-> <<32>> \o Written(args[i].value)])

\* Whatever is typed can be sent: a line that looks like a command goes as
\* text with one more slash before it, and nothing else is taken for a
\* command.  A name in capitals is the same name, and nothing of the line is
\* lost.
LineKept(typed) ==
    LET line == Trim(typed)
        read == ClassifyLine(typed)
    IN /\ (read.kind = "plain") <=> (line = <<>> \/ Head(line) # Slash)
       /\ read.kind # "plain" =>
              ClassifyLine(<<Slash>> \o line) = [kind |-> "escaped", text |-> line]
       /\ read.kind = "command" =>
              /\ AsciiLower(line) = <<Slash>> \o read.name \o AsciiLower(read.rest)
              /\ ClassifyLine(<<Slash>> \o read.name \o read.rest) = read

\* What was parsed is what a person can read back: the arguments, written again
\* with one blank before each, or with blanks around the line, parse to
\* themselves, unless that makes the line too long; none is missing and none
\* left over.  In the object that is sent no argument takes the place of
\* another, and no zero has a sign.  That a number is sent rounded is no part
\* of this.
CallSurvives(d, rest) ==
    \A args \in ParseArgs(d, rest) :
        /\ \A i \in DOMAIN args :
               /\ ArgsValue(args)[args[i].name] = SentValue(args[i].value)
               /\ args[i].value.type = "number" => ~SentValue(args[i].value).minusZero
        /\ Len(rest) + 2 <= MaxLineChars =>
               /\ ParseArgs(d, Rewritten(args)) = {args}
               /\ ParseArgs(d, <<9>> \o rest \o <<32>>) = {args}
        /\ \A i \in 1..Len(d.args) :
               IF i <= Len(args) THEN args[i].name = d.args[i].name ELSE ~d.args[i].required

\* What is shown of a result is a result itself, shown the same way, and no
\* zero has a sign.  (0.0 and 0 are both shown as they came.)
ResultSettles(d, text) ==
    \A shown \in ValidateResult(d, text) :
        /\ ValidateResult(d, shown) = {shown}
        /\ Negative(shown) => ~(ToSet(Tail(shown)) \subseteq {48, Dot})
=============================================================================
