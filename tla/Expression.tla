------------------------------ MODULE Expression ------------------------------
(***************************************************************************)
(* The arithmetic of the Web Worker: tokenize, Parser and solve_expression *)
(* of packages/satellite-capabilities-wasm/src/lib.rs.                     *)
(*                                                                         *)
(* An expression is a sequence of characters.  What a value is, and which  *)
(* are zero or not finite, is left to the instance.                        *)
(***************************************************************************)
EXTENDS Integers, SequencesExt

CONSTANTS
    Parsed(_),        \* the value of a literal: raw.parse::<f64>()
    Apply(_, _, _),   \* the f64 operation + - * / ^
    Negate(_),
    IsZero(_),
    IsFinite(_)

Failure == [ok |-> FALSE]
Success(value) == [ok |-> TRUE, value |-> value]

Whitespace == {" ", "\t", "\n"}
DigitChars == {"0", "1", "2", "3", "4", "5", "6", "7", "8", "9"}
Operators == {"+", "-", "*", "/", "^", "(", ")"}

Token(type, raw) == [type |-> type, raw |-> raw]

\* The longest run of digits and dots from i is one literal.  A literal holds
\* at most one dot, a dot alone is no number, and its value is finite.
RECURSIVE Tokenize(_, _)
Tokenize(expr, i) ==
    LET end == CHOOSE j \in i..Len(expr) :
                   /\ \A k \in i..j : expr[k] \in DigitChars \union {"."}
                   /\ j = Len(expr) \/ expr[j + 1] \notin DigitChars \union {"."}
        raw == SubSeq(expr, i, end)
        Then(token, j) ==
            LET rest == Tokenize(expr, j)
            IN IF rest.ok THEN Success(<<token>> \o rest.value) ELSE Failure
    IN IF i > Len(expr) THEN Success(<<>>)
       ELSE IF expr[i] \in Whitespace THEN Tokenize(expr, i + 1)
       ELSE IF expr[i] \in Operators THEN Then(Token(expr[i], <<>>), i + 1)
       ELSE IF expr[i] \notin DigitChars \union {"."} THEN Failure
       ELSE IF Len(SelectSeq(raw, LAMBDA c : c = ".")) > 1 \/ raw = <<".">> THEN Failure
       ELSE IF ~IsFinite(Parsed(raw)) THEN Failure
       ELSE Then(Token("num", raw), end + 1)

-----------------------------------------------------------------------------
(* Each method of Parser takes the position it starts from and returns its *)
(* value and the position it leaves.                                       *)

At(tokens, pos) == IF pos <= Len(tokens) THEN tokens[pos].type ELSE "end"
Reached(value, pos) == [ok |-> TRUE, value |-> value, pos |-> pos]

RECURSIVE Unary(_, _), Term(_, _), Sum(_, _)

Atom(tokens, pos) ==
    IF At(tokens, pos) = "num" THEN Reached(Parsed(tokens[pos].raw), pos + 1)
    ELSE IF At(tokens, pos) # "(" THEN Failure
    ELSE LET inner == Sum(tokens, pos + 1)
         IN IF inner.ok /\ At(tokens, inner.pos) = ")"
            THEN Reached(inner.value, inner.pos + 1) ELSE Failure

\* Mutant: an exponent is an atom.
PowerOfAtoms(tokens, pos) ==
    LET base == Atom(tokens, pos)
    IN IF base.ok /\ At(tokens, base.pos) = "^"
       THEN LET exponent == Atom(tokens, base.pos + 1)
            IN IF exponent.ok
               THEN Reached(Apply("^", base.value, exponent.value), exponent.pos) ELSE Failure
       ELSE base

Power(tokens, pos) ==
    LET base == Atom(tokens, pos)
    IN IF base.ok /\ At(tokens, base.pos) = "^"
       THEN LET exponent == Unary(tokens, base.pos + 1)
            IN IF exponent.ok
               THEN Reached(Apply("^", base.value, exponent.value), exponent.pos) ELSE Failure
       ELSE base

Unary(tokens, pos) ==
    IF At(tokens, pos) = "-"
    THEN LET operand == Unary(tokens, pos + 1)
         IN IF operand.ok THEN Reached(Negate(operand.value), operand.pos) ELSE Failure
    ELSE Power(tokens, pos)

\* The loops of term and expression: while an operator of the level follows,
\* apply it to what is read so far and the next operand.
RECURSIVE Chain(_, _, _)
Chain(tokens, left, operators) ==
    IF ~left.ok \/ At(tokens, left.pos) \notin operators THEN left
    ELSE LET op == At(tokens, left.pos)
             right == IF op \in {"*", "/"} THEN Unary(tokens, left.pos + 1)
                                           ELSE Term(tokens, left.pos + 1)
         IN IF ~right.ok \/ (op = "/" /\ IsZero(right.value)) THEN Failure
            ELSE Chain(tokens, Reached(Apply(op, left.value, right.value), right.pos), operators)

Term(tokens, pos) == Chain(tokens, Unary(tokens, pos), {"*", "/"})

Sum(tokens, pos) == Chain(tokens, Term(tokens, pos), {"+", "-"})

\* Parser::parse: an expression and nothing after it.
Parse(tokens) ==
    LET result == Sum(tokens, 1)
    IN IF tokens # <<>> /\ result.ok /\ result.pos > Len(tokens)
       THEN Success(result.value) ELSE Failure

\* solve_expression.
Solve(expr) ==
    LET tokens == Tokenize(expr, 1)
        value == Parse(tokens.value)
    IN IF tokens.ok /\ value.ok /\ IsFinite(value.value) THEN value ELSE Failure
=============================================================================
