--------------------------------- MODULE Curp ---------------------------------
(***************************************************************************)
(* The CURP of the page's Web Worker, computed and validated in WASM:      *)
(* packages/satellite-capabilities-wasm/src/lib.rs.                        *)
(*                                                                         *)
(* A character typed by a person is a record: its base letter (or another  *)
(* symbol), its mark, and whether it is upper case.  A name is a sequence  *)
(* of words.  What the code builds is a sequence of plain characters.      *)
(***************************************************************************)
EXTENDS Integers, SequencesExt

CONSTANTS
    Catalogue,      \* ENTRIES of entidad_code: pairs <<name, code>>
    Inconvenient    \* INCONVENIENT: the starts of four letters to avoid

Alphabet ==
    <<"0", "1", "2", "3", "4", "5", "6", "7", "8", "9", "A", "B", "C", "D", "E", "F", "G",
      "H", "I", "J", "K", "L", "M", "N", "&", "O", "P", "Q", "R", "S", "T", "U", "V", "W",
      "X", "Y", "Z">>

Digits == {Alphabet[i] : i \in 1..10}
Letters == {Alphabet[i] : i \in 11..37} \ {"&"}
CenturyLetters == {Alphabet[i] : i \in 11..20}

\* A code has two letters.
ASSUME CatalogueAssumption == \A e \in Catalogue : e[2] \in Seq(Letters) /\ Len(e[2]) = 2

\* What a person types.
Character ==
    [letter : STRING, mark : {"none", "acute", "diaeresis", "tilde"}, upper : BOOLEAN]

Vowels == {"A", "E", "I", "O", "U"}

Connectors ==
    {<<"D", "E">>, <<"D", "E", "L">>, <<"L", "A">>, <<"L", "A", "S">>, <<"L", "O", "S">>,
     <<"Y">>, <<"M", "C">>, <<"V", "A", "N">>, <<"V", "O", "N">>}

\* A sequence without some of its elements.
Without(seq, dropped) ==
    LET kept[n \in 0..Len(seq)] ==
            IF n = 0 THEN <<>>
            ELSE IF seq[n] \in dropped THEN kept[n - 1] ELSE Append(kept[n - 1], seq[n])
    IN kept[Len(seq)]

\* The first of a sequence that is not skipped.
First(seq, skipped, default) ==
    LET rest == Without(seq, skipped)
    IN IF rest = <<>> THEN default ELSE Head(rest)

-----------------------------------------------------------------------------
(* Names.                                                                  *)

\* strip_diacritics and the replacement of the enye, on one character: what
\* is left of it, "" when the filter drops it.  Only the capital enye is
\* replaced: to_ascii_uppercase leaves the small one as it is.
Normal(ch) ==
    CASE ch.mark = "none" /\ ch.letter \in Letters -> ch.letter
      [] ch.mark = "acute" /\ ch.letter \in Vowels -> ch.letter
      [] ch.mark = "diaeresis" /\ ch.letter = "U" -> ch.letter
      [] ch.mark = "tilde" /\ ch.letter = "N" /\ ch.upper -> "X"
      [] OTHER -> ""

NormalWords(name) ==
    Without([i \in DOMAIN name |-> Without([j \in DOMAIN name[i] |-> Normal(name[i][j])], {""})],
            {<<>>})

\* The first word that is no connector, else the first, else none.
SignificantWord(words) ==
    First(words, Connectors, IF words = <<>> THEN <<>> ELSE words[1])

InternalVowel(word) == First(Tail(word), Letters \ Vowels, "X")

InternalConsonant(word) == First(Tail(word), Vowels, "X")

-----------------------------------------------------------------------------
(* Dates, entities and the last two positions.                             *)

IsRealDate(year, month, day) ==
    LET leap == year % 4 = 0 /\ (year % 100 # 0 \/ year % 400 = 0)
        days == <<31, IF leap THEN 29 ELSE 28, 31, 30, 31, 30, 31, 31, 30, 31, 30, 31>>
    IN year >= 1 /\ month \in 1..12 /\ day \in 1..days[month]

\* The two-letter code of an entity, given as a code or as a name.
EntidadCode(value) ==
    LET byCode == {e[2] : e \in {x \in Catalogue : x[2] = value}}
        byName == {e[2] : e \in {x \in Catalogue : x[1] = value}}
    IN IF Len(value) = 2 /\ byCode # {} THEN byCode ELSE byName

ChecksumValue(ch) == (CHOOSE i \in DOMAIN Alphabet : Alphabet[i] = ch) - 1

CheckDigit(curp17) ==
    LET sum == SumFunction([i \in 1..17 |-> ChecksumValue(curp17[i]) * (19 - i)])
    IN Alphabet[1 + ((10 - (sum % 10)) % 10)]

\* Mutant: any century.
DifferentiatorOfAnyCentury(ch, year) == ch \in Digits \union CenturyLetters

ValidDifferentiator(ch, year) ==
    ch \in IF year < 2000 THEN Digits ELSE CenturyLetters

TwoDigits(n) == <<Alphabet[1 + (n \div 10)], Alphabet[1 + (n % 10)]>>

-----------------------------------------------------------------------------
NoCurp == [ok |-> FALSE, curp |-> <<>>]

\* The differentiator "" asks for the first of the century.
ComputeCurp(p) ==
    LET nombre == SignificantWord(NormalWords(p.nombre))
        paterno == SignificantWord(NormalWords(p.paterno))
        materno == SignificantWord(NormalWords(p.materno))
        entity == EntidadCode(p.entidad)
        differentiator ==
            IF p.differentiator # "" THEN p.differentiator
            ELSE IF p.year < 2000 THEN "0" ELSE "A"
        four == <<paterno[1], InternalVowel(paterno),
                  IF materno = <<>> THEN "X" ELSE materno[1], nombre[1]>>
        curp17 ==
            (IF four \in Inconvenient THEN [four EXCEPT ![2] = "X"] ELSE four)
            \o TwoDigits(p.year % 100) \o TwoDigits(p.month) \o TwoDigits(p.day)
            \o <<p.sexo>> \o (CHOOSE code \in entity : TRUE)
            \o <<InternalConsonant(paterno),
                 IF materno = <<>> THEN "X" ELSE InternalConsonant(materno),
                 InternalConsonant(nombre), differentiator>>
    IN IF /\ paterno # <<>> /\ nombre # <<>>
          /\ IsRealDate(p.year, p.month, p.day)
          /\ p.sexo \in {"H", "M"}
          /\ entity # {}
          /\ ValidDifferentiator(differentiator, p.year)
       THEN [ok |-> TRUE, curp |-> Append(curp17, CheckDigit(curp17))]
       ELSE NoCurp

ValidShape(curp) ==
    /\ Len(curp) = 18
    /\ \A i \in 1..18 :
           curp[i] \in CASE i \in 5..10 \union {18} -> Digits
                         [] i = 11 -> {"H", "M"}
                         [] i = 17 -> Digits \union CenturyLetters
                         [] OTHER -> Letters

NumberAt(curp, i) == 10 * ChecksumValue(curp[i]) + ChecksumValue(curp[i + 1])

\* The century is read from position 17.
YearOf(curp) == (IF curp[17] \in Digits THEN 1900 ELSE 2000) + NumberAt(curp, 5)

\* validate_curp_encoded.
ValidCurp(curp) ==
    /\ ValidShape(curp)
    /\ IsRealDate(YearOf(curp), NumberAt(curp, 7), NumberAt(curp, 9))
    /\ EntidadCode(SubSeq(curp, 12, 13)) # {}
    /\ CheckDigit(SubSeq(curp, 1, 17)) = curp[18]

-----------------------------------------------------------------------------
ValidFor(curp, year, month, day) ==
    /\ ValidCurp(curp)
    /\ YearOf(curp) = year /\ NumberAt(curp, 7) = month /\ NumberAt(curp, 9) = day

\* A CURP the worker computes for a person born in the centuries that
\* position 17 tells apart is one the worker accepts, and it reads the date the
\* person was born on (compute_curp against validate_curp_encoded).
RoundTrips(p) ==
    p.year \in 1900..2099 /\ ComputeCurp(p).ok =>
        ValidFor(ComputeCurp(p).curp, p.year, p.month, p.day)
=============================================================================
