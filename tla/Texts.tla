-------------------------------- MODULE Texts --------------------------------
(* A text is the sequence of its code points, or of its bytes.              *)
EXTENDS Integers, SequencesExt

Text == Seq(Int)

\* Order of two texts by their bytes.
Precedes(a, b) ==
    \E i \in 1..Len(b) :
        /\ i - 1 <= Len(a)
        /\ \A k \in 1..i - 1 : a[k] = b[k]
        /\ i <= Len(a) => a[i] < b[i]

\* What a sequence may be when its elements come in another order.
Reorderings(seq) ==
    {[i \in DOMAIN seq |-> seq[p[i]]] :
        p \in {q \in [DOMAIN seq -> DOMAIN seq] : IsInjective(q)}}

\* A sequence in the order of the texts that key gives of its elements, each
\* as often as it is in the sequence.
SortedBy(seq, key) ==
    CHOOSE s \in Reorderings(seq) :
        \A i, j \in DOMAIN s : i < j => ~Precedes(key[s[j]], key[s[i]])

Sorted(texts) == SortedBy(texts, [t \in ToSet(texts) |-> t])
=============================================================================
