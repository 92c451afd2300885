----------------------------- MODULE MCMobileNode -----------------------------
(* Instance of MobileNode for TLC: each of two Navigators offers and         *)
(* assigns a mission; an assignment of the mission of n1 in the name of n2  *)
(* does not verify.  The book remembers one mission, so that either evicts  *)
(* the other.                                                               *)
EXTENDS MobileNode, TLC

CONSTANTS n1, n2, m1, m2, s1, s2

MCMissions == {m1, m2}
MCNavigators == {n1, n2}
MCStreams == {s1, s2}
OfferOf(n, m, d) ==
    [kind |-> "offer", nav |-> n, mission |-> m, deadline |-> d, ours |-> m = m1]
AssignOf(n, m) == [kind |-> "assign", nav |-> n, mission |-> m, mine |-> TRUE]
MCSigned ==
    {[kind |-> "advert", nav |-> n, since |-> 0, until |-> IF n = n1 THEN 1 ELSE 0]
        : n \in MCNavigators}
    \union {OfferOf(n1, m1, 0), OfferOf(n2, m2, 0)}
    \union {AssignOf(n1, m1), AssignOf(n2, m2)}
MCGossip == MCSigned \union {AssignOf(n2, m1)}
\* The streams are interchangeable, and no property of the run is liveness.
MCSymmetry == Permutations(MCStreams)
=============================================================================
