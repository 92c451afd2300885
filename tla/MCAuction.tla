----------------------------- MODULE MCAuction -----------------------------
(* Instance of Auction for TLC: two cycles that share a mission id, three  *)
(* providers.  p1 is preferred by the first cycle and lacks one of the     *)
(* required capabilities; p2 and p3 cover them, p3 with a better rank but  *)
(* no addresses, like a browser.                                           *)
EXTENDS Auction

CONSTANTS c1, c2, m1, p1, p2, p3

MCCycles == {c1, c2}
MCMissions == {m1}
MCMissionOf == [c \in MCCycles |-> m1]
MCProviders == {p1, p2, p3}
MCBidsOn == [c \in MCCycles |-> IF c = c1 THEN {p1, p3} ELSE {p2, p3}]
MCTerms ==
    p1 :> [offered |-> {"tool"}, trust |-> 4, reputation |-> 9, latency |-> 1, addrs |-> TRUE]
 @@ p2 :> [offered |-> {"tool", "ipfs"}, trust |-> 2, reputation |-> 5, latency |-> 1, addrs |-> TRUE]
 @@ p3 :> [offered |-> {"tool", "ipfs"}, trust |-> 2, reputation |-> 6, latency |-> 2, addrs |-> FALSE]
MCRequired == [c \in MCCycles |-> IF c = c1 THEN {"tool", "ipfs"} ELSE {"tool"}]
MCPreferred == [c \in MCCycles |-> IF c = c1 THEN p1 ELSE NoProvider]
MCAllowed == [c \in MCCycles |-> IF c = c1 THEN Anyone ELSE {p2, p3}]
=============================================================================
