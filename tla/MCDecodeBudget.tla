--------------------------- MODULE MCDecodeBudget ---------------------------
(* Instance of DecodeBudget for TLC: three streams, a budget that one of   *)
(* the longest frames fills, room for one waiter.                          *)
EXTENDS DecodeBudget

CONSTANTS s1, s2, s3

MCStreams == {s1, s2, s3}
MCLens == {0, 3, 4}
=============================================================================
