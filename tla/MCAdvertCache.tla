---------------------------- MODULE MCAdvertCache ----------------------------
(* Instance of AdvertCache for TLC.  A unit of time is 15 s, which divides  *)
(* every time of the code: interval 30 s, TTL 60 s, grace 30 s, skew and    *)
(* longest TTL 120 s.                                                       *)
EXTENDS AdvertCache

MCOffsets == {-1, 0, 1}
=============================================================================
