------------------------- MODULE MCProviderStreams -------------------------
(* Instance of ProviderStreams for TLC: three streams, two served at a     *)
(* time and one of a Navigator.  Two of them come from one Navigator, and  *)
(* the limit per peer turns one away, or each from its own, and the limit  *)
(* of the node does.  One answer has up to two deltas, so that it can have *)
(* a hole; the others are as short as they can be.                         *)
EXTENDS ProviderStreams, TLC

CONSTANTS a, b, c, p, q, r

MCStreams == {a, b, c}
MCPeers == {p, q, r}
MCPeerMaps == {a :> p @@ b :> p @@ c :> q, a :> p @@ b :> q @@ c :> r}
MCForeign == {c}
MCMaxDeltas == a :> 2 @@ b :> 0 @@ c :> 0
=============================================================================
