------------------------- MODULE MCIterativeLookup -------------------------
(* Two routers, and two searches for the same key, as when a router and a  *)
(* destination are looked up at it: the searches meet in the engine's table. *)
EXTENDS IterativeLookup

CONSTANTS p1, p2, s1, s2, k1

MCPeer == {p1, p2}
MCSearch == {s1, s2}
MCKey == {k1}
MCKeyOf == [s \in MCSearch |-> k1]
MCDistance == [k \in MCKey |-> [p \in MCPeer |-> IF p = p1 THEN 1 ELSE 2]]
=============================================================================
