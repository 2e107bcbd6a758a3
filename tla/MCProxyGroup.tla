---------------------------- MODULE MCProxyGroup ----------------------------
(***************************************************************************)
(* Instances of ProxyGroup for TLC: two proxies that may be in the same    *)
(* group, so that one takes over from the other, or in different groups,   *)
(* so that a host can move between groups that are online.                 *)
(***************************************************************************)
EXTENDS ProxyGroup, TLC

CONSTANTS g1, g2, a, b, h1, h2

\* b joins the group of a, leaves it for another or for none, and returns
ProxyPair == (a :> g1) @@ (b :> Standalone)
NoMoves == {}
OnA == [h \in Host |-> a]
MovesPair == {<<Standalone, g1>>, <<g1, Standalone>>, <<g1, g2>>, <<g1, Gone>>}
HostsIn == [h \in Host |-> g1]

HostSymmetry == Permutations(Host)
=============================================================================
