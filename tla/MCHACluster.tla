---------------------------- MODULE MCHACluster ----------------------------
(* Small instances of HACluster. *)
EXTENDS HACluster, TLC

CONSTANTS s1, s2, n1, n2, standalone

TwoNodes == s1 :> n1 @@ s2 :> n2
SameName == s1 :> n1 @@ s2 :> n1

(* two nodes are alike; a server is exchanged together with its name *)
Swap == {s1 :> s2 @@ s2 :> s1 @@ n1 :> n2 @@ n2 :> n1}
=============================================================================
