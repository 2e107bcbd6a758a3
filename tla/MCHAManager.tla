---------------------------- MODULE MCHAManager ----------------------------
(* Small instances of HAManager. *)
EXTENDS HAManager, TLC

CONSTANTS s1, s2, n1, n2, standalone

TwoNodes == s1 :> n1 @@ s2 :> n2
SameName == s1 :> n1 @@ s2 :> n1
MixedMode == s1 :> n1 @@ s2 :> standalone
=============================================================================
