--------------------------- MODULE MCProxyBuffer ---------------------------
(* Small instances of ProxyBuffer. *)
EXTENDS ProxyBuffer, TLC

CONSTANTS w1, w2

(* a hybrid proxy with one syncer: more of them reorder rows, see the README *)
MCSyncers == "hybrid" :> {w1} @@ "disk" :> {w1, w2} @@ "memory" :> {w1}
TwoSyncers == [mode \in Modes |-> Writers]

(* the data of a hybrid proxy that is stopped or whose transaction fails may *)
(* be lost, see the README                                                   *)
MCEvents ==
  "hybrid" :> {"age", "crash", "noreply", "offline", "slow"} @@
  "disk"   :> {"crash", "dbfail", "exit", "noreply", "nosend"} @@
  "memory" :> {"crash", "dbfail", "exit", "noreply", "nosend", "offline"}
NoEvents == [mode \in Modes |-> {}]
OnlyAge == [mode \in Modes |-> {"age"}]
OnlyExit == [mode \in Modes |-> {"exit"}]
=============================================================================
