---------------------------- MODULE MCSupervisor ----------------------------
(* A server with one process or unit of every kind: the configuration       *)
(* syncer, the CEP manager, the service manager, the task manager, two      *)
(* history syncers, the preprocessing manager, a poller (collector) and the *)
(* connector manager (worker).                                              *)
EXTENDS Supervisor

MCLevel ==
    [p \in Proc |-> CASE p = "supervisor" -> 0
                      [] p = "confsyncer" -> 1
                      [] p = "cep" -> 2
                      [] p \in {"serviceman", "taskmanager"} -> 3
                      [] p \in Syncer -> 4
                      [] OTHER -> 5]
MCReporter == Proc \ {"poller", "connector"}
=============================================================================
