----------------------------- MODULE HACluster -----------------------------
(***************************************************************************)
(* A cluster of Zabbix servers: the HA managers of HAManager, each with    *)
(* the main process of its server (src/zabbix_server/server.c), which      *)
(* starts and stops the server processes, watches the manager's heartbeat  *)
(* and kills and restarts the manager.                                     *)
(***************************************************************************)
EXTENDS HAManager

VARIABLES
  main,   \* [Servers -> state of the main process]
  rtc     \* [Servers -> messages from the manager, not yet received by main]

clusterVars == <<vars, main, rtc>>

Message == [code : {"heartbeat"}]
             \union [code : {"status"}, status : Statuses, delay : Nat]

(* off -> getstatus -> [startup ->] loop -> exit -> wait -> stop [-> sync] -> off *)
MainPhases == {"off", "getstatus", "startup", "loop", "exit", "wait", "stop", "sync"}

Main == [pc : MainPhases, ha_status : Statuses, ha_status_old : Statuses,
         ha_failover_delay : Nat, last_hb : Nat,
         children : BOOLEAN,   \* the server processes run
         polled : BOOLEAN,     \* the loop turned since the last Tick
         command : Nat]        \* when it sent a command to the manager, or 0

OffMain == [pc |-> "off", ha_status |-> "unknown", ha_status_old |-> "unknown",
            ha_failover_delay |-> DefaultDelay, last_hb |-> 0,
            children |-> FALSE, polled |-> FALSE, command |-> 0]

ServiceTimeout == 2 * PollPeriod   \* ZBX_HA_SERVICE_TIMEOUT

ClusterInit ==
  /\ Init
  /\ main = [s \in Servers |-> OffMain]
  /\ rtc = [s \in Servers |-> <<>>]

SetMain(s, m) == main' = [main EXCEPT ![s] = m]

---------------------------------------------------------------------------
(* Steps of the managers, with the messages they send. *)

(* Equal heartbeats in a row tell the main process no more than one. *)
Send(q, msg) ==
  IF q # <<>> /\ msg.code = "heartbeat" /\ q[Len(q)] = msg THEN q ELSE Append(q, msg)

Heartbeat == [code |-> "heartbeat"]
StatusUpdate(i) ==
  [code |-> "status", status |-> i.ha_status, delay |-> i.failover_delay]

(* the end of a tick of the manager loop, in the step being taken *)
TickEnds(s) ==
  /\ info[s].pc \in {"loop", "create", "register"}
  /\ info[s].tick /\ ~info'[s].tick
  /\ info'[s].pc # "off"

(* MUTANT: only an error is reported to the main process. *)
StatusFailed(s) ==
  info'[s].ha_status # info[s].ha_status /\ info'[s].ha_status = "error"

StatusChanged(s) ==
  info'[s].ha_status # info[s].ha_status /\ info'[s].ha_status # "unknown"

(* MUTANT: heartbeats without regard to the database. *)
HeartbeatAlways(s) == info'[s].ha_status # "error"

HeartbeatDue(s) ==
  /\ info'[s].ha_status # "error"
  /\ info'[s].db_status = "ok" \/ info'[s].ha_status # "active"

Sent(s) ==
  LET updated == IF StatusChanged(s) THEN Send(rtc[s], StatusUpdate(info'[s])) ELSE rtc[s]
  IN  IF ~TickEnds(s) THEN rtc[s]
      ELSE IF HeartbeatDue(s) THEN Send(updated, Heartbeat) ELSE updated

Manager(s) ==
  /\ ManagerStep(s)
  /\ rtc' = [rtc EXCEPT ![s] = Sent(s)]
  /\ UNCHANGED main

---------------------------------------------------------------------------
(* Start of the server, runtime commands and the main loop. *)

(* the manager answers a request of the main process *)
Answers(s) == Receives(s) \/ info[s].pc = "paused"

(***************************************************************************)
(* zbx_ha_get_status: the status and delay main has after it.  A request   *)
(* the manager does not answer in time leaves a forced status.             *)
(***************************************************************************)
GetStatus(s) ==
  (IF Answers(s) THEN {[main[s] EXCEPT !.ha_status = info[s].ha_status,
                                        !.ha_failover_delay = info[s].failover_delay]}
                 ELSE {})
  \union
  (IF "timeout" \in Events
     THEN {[main[s] EXCEPT !.ha_status = IF IsCluster(s) THEN "standby" ELSE "active"]}
     ELSE {})

MainStart(s) ==
  /\ main[s].pc = "off"
  /\ StartServer(s)
  /\ SetMain(s, [OffMain EXCEPT !.pc = "getstatus"])
  /\ rtc' = [rtc EXCEPT ![s] = <<>>]

(* MAIN_ZABBIX_ENTRY between zbx_ha_start and its loop *)
MainGetStatus(s) ==
  /\ main[s].pc = "getstatus"
  /\ \E m \in GetStatus(s) :
       SetMain(s, CASE m.ha_status = "error" -> [m EXCEPT !.pc = "exit"]
                    [] m.ha_status = "active" -> [m EXCEPT !.pc = "startup", !.children = TRUE,
                                                           !.ha_status_old = "active"]
                    [] OTHER -> [m EXCEPT !.pc = "loop", !.ha_status_old = m.ha_status])
  /\ UNCHANGED <<vars, rtc>>

(* server_teardown: all children and the manager are killed, the manager   *)
(* is started again and its old messages are dropped                       *)
Teardown(s, m) ==
  /\ RestartManager(s)
  /\ rtc' = [rtc EXCEPT ![s] = <<>>]
  /\ SetMain(s, [m EXCEPT !.pc = "loop", !.children = FALSE, !.polled = TRUE])

(* the end of server_startup and what its callers do next *)
MainStarted(s) ==
  /\ main[s].pc = "startup"
  /\ \E m \in GetStatus(s) :
       \/ /\ m.ha_status = "error"
          /\ SetMain(s, [m EXCEPT !.pc = "exit"])
          /\ UNCHANGED <<vars, rtc>>
       \/ /\ m.ha_status = "active"
          /\ SetMain(s, [m EXCEPT !.pc = "loop", !.last_hb = now, !.polled = FALSE])
          /\ UNCHANGED <<vars, rtc>>
       \/ /\ m.ha_status \in {"standby", "unknown"}
          /\ Teardown(s, [m EXCEPT !.ha_status_old = m.ha_status])

(* zbx_ha_dispatch_message for the message at the head of the queue, or    *)
(* for none when zbx_ipc_service_recv timed out                            *)
Received(s) ==
  LET m == main[s]
  IN  IF rtc[s] = <<>> THEN m
      ELSE IF Head(rtc[s]).code = "heartbeat" THEN [m EXCEPT !.last_hb = now]
      ELSE [m EXCEPT !.ha_status = Head(rtc[s]).status,
                     !.ha_failover_delay = Head(rtc[s]).delay,
                     !.last_hb = IF Head(rtc[s]).status \notin {m.ha_status, "error"}
                                   THEN now ELSE @]

(* MUTANT: the heartbeats are not watched. *)
TimedOutNever(s, m) == FALSE

TimedOut(s, m) ==
  /\ IsCluster(s)
  /\ m.last_hb # 0
  /\ m.last_hb + m.ha_failover_delay - PollPeriod <= now

Dispatched(s) ==
  LET m == Received(s)
  IN  IF m.ha_status # "error" /\ TimedOut(s, m)
        THEN [m EXCEPT !.last_hb = 0,
                       !.ha_status = IF @ = "active" THEN "standby" ELSE "hatimeout"]
        ELSE m

(* zbx_ipc_async_exchange: the main process waits for the manager's reply *)
Waits(s) ==
  /\ info[s].pc = "remove" /\ main[s].command # 0
  /\ now < main[s].command + ServiceTimeout

(* One turn of the main loop; it waits a second for a message. *)
MainLoop(s) ==
  /\ main[s].pc = "loop"
  /\ rtc[s] = <<>> => ~main[s].polled
  /\ ~Waits(s)
  /\ LET m == [Dispatched(s) EXCEPT !.polled = TRUE, !.command = 0]
         received == IF rtc[s] = <<>> THEN rtc ELSE [rtc EXCEPT ![s] = Tail(@)]
     IN  \/ /\ m.ha_status = "error"
            /\ SetMain(s, [m EXCEPT !.pc = "exit"])
            /\ rtc' = received
            /\ UNCHANGED vars
         \/ (* server_restart_ha *)
            /\ m.ha_status = "hatimeout"
            /\ RestartManager(s)
            /\ rtc' = [rtc EXCEPT ![s] = <<>>]
            /\ SetMain(s, [m EXCEPT !.ha_status = "standby", !.polled = TRUE])
         \/ /\ m.ha_status \notin {"error", "hatimeout"}
            /\ m.ha_status = "unknown" \/ m.ha_status = m.ha_status_old
            /\ SetMain(s, m)
            /\ rtc' = received
            /\ UNCHANGED vars
         \/ /\ m.ha_status = "active" /\ m.ha_status_old # "active"
            /\ SetMain(s, [m EXCEPT !.pc = "startup", !.ha_status_old = "active",
                                    !.children = TRUE])
            /\ rtc' = received
            /\ UNCHANGED vars
         \/ /\ m.ha_status = "standby" /\ m.ha_status_old # "standby"
            /\ Teardown(s, [m EXCEPT !.ha_status_old = "standby"])

(* ha_set_failover_delay and ha_remove_node reach an active server only *)
MainSetFailoverDelay(s) ==
  /\ main[s].pc = "loop" /\ main[s].ha_status = "active"
  /\ \E d \in Delays \ {settings}, o \in Outcomes : SetFailoverDelay(s, d, o)
  /\ rtc' = [rtc EXCEPT ![s] = Send(@, StatusUpdate(info'[s]))]
  /\ UNCHANGED main

MainRemoveNode(s) ==
  /\ main[s].pc = "loop" /\ main[s].ha_status = "active"
  /\ \E n \in Names, o \in Outcomes : RemoveNodeCheck(s, n, o)
  /\ SetMain(s, [main[s] EXCEPT !.command = now])
  /\ UNCHANGED rtc

---------------------------------------------------------------------------
(* Exit. *)

MainSignal(s) ==
  /\ main[s].pc = "loop"
  /\ ~Waits(s)
  /\ SetMain(s, [main[s] EXCEPT !.pc = "exit", !.command = 0])
  /\ UNCHANGED <<vars, rtc>>

(* zbx_ha_pause; the exit goes on when the manager does not answer *)
MainPause(s) ==
  /\ main[s].pc = "exit"
  /\ SetMain(s, [main[s] EXCEPT !.pc = "wait"])
  /\ \/ Pause(s)
     \/ info[s].pc \in {"paused", "off"} /\ UNCHANGED vars
     \/ "noreply" \in Events /\ UNCHANGED vars
  /\ UNCHANGED rtc

(* zbx_on_exit: the children have exited, zbx_ha_stop or zbx_ha_kill *)
MainStop(s) ==
  /\ main[s].pc = "wait"
  /\ SetMain(s, [main[s] EXCEPT !.pc = "stop", !.children = FALSE])
  /\ \/ \E o \in Outcomes : Stop(s, o)
     \/ info[s].pc = "off" /\ UNCHANGED vars
     \/ "noreply" \in Events /\ KillManager(s)
  /\ UNCHANGED rtc

(* the caches are written to the database once the manager has exited *)
MainSync(s) ==
  /\ main[s].pc = "stop" /\ info[s].pc = "off"
  /\ SetMain(s, IF main[s].ha_status = "active" THEN [main[s] EXCEPT !.pc = "sync"]
                                                ELSE OffMain)
  /\ UNCHANGED <<vars, rtc>>

MainExited(s) ==
  /\ main[s].pc = "sync"
  /\ SetMain(s, OffMain)
  /\ UNCHANGED <<vars, rtc>>

(* The manager process dies, or the whole server does. *)
ManagerCrash(s) ==
  /\ main[s].pc \in {"startup", "loop"}
  /\ KillManager(s)
  /\ UNCHANGED <<main, rtc>>

ServerCrash(s) ==
  /\ main[s].pc # "off"
  /\ SetMain(s, OffMain)
  /\ rtc' = [rtc EXCEPT ![s] = <<>>]
  /\ KillManager(s) \/ (info[s].pc = "off" /\ UNCHANGED vars)

---------------------------------------------------------------------------

(***************************************************************************)
(* A main process in its loop receives messages at once and turns at least *)
(* every second; whether it may wait longer to learn the first status, or  *)
(* to start its children, is up to Events.                                 *)
(***************************************************************************)
MainInTime(s) ==
  /\ main[s].pc = "loop" => (main[s].polled /\ rtc[s] = <<>>) \/ Waits(s)
  /\ \/ main[s].pc = "startup"
     \/ main[s].pc = "getstatus" /\ info[s].pc = "loop"
     => "startup" \in Events

(* A manager is late only where it waits for the database. *)
ManagerInTime(s) ==
  \/ info[s].pc = "off"
  \/ info[s].pc \in {"loop", "paused"} /\ ~info[s].tick
  \/ "hang" \in Events /\ ~(info[s].pc \in {"loop", "paused"} /\ info[s].nextcheck > 1)

ClusterTick ==
  /\ \A s \in Servers : MainInTime(s) /\ ManagerInTime(s)
  /\ Tick
  /\ main' = [s \in Servers |-> [main[s] EXCEPT !.polled = FALSE]]
  /\ UNCHANGED rtc

MainStep(s) ==
  \/ MainStart(s) \/ MainGetStatus(s) \/ MainStarted(s) \/ MainLoop(s)
  \/ MainPause(s) \/ MainStop(s) \/ MainSync(s) \/ MainExited(s)

Interference(s) ==
  \/ "exit" \in Events /\ MainSignal(s)
  \/ "kill" \in Events /\ ManagerCrash(s)
  \/ "crash" \in Events /\ ServerCrash(s)
  \/ "remove" \in Events /\ MainRemoveNode(s)
  \/ "delay" \in Events /\ MainSetFailoverDelay(s)

ClusterNext ==
  \/ \E s \in Servers : Manager(s) \/ MainStep(s) \/ Interference(s)
  \/ ClusterTick

ClusterSpec == ClusterInit /\ [][ClusterNext]_clusterVars

---------------------------------------------------------------------------
(* Properties. *)

ClusterTypeOK ==
  /\ TypeOK
  /\ main \in [Servers -> Main]
  /\ rtc \in [Servers -> Seq(Message)]

(* server processes run, and the heartbeat of the manager is watched *)
Serving(s) == main[s].pc = "loop" /\ main[s].children

(***************************************************************************)
(* Two nodes never serve at a time: the one that lost the database stops   *)
(* its server processes (zbx_ha_dispatch_message, server_teardown) before  *)
(* another one takes over.                                                 *)
(***************************************************************************)
NoSplitBrain ==
  \A s, t \in Servers :
    IsCluster(s) /\ IsCluster(t) /\ Serving(s) /\ Serving(t) => s = t

(***************************************************************************)
(* What the watchdog of the main process is for: a node that serves has    *)
(* refreshed its row within the failover delay, so no node that registers  *)
(* or polls may consider it unavailable.                                   *)
(***************************************************************************)
ServingLease ==
  \A s \in Servers :
    IsCluster(s) /\ Serving(s) /\ main[s].polled =>
      now < ha_node[NameOf[s]].lastaccess + main[s].ha_failover_delay

(***************************************************************************)
(* Main and manager agree on the status of the node once all messages are  *)
(* received, so a node the registry calls active does run its processes.   *)
(***************************************************************************)
StatusAgreement ==
  \A s \in Servers :
    main[s].pc = "loop" /\ info[s].pc = "loop" /\ rtc[s] = <<>>
      => main[s].ha_status = info[s].ha_status

(***************************************************************************)
(* When the active server dies, a standby that stays up has taken over     *)
(* within a bounded time: its own first check, one period per counted      *)
(* tick, and the delay in which a registration still finds the dead row.   *)
(***************************************************************************)
FailoverDeadline ==
  \A s \in Servers, n \in Names :
    /\ info[s].pc = "loop" /\ info[s].ha_status = "standby" /\ ~info[s].tick
    /\ ha_node[n].status = "active"
    => now <= ha_node[n].lastaccess + settings + 3 * PollPeriod
                + (settings \div PollPeriod + 1) * PollPeriod

(***************************************************************************)
(* A server that exits keeps its row alive until its children have ended   *)
(* (zbx_ha_pause): until then no other node serves.                        *)
(***************************************************************************)
NoOverlapOnExit ==
  \A s, t \in Servers :
    main[s].pc \in {"exit", "wait"} /\ main[s].children /\ Serving(t) => s = t
=============================================================================
