----------------------------- MODULE HAManager -----------------------------
(***************************************************************************)
(* The HA manager process of Zabbix server and the ha_node registry table  *)
(* through which the managers of a cluster elect the active node           *)
(* (src/zabbix_server/ha/ha_manager.c).                                    *)
(*                                                                         *)
(* Every server runs one manager.  Managers never talk to each other: each *)
(* of them polls the registry inside a transaction that locks all rows     *)
(* (select ... for update), so a transaction is one atomic step here.  A   *)
(* transaction has one of the outcomes of the constant Outcomes; time is   *)
(* the database clock in seconds.  The main process of the server is the   *)
(* environment of this module; HACluster adds it.                          *)
(***************************************************************************)
EXTENDS Integers, Sequences

CONSTANTS
  Servers,      \* server processes
  Names,        \* node names a ha_node row can have
  Standalone,   \* the empty node name: a server without HANodeName
  NameOf,       \* [Servers -> Names], the HANodeName of each server
  PollPeriod,   \* ZBX_HA_POLL_PERIOD
  DefaultDelay, \* ZBX_HA_DEFAULT_FAILOVER_DELAY
  Delays,       \* failover delays an operator may set at run time
  Outcomes,     \* how a database transaction may end, see AllOutcomes
  Events,       \* optional events of the environment, see AllEvents
  MaxTime,      \* bound on the clock
  MaxStart,     \* bound on the time at which a server is started
  MaxIds        \* bound on the number of cuids generated

VARIABLES
  ha_node,      \* the registry: a row for every name, NoRow when absent
  settings,     \* settings.ha_failover_delay
  now,          \* the clock
  nextid,       \* the next cuid (node or session identifier)
  ha_sessionid, \* [Servers -> cuid], chosen once per server process
  info          \* [Servers -> zbx_ha_info_t and the manager loop's locals]

vars == <<ha_node, settings, now, nextid, ha_sessionid, info>>
registry == <<ha_node, settings, nextid>>

(***************************************************************************)
(* How a transaction may end:                                              *)
(*   ok        committed and acknowledged                                  *)
(*   nobegin   connection down before anything was read                    *)
(*   nocommit  connection lost after the reads, nothing was committed      *)
(*   lost      committed, but the acknowledgement was lost                 *)
(*   fail      non recoverable database error, nothing was committed       *)
(***************************************************************************)
AllOutcomes == {"ok", "nobegin", "nocommit", "lost", "fail"}

(***************************************************************************)
(* What an instance lets happen besides starts, polls and ticks:           *)
(*   kill      a manager process is killed                                 *)
(*   crash     a whole server is killed                                    *)
(*   restart   a manager is replaced by one in standby status              *)
(*   exit      a server is asked to exit: its manager is paused, stopped   *)
(*   remove    the operator runs ha_remove_node                            *)
(*   delay     the operator runs ha_set_failover_delay                     *)
(*   hang      a manager waits for the database longer than a second       *)
(*   timeout   a manager does not tell its main process its status in time *)
(*   noreply   a manager does not confirm a pause or stop in time          *)
(*   startup   starting the server processes takes longer than a second    *)
(***************************************************************************)
AllEvents ==
  {"kill", "crash", "restart", "exit", "remove", "delay", "hang", "timeout",
   "noreply", "startup"}

RowStatuses == {"none", "stopped", "standby", "active", "unavailable"}
Statuses == {"unknown", "standby", "active", "error"}
Phases == {"off", "init_create", "init_register", "loop", "create",
           "register", "remove", "paused", "stopping"}

Row == [status : RowStatuses, lastaccess : Nat, session : Nat, nodeid : Nat]
NoRow == [status |-> "none", lastaccess |-> 0, session |-> 0, nodeid |-> 0]

Info == [pc : Phases, ha_status : Statuses, ha_nodeid : Nat,
         db_status : {"ok", "down", "fail"}, failover_delay : Nat,
         lastaccess_active : Nat, offline_ticks_active : Nat,
         nextcheck : Nat, tick : BOOLEAN, removing : Nat]

ASSUME ConfigAssumption ==
  /\ Standalone \in Names
  /\ NameOf \in [Servers -> Names]
  /\ PollPeriod \in Nat \ {0}
  /\ DefaultDelay \in Nat
  /\ Delays \subseteq Nat
  /\ Outcomes \subseteq AllOutcomes
  /\ Events \subseteq AllEvents
  /\ MaxTime \in Nat
  /\ MaxStart \in Nat
  /\ MaxIds \in Nat

(***************************************************************************)
(* The state of a manager at the start of ha_manager_thread.               *)
(***************************************************************************)
StartedInfo(status) ==
  [pc                   |-> IF status = "unknown" THEN "init_create" ELSE "loop",
   ha_status            |-> status,
   ha_nodeid            |-> 0,
   db_status            |-> "down",
   failover_delay       |-> DefaultDelay,
   lastaccess_active    |-> 0,
   offline_ticks_active |-> 0,
   nextcheck            |-> IF status = "standby" THEN 3 * PollPeriod
                                                  ELSE PollPeriod,
   tick                 |-> TRUE,
   removing             |-> 0]

OffInfo == [StartedInfo("unknown") EXCEPT !.pc = "off", !.tick = FALSE]

Init ==
  /\ ha_node = [n \in Names |-> NoRow]
  /\ settings = DefaultDelay
  /\ now = 1
  /\ nextid = 1
  /\ ha_sessionid = [s \in Servers |-> 0]
  /\ info = [s \in Servers |-> OffInfo]

---------------------------------------------------------------------------
(* The registry as one transaction of server s reads it. *)

Present(n) == ha_node[n].status # "none"
HasId(n, nodeid) == Present(n) /\ ha_node[n].nodeid = nodeid
IsCluster(s) == NameOf[s] # Standalone

(* MUTANT: the result of the database library is stored as it is. *)
DbStatusRaw(o) == o

Applied(o) == o \in {"ok", "lost"}
DbStatus(o) == CASE o = "ok" -> "ok" [] o = "fail" -> "fail" [] OTHER -> "down"

(* ha_db_begin: a connection left in failed state is not opened again *)
CanEnd(s, o) == info[s].db_status = "fail" => o = "fail"

(* ha_is_available *)
Available(n, delay) == ~(ha_node[n].lastaccess + delay <= now)

(* A row the start-up checks take into account. *)
Live(n, delay) ==
  Present(n) /\ ha_node[n].status # "stopped" /\ Available(n, delay)

(* ha_check_standalone_config, ha_check_cluster_config: may s start? *)
ConfigOK(s, delay) ==
  \A n \in Names : Live(n, delay) =>
    IF IsCluster(s) THEN n # Standalone /\ n # NameOf[s]
                    ELSE n = Standalone

(* ha_check_cluster_config's output parameter *)
Activate(s, delay) ==
  IsCluster(s) => \A n \in Names :
                    Live(n, delay) => ha_node[n].status \notin {"active", "standby"}

(* ha_db_check_unavailable_nodes: the rows it marks *)
Unavailable(n, nodeid, delay) ==
  /\ ha_node[n].nodeid # nodeid
  /\ ha_node[n].status \in {"standby", "active"}
  /\ now >= ha_node[n].lastaccess + delay

MarkUnavailable(n) == [ha_node[n] EXCEPT !.status = "unavailable"]

(* The row with nodeid after "update ha_node set lastaccess=now, status=..." *)
Touched(n, status) == [ha_node[n] EXCEPT !.lastaccess = now, !.status = status]

---------------------------------------------------------------------------
(* The manager loop. *)

(***************************************************************************)
(* What the thread does once the database work of a check or registration  *)
(* left the manager state i: the code after the first ha_db_register_node, *)
(* and the rest of the loop's tick for one done inside the loop.           *)
(***************************************************************************)
Resumed(s, i) ==
  LET first == info[s].pc \in {"init_create", "init_register"}
  IN  [i EXCEPT
         !.pc = IF i.ha_status = "error" THEN "paused" ELSE "loop",
         !.tick = first,
         !.nextcheck = IF first THEN IF i.ha_status = "standby" THEN 3 * PollPeriod
                                                               ELSE PollPeriod
                       ELSE IF i.db_status = "ok" THEN PollPeriod ELSE 1]

Resume(s, i) == info' = [info EXCEPT ![s] = Resumed(s, i)]

(* ha_set_error *)
Failed(i) == [i EXCEPT !.ha_status = "error"]

(* A tick without a database check. *)
ManagerTick(s) ==
  /\ info[s].pc = "loop" /\ info[s].tick
  /\ info[s].nextcheck > 1
  /\ info' = [info EXCEPT ![s].nextcheck = @ - 1, ![s].tick = FALSE]
  /\ UNCHANGED <<registry, now, ha_sessionid>>

(* A manager receives messages once it is done with the tick that is due. *)
Receives(s) == info[s].pc = "loop" /\ ~info[s].tick

CheckDue(s) == info[s].pc = "loop" /\ info[s].tick /\ info[s].nextcheck = 1

(* A check in unknown status is another registration attempt. *)
RegisterAgain(s) ==
  /\ CheckDue(s)
  /\ info[s].ha_status = "unknown"
  /\ info' = [info EXCEPT ![s].pc = "create"]
  /\ UNCHANGED <<registry, now, ha_sessionid>>

---------------------------------------------------------------------------
(* Registration: two transactions, the first one without a row lock. *)

ToRegister(s, i) ==
  IF i.ha_nodeid = 0 THEN Resume(s, i)
  ELSE info' = [info EXCEPT ![s] =
                  [i EXCEPT !.pc = IF @ = "create" THEN "register" ELSE "init_register"]]

(* the row ha_db_create_node inserts *)
NewRow(nodeid) ==
  [status |-> "stopped", lastaccess |-> now, session |-> 0, nodeid |-> nodeid]

(* ha_db_create_node *)
CreateNode(s, o) ==
  /\ info[s].pc \in {"init_create", "create"}
  /\ LET i == [info[s] EXCEPT !.db_status = DbStatus(o), !.failover_delay = settings]
         me == NameOf[s]
     IN  \/ /\ o = "nobegin"
            /\ ToRegister(s, [info[s] EXCEPT !.db_status = "down"])
            /\ UNCHANGED registry
         \/ /\ o = "fail"
            /\ Resume(s, Failed(info[s]))
            /\ UNCHANGED registry
         \/ /\ o \notin {"nobegin", "fail"}
            /\ Present(me)
            /\ ToRegister(s, IF o = "ok" THEN [i EXCEPT !.ha_nodeid = ha_node[me].nodeid]
                                         ELSE i)
            /\ UNCHANGED registry
         \/ /\ o \notin {"nobegin", "fail"}
            /\ ~Present(me) /\ ~ConfigOK(s, settings)
            /\ Resume(s, Failed(i))
            /\ UNCHANGED registry
         \/ /\ o \notin {"nobegin", "fail"}
            /\ ~Present(me) /\ ConfigOK(s, settings)
            /\ nextid < MaxIds
            /\ nextid' = nextid + 1
            /\ ha_node' = IF Applied(o)
                            THEN [ha_node EXCEPT ![me] = NewRow(nextid)]
                            ELSE ha_node
            /\ ToRegister(s, IF o = "ok" THEN [i EXCEPT !.ha_nodeid = nextid] ELSE i)
            /\ UNCHANGED settings
  /\ UNCHANGED <<now, ha_sessionid>>

(* MUTANT: the rows of the other mode are left in the registry. *)
RegisteredKeeping(s, status) ==
  [n \in Names |->
    IF HasId(n, info[s].ha_nodeid)
      THEN [Touched(n, status) EXCEPT !.session = ha_sessionid[s]]
    ELSE ha_node[n]]

(* MUTANT: the session is not stored. *)
RegisteredNoSession(s, status) ==
  [n \in Names |->
    IF IsCluster(s) # (n # Standalone) THEN NoRow
    ELSE IF HasId(n, info[s].ha_nodeid) THEN Touched(n, status)
    ELSE ha_node[n]]

(* The registry after the registration of s with the given status. *)
Registered(s, status) ==
  [n \in Names |->
    IF IsCluster(s) # (n # Standalone) THEN NoRow
    ELSE IF HasId(n, info[s].ha_nodeid)
      THEN [Touched(n, status) EXCEPT !.session = ha_sessionid[s]]
    ELSE IF /\ IsCluster(s) /\ status = "active"
            /\ Unavailable(n, info[s].ha_nodeid, info[s].failover_delay)
      THEN MarkUnavailable(n)
    ELSE ha_node[n]]

(* ha_db_register_node, the second transaction *)
RegisterNode(s, o) ==
  /\ info[s].pc \in {"init_register", "register"}
  /\ LET i == [info[s] EXCEPT !.db_status = DbStatus(o)]
         accepted == ConfigOK(s, info[s].failover_delay) /\ Present(NameOf[s])
         status == IF Activate(s, info[s].failover_delay) THEN "active" ELSE "standby"
     IN  \/ /\ o = "nobegin"
            /\ Resume(s, i)
            /\ UNCHANGED ha_node
         \/ /\ o = "fail" \/ (o # "nobegin" /\ ~accepted)
            /\ Resume(s, Failed(i))
            /\ UNCHANGED ha_node
         \/ /\ o \notin {"nobegin", "fail"}
            /\ accepted
            /\ ha_node' = IF Applied(o) THEN Registered(s, status) ELSE ha_node
            /\ Resume(s, IF o = "ok" THEN [i EXCEPT !.ha_status = status] ELSE i)
  /\ UNCHANGED <<settings, nextid, now, ha_sessionid>>

---------------------------------------------------------------------------
(* ha_check_nodes *)

(* MUTANT: the node identifier is compared instead of the session. *)
OwnsNodeid(s) == HasId(NameOf[s], info[s].ha_nodeid)

OwnsRow(s) ==
  Present(NameOf[s]) /\ ha_node[NameOf[s]].session = ha_sessionid[s]

(* The manager state once the row of s was found and the settings read. *)
CheckedInfo(s, o) ==
  [info[s] EXCEPT !.db_status = DbStatus(o),
                  !.ha_nodeid = IF @ = 0 THEN ha_node[NameOf[s]].nodeid ELSE @,
                  !.failover_delay = settings]

CheckStart(s, o) ==
  /\ CheckDue(s)
  /\ info[s].ha_status # "unknown"
  /\ CanEnd(s, o)
  /\ UNCHANGED <<settings, nextid, now, ha_sessionid>>

CheckNoDatabase(s) ==
  /\ CheckStart(s, "nobegin")
  /\ Resume(s, [info[s] EXCEPT !.db_status = "down"])
  /\ UNCHANGED ha_node

(* database error, or the row is gone or was taken by another session *)
CheckError(s, o) ==
  /\ CheckStart(s, o)
  /\ o = "fail" \/ (o # "nobegin" /\ ~OwnsRow(s))
  /\ Resume(s, Failed([info[s] EXCEPT !.db_status = DbStatus(o)]))
  /\ UNCHANGED ha_node

CheckOwned(s, o) ==
  /\ CheckStart(s, o)
  /\ o \notin {"nobegin", "fail"}
  /\ OwnsRow(s)

(* a standalone server only refreshes its row *)
CheckStandalone(s, o) ==
  /\ CheckOwned(s, o)
  /\ ~IsCluster(s)
  /\ LET i == CheckedInfo(s, o)
     IN  /\ ha_node' = IF Applied(o)
                         THEN [n \in Names |-> IF HasId(n, i.ha_nodeid)
                                                 THEN Touched(n, i.ha_status)
                                                 ELSE ha_node[n]]
                         ELSE ha_node
         /\ Resume(s, i)

(* active, but the registry does not say so: "HA node split brain detected" *)
CheckSplitBrain(s, o) ==
  /\ CheckOwned(s, o)
  /\ IsCluster(s)
  /\ info[s].ha_status = "active"
  /\ ha_node[NameOf[s]].status # "active"
  /\ Resume(s, IF o = "ok" THEN [CheckedInfo(s, o) EXCEPT !.ha_status = "standby"]
                            ELSE CheckedInfo(s, o))
  /\ UNCHANGED ha_node

(* ha_check_standby_nodes, then the refresh of the own row *)
CheckActive(s, o) ==
  /\ CheckOwned(s, o)
  /\ IsCluster(s)
  /\ info[s].ha_status = "active"
  /\ ha_node[NameOf[s]].status = "active"
  /\ LET i == CheckedInfo(s, o)
     IN  /\ ha_node' = IF Applied(o)
                         THEN [n \in Names |->
                                 IF HasId(n, i.ha_nodeid) THEN Touched(n, "active")
                                 ELSE IF Unavailable(n, i.ha_nodeid, settings)
                                   THEN MarkUnavailable(n) ELSE ha_node[n]]
                         ELSE ha_node
         /\ Resume(s, i)

(* MUTANT: the node that is replaced stays active in the registry. *)
PassedKeeping(i, status, taken) ==
  [n \in Names |-> IF HasId(n, i.ha_nodeid) THEN Touched(n, status) ELSE ha_node[n]]

(* the registry after a passive node gave itself a status, and the node it *)
(* takes over from, if any, became unavailable                             *)
Passed(i, status, taken) ==
  [n \in Names |->
    IF HasId(n, i.ha_nodeid) THEN Touched(n, status)
    ELSE IF n \in taken THEN MarkUnavailable(n) ELSE ha_node[n]]

EndPassive(s, o, i, status, taken) ==
  /\ ha_node' = IF Applied(o) THEN Passed(i, status, taken) ELSE ha_node
  /\ Resume(s, IF o = "ok" THEN [i EXCEPT !.ha_status = status] ELSE i)

(* MUTANT: the last access seen is not remembered. *)
WatchedForgets(i, active) ==
  [i EXCEPT !.offline_ticks_active =
              IF active.lastaccess # i.lastaccess_active THEN 0 ELSE @ + 1]

(* a passive node counts its checks that find the active row not refreshed *)
Watched(i, active) ==
  [i EXCEPT !.lastaccess_active = active.lastaccess,
            !.offline_ticks_active =
              IF active.lastaccess # i.lastaccess_active THEN 0 ELSE @ + 1]

(* ha_check_active_node *)
CheckPassive(s, o) ==
  /\ CheckOwned(s, o)
  /\ IsCluster(s)
  /\ info[s].ha_status = "standby"
  /\ LET i == CheckedInfo(s, o)
         actives == {n \in Names : ha_node[n].status = "active"}
     IN  \/ /\ actives = {} \/ \E a \in actives : a # Standalone /\ ha_node[a].nodeid = i.ha_nodeid
            /\ EndPassive(s, o, i, "active", {})
         \/ /\ Standalone \in actives
            /\ Resume(s, Failed(i))
            /\ UNCHANGED ha_node
         \/ \E a \in actives \ {Standalone} :
              /\ ha_node[a].nodeid # i.ha_nodeid
              /\ LET j == Watched(i, ha_node[a])
                 IN  IF j.failover_delay \div PollPeriod < j.offline_ticks_active
                       THEN EndPassive(s, o, j, "active", {a})
                       ELSE EndPassive(s, o, j, "standby", {})

---------------------------------------------------------------------------
(* Commands, pause and exit. *)

(* ha_remove_node_impl: the rows are read without a lock ... *)
RemoveNodeCheck(s, n, o) ==
  /\ Receives(s)
  /\ CanEnd(s, o)
  /\ LET removable == Present(n) /\ ha_node[n].status \notin {"active", "standby"}
         i == [info[s] EXCEPT !.db_status = DbStatus(o)]
     IN  info' = [info EXCEPT ![s] =
                    CASE o = "nobegin" -> i
                      [] o = "fail" -> [Failed(i) EXCEPT !.pc = "paused"]
                      [] OTHER -> IF removable
                                    THEN [i EXCEPT !.pc = "remove",
                                                   !.removing = ha_node[n].nodeid]
                                    ELSE i]
  /\ UNCHANGED <<registry, now, ha_sessionid>>

(* ... and the row is deleted by its identifier. *)
RemoveNodeDelete(s, o) ==
  /\ info[s].pc = "remove"
  /\ o # "nobegin"
  /\ ha_node' = IF Applied(o)
                  THEN [n \in Names |-> IF HasId(n, info[s].removing)
                                          THEN NoRow ELSE ha_node[n]]
                  ELSE ha_node
  /\ info' = [info EXCEPT ![s].removing = 0,
                          ![s].db_status = DbStatus(o),
                          ![s].pc = IF o = "fail" THEN "paused" ELSE "loop",
                          ![s].ha_status = IF o = "fail" THEN "error" ELSE @]
  /\ UNCHANGED <<settings, nextid, now, ha_sessionid>>

(* ha_set_failover_delay and the ha_update_parent that follows it always *)
SetFailoverDelay(s, delay, o) ==
  /\ Receives(s)
  /\ LET done == info[s].db_status = "ok" /\ Applied(o)
         i == [info[s] EXCEPT
                 !.failover_delay = IF done /\ o = "ok" THEN delay ELSE @,
                 !.db_status = IF info[s].db_status = "ok" THEN DbStatus(o) ELSE @]
     IN  /\ settings' = IF done THEN delay ELSE settings
         /\ info' = [info EXCEPT ![s] = i]
  /\ UNCHANGED <<ha_node, nextid, now, ha_sessionid>>

(* ZBX_IPC_SERVICE_HA_PAUSE *)
Pause(s) ==
  /\ Receives(s)
  /\ info' = [info EXCEPT ![s].pc = "paused", ![s].nextcheck = PollPeriod]
  /\ UNCHANGED <<registry, now, ha_sessionid>>

(* MUTANT: a paused manager leaves its row alone. *)
UpdateLastaccessNever(s, o) == UNCHANGED ha_node

(* ha_db_update_lastaccess of a manager in standby or active status *)
UpdateLastaccess(s, o) ==
  ha_node' = IF Applied(o) /\ info[s].ha_status \in {"standby", "active"}
               THEN [n \in Names |-> IF HasId(n, info[s].ha_nodeid)
                                       THEN [ha_node[n] EXCEPT !.lastaccess = now]
                                       ELSE ha_node[n]]
               ELSE ha_node

(* the status it leaves: ha_db_begin and ha_db_commit may set the error *)
PausedStatus(s, o) ==
  IF o = "fail" /\ info[s].ha_status \in {"standby", "active"}
    THEN "error" ELSE info[s].ha_status

(* The paused loop waits PollPeriod seconds between two refreshes. *)
PausedWait(s) ==
  /\ info[s].pc = "paused" /\ info[s].tick
  /\ info[s].nextcheck > 1
  /\ info' = [info EXCEPT ![s].nextcheck = @ - 1, ![s].tick = FALSE]
  /\ UNCHANGED <<registry, now, ha_sessionid>>

PausedUpdate(s, o) ==
  /\ info[s].pc = "paused" /\ info[s].tick
  /\ info[s].nextcheck <= 1
  /\ CanEnd(s, o)
  /\ UpdateLastaccess(s, o)
  /\ info' = [info EXCEPT ![s].nextcheck = PollPeriod, ![s].tick = FALSE,
                          ![s].ha_status = PausedStatus(s, o)]
  /\ UNCHANGED <<settings, nextid, now, ha_sessionid>>

(* ZBX_IPC_SERVICE_HA_STOP, in the loop or in the paused loop *)
Stop(s, o) ==
  /\ CanEnd(s, o)
  /\ \/ /\ Receives(s)
        /\ info' = [info EXCEPT ![s].pc = "stopping"]
        /\ UNCHANGED ha_node
     \/ /\ info[s].pc = "paused"
        /\ info' = [info EXCEPT ![s].pc = "stopping", ![s].ha_status = PausedStatus(s, o)]
        /\ UpdateLastaccess(s, o)
  /\ UNCHANGED <<settings, nextid, now, ha_sessionid>>

(* ha_db_update_exit_status and the end of the process *)
UpdateExitStatus(s, o) ==
  /\ info[s].pc = "stopping"
  /\ CanEnd(s, o)
  /\ ha_node' = IF Applied(o) /\ info[s].ha_status \in {"standby", "active"}
                  THEN [n \in Names |->
                          IF HasId(n, info[s].ha_nodeid)
                            THEN [ha_node[n] EXCEPT !.status = "stopped"] ELSE ha_node[n]]
                  ELSE ha_node
  /\ info' = [info EXCEPT ![s] = OffInfo]
  /\ UNCHANGED <<settings, nextid, now, ha_sessionid>>

---------------------------------------------------------------------------
(* The environment: the main process and the clock. *)

(* zbx_init_library_ha and the first zbx_ha_start of a server process *)
StartServer(s) ==
  /\ info[s].pc = "off"
  /\ now <= MaxStart
  /\ nextid < MaxIds
  /\ nextid' = nextid + 1
  /\ ha_sessionid' = [ha_sessionid EXCEPT ![s] = nextid]
  /\ info' = [info EXCEPT ![s] = StartedInfo("unknown")]
  /\ UNCHANGED <<ha_node, settings, now>>

(* zbx_ha_kill *)
KillManager(s) ==
  /\ info[s].pc # "off"
  /\ info' = [info EXCEPT ![s] = OffInfo]
  /\ UNCHANGED <<registry, now, ha_sessionid>>

(* zbx_ha_kill and zbx_ha_start of server_teardown and server_restart_ha,  *)
(* which only a cluster node calls                                         *)
RestartManager(s) ==
  /\ IsCluster(s)
  /\ ha_sessionid[s] # 0
  /\ info' = [info EXCEPT ![s] = StartedInfo("standby")]
  /\ UNCHANGED <<registry, now, ha_sessionid>>

(* A second passes; it makes one tick due in every running manager. *)
Tick ==
  /\ now < MaxTime
  /\ now' = now + 1
  /\ info' = [s \in Servers |->
                IF info[s].pc = "off" THEN info[s] ELSE [info[s] EXCEPT !.tick = TRUE]]
  /\ UNCHANGED <<registry, ha_sessionid>>

---------------------------------------------------------------------------

CheckNodes(s) ==
  \/ "nobegin" \in Outcomes /\ CheckNoDatabase(s)
  \/ \E o \in Outcomes : \/ CheckError(s, o)
                         \/ CheckStandalone(s, o)
                         \/ CheckSplitBrain(s, o)
                         \/ CheckActive(s, o)
                         \/ CheckPassive(s, o)

ManagerStep(s) ==
  \/ ManagerTick(s)
  \/ RegisterAgain(s)
  \/ CheckNodes(s)
  \/ \E o \in Outcomes : \/ CreateNode(s, o)
                         \/ RegisterNode(s, o)
                         \/ RemoveNodeDelete(s, o)
                         \/ PausedUpdate(s, o)
                         \/ UpdateExitStatus(s, o)
  \/ PausedWait(s)

Environment(s) ==
  \/ "kill" \in Events /\ KillManager(s)
  \/ "restart" \in Events /\ RestartManager(s)
  \/ "exit" \in Events /\ (Pause(s) \/ \E o \in Outcomes : Stop(s, o))
  \/ "remove" \in Events /\ \E n \in Names, o \in Outcomes : RemoveNodeCheck(s, n, o)
  \/ "delay" \in Events /\ \E d \in Delays, o \in Outcomes : SetFailoverDelay(s, d, o)

Next ==
  \/ \E s \in Servers : StartServer(s) \/ ManagerStep(s) \/ Environment(s)
  \/ Tick

Spec == Init /\ [][Next]_vars

---------------------------------------------------------------------------
(* Properties. *)

TypeOK ==
  /\ ha_node \in [Names -> Row]
  /\ settings \in Nat
  /\ now \in Nat
  /\ nextid \in Nat \ {0}
  /\ ha_sessionid \in [Servers -> Nat]
  /\ info \in [Servers -> Info]

(***************************************************************************)
(* The registry never holds two active nodes, whatever the interleaving of *)
(* registrations, checks, takeovers, removals and exits, with transactions *)
(* failing and managers killed or stalled anywhere.                        *)
(***************************************************************************)
SingleActive ==
  \A m, n \in Names :
    ha_node[m].status = "active" /\ ha_node[n].status = "active" => m = n

(***************************************************************************)
(* Why SingleActive holds: identifiers are never reused, a manager knows   *)
(* the identifier of no row but the one with its name, a node that was     *)
(* active has a session, and the row of a standalone server and the rows   *)
(* of cluster nodes never have sessions at the same time.                  *)
(***************************************************************************)
IdsFresh ==
  /\ \A n \in Names : ha_node[n].nodeid < nextid
  /\ \A s \in Servers : info[s].ha_nodeid < nextid /\ info[s].removing < nextid

IdsUnique ==
  /\ \A n \in Names : Present(n) => ha_node[n].nodeid # 0
  /\ \A m, n \in Names :
       Present(m) /\ Present(n) /\ ha_node[m].nodeid = ha_node[n].nodeid => m = n

NodeidOwned ==
  \A s \in Servers, n \in Names : HasId(n, info[s].ha_nodeid) => n = NameOf[s]

ActiveOwned == \A n \in Names : ha_node[n].status = "active" => ha_node[n].session # 0

ModesExclusive ==
  ha_node[Standalone].session # 0 =>
    \A n \in Names \ {Standalone} : ha_node[n].session = 0

Running ==
  \A s \in Servers :
    /\ info[s].pc # "off" => ha_sessionid[s] # 0
    /\ info[s].pc \in {"loop", "remove"} => info[s].ha_status # "error"

RegistryInv ==
  /\ SingleActive
  /\ IdsFresh
  /\ IdsUnique
  /\ NodeidOwned
  /\ ActiveOwned
  /\ ModesExclusive
  /\ Running

(***************************************************************************)
(* The registry gives the nodes what ActiveNode promises: a lease for the  *)
(* active node, as long as operators do not change the failover delay and  *)
(* no transaction fails half way.                                          *)
(***************************************************************************)
Lease == [n \in {m \in Names : ha_node[m].status = "active"} |-> ha_node[n].lastaccess]

Election == INSTANCE ActiveNode
              WITH Nodes <- Names, Delay <- DefaultDelay, lease <- Lease, clock <- now
ElectionSpec == Election!Spec

(***************************************************************************)
(* A manager that polls refreshes only a row of its own session, although  *)
(* ha_check_nodes looks the row up by name and updates it by identifier,   *)
(* and rows are removed, created again and taken over by servers that      *)
(* have the same name.                                                     *)
(***************************************************************************)
RowOwnership ==
  [][\A s \in Servers, n \in Names :
       /\ info[s].pc = "loop" /\ info'[s] # info[s]
       /\ ha_node[n].status \in {"standby", "active"}
       /\ ha_node'[n] # ha_node[n]
       /\ ha_node'[n].status # "unavailable"
       => ha_node[n].session = ha_sessionid[s] /\ n = NameOf[s]]_vars

(***************************************************************************)
(* No manager ends in error status as long as the database, when it fails, *)
(* only loses connections: "If database connection was lost the status     *)
(* will stay unknown until another registration attempt succeeds."         *)
(***************************************************************************)
NoError == \A s \in Servers : info[s].ha_status # "error"
=============================================================================
