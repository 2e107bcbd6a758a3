----------------------------- MODULE Supervisor -----------------------------
(***************************************************************************)
(* How the Zabbix server starts and stops its processes: the main process  *)
(* (server.c), the supervisor with its units, which are threads            *)
(* (supervisor.c), the run levels they agree on through IPC                *)
(* (supervisor_client.c), the shutdown broadcast of the runtime control    *)
(* service (rtc_service.c) and the staged kill of the children             *)
(* (threads.c).  A process is started when the run level it belongs to is  *)
(* complete, and processes stop in the order of their priorities: data     *)
(* collectors, the supervisor with its units, history syncers, workers and *)
(* the rest.  The history syncers and the CEP manager, a unit, also wait   *)
(* for each other through the reference counter of the history cache.      *)
(***************************************************************************)
EXTENDS Integers, FiniteSets, Sequences

CONSTANTS
    Sup,           \* the supervisor process
    DirectUnit,    \* units that stop at the shutdown message or run state
    Cep,           \* CEP managers: also wait for the history syncers
    Preproc,       \* preprocessing managers: stop by run state only
    Collector, Syncer, Worker, Plain,   \* main-owned, by kill priority
    Level,         \* run level of a process
    LastLevel,     \* ZBX_RUNLEVEL_DEFAULT
    Reporter,      \* processes that call zbx_supervisor_set_process_running
    Mortal,        \* processes and units that may crash
    MaxCrashes,    \* bound on crashes
    HaChanges      \* when the node may lose its active status

Unit == DirectUnit \cup Cep \cup Preproc
Child == {Sup} \cup Collector \cup Syncer \cup Worker \cup Plain
Proc == Unit \cup Child
Levels == 0..LastLevel

ASSUME LevelAssumption == /\ LastLevel \in Nat \ {0}
                          /\ Level \in [Proc -> Levels]
ASSUME SupAssumption == /\ Level[Sup] = 0
                        /\ \A p \in Proc \ {Sup} : Level[p] > 0
                        /\ Sup \notin Unit
                        /\ Unit \cap Child = {}
ASSUME ReporterAssumption == Unit \cup {Sup} \subseteq Reporter
ASSUME HaAssumption == HaChanges \subseteq {"startup", "running"}
ASSUME NeverDoneAssumption == \E p \in Child : Level[p] = LastLevel /\ p \notin Reporter
(* History syncers start before the last run level; CEP managers, the       *)
(* supervisor and the workers are of no other kind.                         *)
ASSUME SyncerAssumption == \A s \in Syncer : Level[s] < LastLevel
ASSUME KindAssumption == /\ Cep \cap (DirectUnit \cup Preproc) = {}
                         /\ Sup \notin Collector \cup Syncer \cup Worker \cup Plain
                         /\ Worker \cap (Collector \cup Syncer \cup Plain) = {}

VARIABLES
    pc,         \* where the main process is
    level,      \* the run level it is working on (i of server_startup)
    asked,      \* svc.last_runlevel
    ret,        \* return value of server_startup
    exiting,    \* sig_exiting of the main process
    stage,      \* position in the staged kill
    ha,         \* HA status of the node as the main process reads it
    pstate,     \* life of each process and unit
    told,       \* processes that were sent ZBX_RTC_SHUTDOWN
    signalled,  \* processes that were sent SIGUSR2
    holders,    \* syncers counted by the refcount of the history cache
    waits,      \* ZBX_SUPERVISOR_RUNLEVEL_WAIT requests in the socket
    oks,        \* ZBX_SUPERVISOR_RUNLEVEL_OK replies in the socket
    reports,    \* ZBX_SUPERVISOR_PROC_RUNNING messages in flight
    reported,   \* processes whose report was handled (not pending)
    runlevel,   \* sv.runlevel
    subs,       \* sv.runlevel_subs
    svpc,       \* the supervisor's loop: off, loop, join
    runstate,   \* unit->runstate
    crashes

mainVars == <<pc, level, asked, ret, exiting, stage, ha>>
svVars == <<reported, runlevel, subs, svpc, runstate>>
msgVars == <<waits, oks, reports>>
procVars == <<pstate, told, signalled, holders, crashes>>
vars == <<mainVars, svVars, msgVars, procVars>>

Alive(p) == pstate[p] \notin {"none", "ended"}
Subscribed(p) == pstate[p] \in {"subscribed", "up", "released", "idle"}
IsRunning == exiting = "none"
AtLevel(S, i) == {p \in S : Level[p] = i}

(* The staged kill of zbx_threads_kill_and_wait: the groups that are waited *)
(* for one after the other.                                                 *)
Group == <<Collector, {Sup}, Syncer, Worker>>

Init ==
    /\ pc = "start" /\ level = 0 /\ asked = 0 /\ ret = "succeed"
    /\ exiting = "none" /\ stage = 1 /\ ha = "active"
    /\ pstate = [p \in Proc |-> "none"]
    /\ told = {} /\ signalled = {} /\ holders = {} /\ crashes = 0
    /\ waits = <<>> /\ oks = 0 /\ reports = {}
    /\ reported = {} /\ runlevel = 0 /\ subs = {} /\ svpc = "off"
    /\ runstate = [u \in Unit |-> "idle"]

-----------------------------------------------------------------------------
(* The main process: server_startup. *)

(* start_processes(level) and what follows it: the next level, the main     *)
(* loop, or the exit.  The processes are started although the wait for the  *)
(* level was broken off; only a termination request prevents it.            *)
StartProcesses ==
    /\ pc = "start"
    /\ pstate' = [p \in Proc |->
           IF IsRunning /\ p \in AtLevel(Child, level) THEN "forked" ELSE pstate[p]]
    /\ \/ /\ ret = "fail"
          /\ pc' = "stop" /\ exiting' = "fail"
          /\ UNCHANGED level
       \/ /\ ret = "succeed" /\ level < LastLevel
          /\ pc' = IF level = 0 THEN "connect" ELSE "poll"
          /\ level' = level + 1
          /\ UNCHANGED exiting
       \/ /\ ret = "succeed" /\ level = LastLevel
          /\ pc' = "run"
          /\ UNCHANGED <<level, exiting>>
    /\ UNCHANGED <<asked, ret, stage, ha, svVars, msgVars, told, signalled, holders, crashes>>

(* zbx_supervisor_client_init: connects once the supervisor's service has   *)
(* started, gives up when it never does.                                    *)
Connect ==
    /\ pc = "connect"
    /\ \/ /\ svpc # "off" /\ Alive(Sup)
          /\ pc' = "poll"
          /\ UNCHANGED <<ret, exiting>>
       \/ /\ ~Alive(Sup)
          /\ pc' = "stop" /\ ret' = "fail" /\ exiting' = "fail"
    /\ UNCHANGED <<level, asked, stage, ha, svVars, msgVars, procVars>>

(* zbx_supervisor_client_poll, the request: sent once for every run level.  *)
PollAsk ==
    /\ pc = "poll" /\ asked # level
    /\ asked' = level
    /\ waits' = Append(waits, level)
    /\ UNCHANGED <<pc, level, ret, exiting, stage, ha, svVars, oks, reports, procVars>>

(* The reply: it carries no run level. *)
PollOk ==
    /\ pc = "poll" /\ asked = level /\ oks > 0
    /\ oks' = oks - 1
    /\ pc' = "start" /\ ret' = "succeed"
    /\ UNCHANGED <<level, asked, exiting, stage, ha, svVars, waits, reports, procVars>>

(* The HA status the main process reads: once lost it is not regained.      *)
ReadHa(when, status) ==
    /\ status = ha \/ (ha = "active" /\ when \in HaChanges)
    /\ ha' = status

(* MUTANT: processes that have ended are not noticed. *)
PollTimeoutBlind ==
    /\ pc = "poll" /\ asked = level /\ oks = 0
    /\ \E status \in {"active", "standby", "error"} :
          LET failed == (level > 1 /\ ~IsRunning) \/ status = "error"
          IN  /\ ReadHa("startup", status)
              /\ failed \/ status = "standby"
              /\ ret' = IF failed THEN "fail" ELSE "succeed"
    /\ pc' = "start"
    /\ UNCHANGED <<level, asked, exiting, stage, svVars, msgVars, procVars>>

(* No reply within a second: the reasons to break the wait off, in the      *)
(* order of the code.  A lost active status breaks it off with the SUCCEED  *)
(* of zbx_ha_get_status.                                                    *)
PollTimeout ==
    /\ pc = "poll" /\ asked = level /\ oks = 0
    /\ \E status \in {"active", "standby", "error"} :
          LET failed == \/ \E p \in Child : pstate[p] = "ended"
                        \/ level > 1 /\ ~IsRunning
                        \/ status = "error"
          IN  /\ ReadHa("startup", status)
              /\ failed \/ status = "standby"
              /\ ret' = IF failed THEN "fail" ELSE "succeed"
    /\ pc' = "start"
    /\ UNCHANGED <<level, asked, exiting, stage, svVars, msgVars, procVars>>

-----------------------------------------------------------------------------
(* The main process: the main loop and the exit. *)

(* terminate_signal_handler *)
Terminate ==
    /\ pc \in {"connect", "poll", "start", "run"} /\ level > 0 /\ IsRunning
    /\ exiting' = "success"
    /\ UNCHANGED <<pc, level, asked, ret, stage, ha, svVars, msgVars, procVars>>

(* The main loop ends: asked to, a child has ended, an HA error. *)
MainLoop ==
    /\ pc = "run"
    /\ \/ /\ ~IsRunning
          /\ UNCHANGED exiting
          /\ UNCHANGED ha
       \/ /\ IsRunning
          /\ \/ ReadHa("running", "error")
             \/ (\E p \in Child : pstate[p] = "ended") /\ UNCHANGED ha
          /\ exiting' = "fail"
    /\ pc' = "stop"
    /\ UNCHANGED <<level, asked, ret, stage, svVars, msgVars, procVars>>

(* server_teardown: every process is killed with SIGKILL. *)
Teardown ==
    /\ pc = "run"
    /\ ReadHa("running", "standby")
    /\ pc' = "standby"
    /\ pstate' = [p \in Proc |-> IF Alive(p) THEN "ended" ELSE pstate[p]]
    /\ svpc' = "off"
    /\ UNCHANGED <<level, asked, ret, exiting, stage, reported, runlevel, subs,
                   runstate, msgVars, told, signalled, holders, crashes>>

(* MUTANT: the shutdown message reaches nobody. *)
ShutdownSubsSilent ==
    /\ pc = "stop"
    /\ told' = {}
    /\ signalled' = Plain
    /\ pc' = "kill"
    /\ UNCHANGED <<level, asked, ret, exiting, stage, ha, svVars, msgVars,
                   pstate, holders, crashes>>

(* zbx_rtc_shutdown_subs reaches who has subscribed by now; then the        *)
(* processes without a priority are signalled.                              *)
ShutdownSubs ==
    /\ pc = "stop"
    /\ told' = {p \in Proc : Subscribed(p)}
    /\ signalled' = Plain
    /\ pc' = "kill"
    /\ UNCHANGED <<level, asked, ret, exiting, stage, ha, svVars, msgVars,
                   pstate, holders, crashes>>

(* threads_kill_and_wait(priority, SUCCEED, timeout): the signal... *)
KillGroup ==
    /\ pc = "kill" /\ stage <= Len(Group)
    /\ signalled' = signalled \cup Group[stage]
    /\ pc' = "await"
    /\ UNCHANGED <<level, asked, ret, exiting, stage, ha, svVars, msgVars,
                   pstate, told, holders, crashes>>

(* ... the wait for the group... *)
GroupEnded ==
    /\ pc = "await"
    /\ \A p \in Group[stage] : ~Alive(p)
    /\ stage' = stage + 1
    /\ pc' = "kill"
    /\ UNCHANGED <<level, asked, ret, exiting, ha, svVars, msgVars, procVars>>

(* exit_with_failure: the processes of S end without cleanup, the           *)
(* supervisor together with its units.  The reference of a history syncer   *)
(* stays counted.                                                           *)
Die(S) ==
    /\ pstate' = [p \in Proc |-> IF Alive(p) /\ (p \in S \/ (Sup \in S /\ p \in Unit))
                                 THEN "ended" ELSE pstate[p]]
    /\ svpc' = IF Sup \in S THEN "off" ELSE svpc
    /\ UNCHANGED <<reported, runlevel, subs, runstate, msgVars, told, holders>>

(* ... and its timeout, which exists only when the exit is a failure.  All  *)
(* processes are then killed (SIGHUP is not blocked and its handler exits), *)
(* except that a supervisor that is late is left for the end.               *)
GroupTimeout ==
    /\ pc = "await" /\ exiting = "fail"
    /\ \E p \in Group[stage] : Alive(p)
    /\ \/ /\ Group[stage] = {Sup}
          /\ stage' = stage + 1 /\ pc' = "kill"
          /\ UNCHANGED <<svVars, msgVars, pstate, told, holders>>
       \/ /\ Group[stage] # {Sup}
          /\ Die(Child)
          /\ UNCHANGED <<stage, pc>>
    /\ UNCHANGED <<level, asked, ret, exiting, ha, signalled, crashes>>

(* The rest: the idle processes, and the supervisor if it timed out, are    *)
(* killed and the main process exits.                                       *)
KillRest ==
    /\ pc = "kill" /\ stage > Len(Group)
    /\ Die(Child)
    /\ pc' = "exited"
    /\ UNCHANGED <<level, asked, ret, exiting, stage, ha, signalled, crashes>>

-----------------------------------------------------------------------------
(* The supervisor. *)

(* supervisor_init and the subscription of the supervisor's service. *)
SupervisorStart ==
    /\ pstate[Sup] = "forked"
    /\ pstate' = [pstate EXCEPT ![Sup] = "subscribed"]
    /\ svpc' = "loop"
    /\ UNCHANGED <<mainVars, reported, runlevel, subs, runstate, msgVars, told, signalled, holders, crashes>>

(* The first run level from r that has a pending process. *)
Pending(done) == {i \in Levels : \E p \in AtLevel(Proc, i) : p \notin done}
UpdateRunlevel(r, done) ==
    CHOOSE i \in Pending(done) : i >= r /\ \A j \in Pending(done) : j >= r => i <= j

UnitCrashed == \E u \in Unit : pstate[u] = "crashed"

(* The end of an iteration that was no shutdown: supervisor_start_units up  *)
(* to run level r, and the check for units that have exited.                *)
Forced(failed) ==
    runlevel # LastLevel \/ failed \/ \E u \in Unit : Level[u] = LastLevel /\ u \notin reported
SetRunstate(rs, failed) ==
    [u \in Unit |-> IF rs[u] # "running" THEN rs[u]
                    ELSE IF Forced(failed) THEN "aborting" ELSE "stopping"]
StartUnits(r) ==
    LET new == {u \in Unit : runlevel < Level[u] /\ Level[u] <= r}
    IN  /\ pstate' = [p \in Proc |-> IF p \in new THEN "forked" ELSE pstate[p]]
        /\ runstate' = [u \in Unit |-> IF u \in new THEN "running" ELSE runstate[u]]
        /\ runlevel' = r

(* supervisor_handle_proc_start *)
HandleReport(p) ==
    /\ svpc = "loop" /\ p \in reports
    /\ reports' = reports \ {p}
    /\ reported' = reported \cup {p}
    /\ LET r == IF Level[p] = runlevel THEN UpdateRunlevel(runlevel, reported \cup {p})
                ELSE runlevel
           reached == {i \in subs : i <= r}
       IN  /\ StartUnits(r)
           /\ subs' = IF r = runlevel THEN subs ELSE subs \ reached
           /\ oks' = IF r = runlevel THEN oks ELSE oks + Cardinality(reached)
    /\ UNCHANGED <<mainVars, svpc, waits, told, signalled, holders, crashes>>

(* MUTANT: a wait is answered one run level too early. *)
HandleWaitEarly ==
    /\ svpc = "loop" /\ waits # <<>>
    /\ waits' = Tail(waits)
    /\ \/ /\ Head(waits) <= runlevel + 1
          /\ oks' = oks + 1
          /\ UNCHANGED subs
       \/ /\ Head(waits) > runlevel + 1
          /\ subs' = subs \cup {Head(waits)}
          /\ UNCHANGED oks
    /\ UNCHANGED <<mainVars, reported, runlevel, svpc, runstate, reports, procVars>>

(* supervisor_handle_runlevel_sub *)
HandleWait ==
    /\ svpc = "loop" /\ waits # <<>>
    /\ waits' = Tail(waits)
    /\ \/ /\ Head(waits) <= runlevel
          /\ oks' = oks + 1
          /\ UNCHANGED subs
       \/ /\ Head(waits) > runlevel
          /\ subs' = subs \cup {Head(waits)}
          /\ UNCHANGED oks
    /\ UNCHANGED <<mainVars, reported, runlevel, svpc, runstate, reports, procVars>>

(* The loop ends: by the shutdown message or because a unit has exited.     *)
(* The units that run are told to stop, or to abort.                        *)
SupervisorStop ==
    /\ svpc = "loop"
    /\ Sup \in told \/ UnitCrashed
    /\ svpc' = "join"
    /\ runstate' = SetRunstate(runstate, UnitCrashed)
    /\ UNCHANGED <<mainVars, reported, runlevel, subs, msgVars, procVars>>

(* supervisor_clear joins every unit; then the process exits. *)
SupervisorEnd ==
    /\ svpc = "join"
    /\ \A u \in Unit : pstate[u] \in {"none", "ended", "crashed"}
    /\ pstate' = [pstate EXCEPT ![Sup] = "ended"]
    /\ svpc' = "off"
    /\ UNCHANGED <<mainVars, reported, runlevel, subs, runstate, msgVars, told, signalled, holders, crashes>>

-----------------------------------------------------------------------------
(* The processes and units. *)

(* Initialisation up to the RTC subscription, after which a process that    *)
(* does not report is in its main loop.  A history syncer has acquired its  *)
(* reference to the history cache before it subscribes.                     *)
Subscribe(p) ==
    /\ p # Sup /\ pstate[p] = "forked"
    /\ pstate' = [pstate EXCEPT ![p] = IF p \in Reporter THEN "subscribed" ELSE "up"]
    /\ holders' = IF p \in Syncer THEN holders \cup {p} ELSE holders
    /\ UNCHANGED <<mainVars, svVars, msgVars, told, signalled, crashes>>

(* zbx_supervisor_set_process_running, and the main loop of the process. *)
ReportRunning(p) ==
    /\ pstate[p] = "subscribed"
    /\ pstate' = [pstate EXCEPT ![p] = "up"]
    /\ reports' = reports \cup {p}
    /\ UNCHANGED <<mainVars, svVars, waits, oks, told, signalled, holders, crashes>>

Ends(p) == pstate' = [pstate EXCEPT ![p] = "ended"]

(* MUTANT: the CEP manager does not wait for the history syncers. *)
UnitStopsAtOnce(u) ==
    /\ pstate[u] = "up"
    /\ \/ u \in DirectUnit \cup Cep /\ (u \in told \/ runstate[u] # "running")
       \/ u \in Preproc /\ runstate[u] \in {"stopping", "aborting"}
    /\ Ends(u)
    /\ UNCHANGED <<mainVars, svVars, msgVars, told, signalled, holders, crashes>>

(* How the units stop. *)
UnitStops(u) ==
    /\ pstate[u] = "up"
    /\ \/ u \in DirectUnit /\ (u \in told \/ runstate[u] # "running")
       \/ u \in Cep /\ (u \in told \/ runstate[u] # "running") /\ holders = {}
       \/ u \in Preproc /\ runstate[u] \in {"stopping", "aborting"}
    /\ Ends(u)
    /\ UNCHANGED <<mainVars, svVars, msgVars, told, signalled, holders, crashes>>

StopRequested(p) == p \in told \cup signalled

(* MUTANT: workers leave at the shutdown message already. *)
ChildStopsTold(p) ==
    /\ pstate[p] = "up" /\ StopRequested(p)
    /\ \/ p \in Collector \cup Worker /\ Ends(p)
       \/ p \in Plain /\ pstate' = [pstate EXCEPT ![p] = "idle"]
    /\ UNCHANGED <<mainVars, svVars, msgVars, told, signalled, holders, crashes>>

(* Collectors and workers leave their loop and exit, workers (the connector *)
(* manager, the configuration worker) not at the shutdown message but at    *)
(* the signal.  The processes without a priority become idle.               *)
ChildStops(p) ==
    /\ pstate[p] = "up" /\ StopRequested(p)
    /\ \/ p \in Collector /\ Ends(p)
       \/ p \in Worker /\ p \in signalled /\ Ends(p)
       \/ p \in Plain /\ pstate' = [pstate EXCEPT ![p] = "idle"]
    /\ UNCHANGED <<mainVars, svVars, msgVars, told, signalled, holders, crashes>>

(* A history syncer, after its last synchronisation, releases its           *)
(* reference... *)
SyncerReleases(p) ==
    /\ p \in Syncer /\ pstate[p] = "up" /\ StopRequested(p)
    /\ pstate' = [pstate EXCEPT ![p] = "released"]
    /\ holders' = holders \ {p}
    /\ UNCHANGED <<mainVars, svVars, msgVars, told, signalled, crashes>>

(* ... and waits until all the others have. *)
SyncerEnds(p) ==
    /\ p \in Syncer /\ pstate[p] = "released" /\ holders = {}
    /\ Ends(p)
    /\ UNCHANGED <<mainVars, svVars, msgVars, told, signalled, holders, crashes>>

Crash(p) ==
    /\ p \in Mortal /\ p \in Child /\ Alive(p) /\ crashes < MaxCrashes
    /\ crashes' = crashes + 1
    /\ Die({p})
    /\ UNCHANGED <<mainVars, signalled>>

(* A fatal signal in a unit ends its thread and is counted in unit_exit_num. *)
UnitCrash(u) ==
    /\ u \in Mortal /\ pstate[u] \in {"forked", "subscribed", "up"} /\ crashes < MaxCrashes
    /\ crashes' = crashes + 1
    /\ pstate' = [pstate EXCEPT ![u] = "crashed"]
    /\ UNCHANGED <<mainVars, svVars, msgVars, told, signalled, holders>>

-----------------------------------------------------------------------------
Main == \/ StartProcesses \/ Connect \/ PollAsk \/ PollOk \/ PollTimeout
        \/ MainLoop \/ Teardown \/ ShutdownSubs
        \/ KillGroup \/ GroupEnded \/ GroupTimeout \/ KillRest

SupervisorStep == \/ SupervisorStart \/ SupervisorStop \/ SupervisorEnd \/ HandleWait
                  \/ \E p \in Proc : HandleReport(p)

ProcStep(p) == \/ Subscribe(p) \/ ReportRunning(p)
               \/ p \in Unit /\ UnitStops(p)
               \/ p \in Child /\ (ChildStops(p) \/ SyncerReleases(p) \/ SyncerEnds(p))

Environment == \/ Terminate
               \/ \E p \in Child : Crash(p)
               \/ \E u \in Unit : UnitCrash(u)

Next == Main \/ SupervisorStep \/ Environment \/ \E p \in Proc : ProcStep(p)

Spec == Init /\ [][Next]_vars

(* The operating system schedules every process, and every wait has either  *)
(* an end or a timeout that expires.  Nothing makes a process crash, the    *)
(* node lose its status or an operator stop the server.                     *)
FairSpec == /\ Spec
            /\ WF_vars(Main)
            /\ WF_vars(SupervisorStep)
            /\ \A p \in Proc : WF_vars(ProcStep(p))
-----------------------------------------------------------------------------
(* Properties. *)

LowerReported(p) == \A q \in Proc : Level[q] < Level[p] => q \in reported

(* Every variable stays in its range; the lives of the supervisor's loop    *)
(* and of the supervisor process agree.                                     *)
TypeOK ==
    /\ pc \in {"start", "connect", "poll", "run", "stop", "kill", "await",
               "exited", "standby"}
    /\ level \in Levels /\ asked \in Levels
    /\ ret \in {"succeed", "fail"} /\ exiting \in {"none", "success", "fail"}
    /\ stage \in 1..(Len(Group) + 1)
    /\ ha \in {"active", "standby", "error"}
    /\ pstate \in [Proc -> {"none", "forked", "subscribed", "up", "released", "idle",
                            "crashed", "ended"}]
    /\ told \subseteq Proc /\ signalled \subseteq Proc
    /\ holders \subseteq Syncer /\ crashes \in Nat
    /\ waits \in Seq(Levels) /\ oks \in Nat /\ reports \subseteq Proc
    /\ reported \subseteq Proc /\ runlevel \in Levels /\ subs \subseteq Levels
    /\ svpc \in {"off", "loop", "join"}
    /\ runstate \in [Unit -> {"idle", "running", "stopping", "aborting"}]

(* The run level is never ahead of the processes: every process of a lower  *)
(* level has reported to run (supervisor_update_runlevel).                  *)
RunlevelTrue == \A p \in Proc : Level[p] < runlevel => p \in reported

(* No unit is started before all processes and units of the lower run       *)
(* levels have reported to run (supervisor_start_units), and no process of  *)
(* the main process either while the node is active; when the startup has   *)
(* failed this leaves out the level at which it did (server_startup).       *)
StartOrder ==
    /\ \A u \in Unit : pstate[u] # "none" => LowerReported(u)
    /\ ha = "active" =>
         \A p \in Child : (pstate[p] # "none" /\ (ret = "fail" => Level[p] < level))
                              => LowerReported(p)

(* No process is ever started before all processes and units of the lower   *)
(* run levels have reported to run.                                         *)
AlwaysInOrder == \A p \in Child : pstate[p] # "none" => LowerReported(p)

(* The CEP manager does not leave while a history syncer still counts on it *)
(* (cep_manager.c waits for the refcount), unless the startup is broken off *)
(* or another unit crashed before the history syncers acquired it.          *)
CepServesSyncers ==
    (ret = "succeed" /\ ha = "active" /\ svpc # "off" /\ ~UnitCrashed) =>
        \A c \in Cep, s \in Syncer : pstate[c] = "ended" => pstate[s] # "up"

(* In a graceful shutdown the connector manager and the configuration       *)
(* worker outlive the history syncers and the units that send to them       *)
(* (zbx_threads_kill_and_wait).                                             *)
WorkersLast ==
    (exiting = "success" /\ crashes = 0 /\ ha = "active") =>
        \A w \in Worker : pstate[w] = "ended" =>
            \A p \in Syncer \cup Unit : pstate[p] \in {"none", "ended"}

(* A server that is exiting gets to its end: the waits of the main process, *)
(* of the supervisor, of the CEP manager and of the history syncers do not  *)
(* form a cycle.  The exception is a history syncer that died without       *)
(* releasing its reference in a shutdown that has no timeouts.              *)
LostReference == exiting = "success" /\ \E s \in holders : pstate[s] = "ended"
ShutdownEnds == (exiting # "none") ~> (pc \in {"exited", "standby"} \/ LostReference)

(* The startup ends: with a running server, in standby or by the exit.      *)
StartupEnds == <>(pc \notin {"start", "connect", "poll"} \/ UnitCrashed)

(* "a supervisor unit has exited, terminating": when a unit crashes the     *)
(* server terminates.                                                       *)
UnitCrashTerminates == UnitCrashed ~> (exiting # "none" \/ ha # "active")
=============================================================================
