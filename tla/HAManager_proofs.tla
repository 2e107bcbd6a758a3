-------------------------- MODULE HAManager_proofs --------------------------
(***************************************************************************)
(* Proofs about HAManager, for every number of servers, every assignment   *)
(* of names and every choice of delays, outcomes and events: first the     *)
(* types and the registry in the database, then that the managers          *)
(* implement the lease of ActiveNode.                                      *)
(***************************************************************************)
EXTENDS HAManager, TLAPS

---------------------------------------------------------------------------
(* Types of the operators the actions are built from. *)

(* What ha_manager_thread starts with is a manager state. *)
LEMMA StartedInfoType ==
  ASSUME NEW status \in Statuses
  PROVE  StartedInfo(status) \in Info /\ OffInfo \in Info
<1>1. StartedInfo(status) \in Info
  BY ConfigAssumption DEF StartedInfo, Info, Phases, Statuses
<1>2. StartedInfo("unknown") \in Info
  BY ConfigAssumption DEF StartedInfo, Info, Phases, Statuses
<1>3. OffInfo \in Info
  BY <1>2 DEF OffInfo, Info, Phases
<1> QED  BY <1>1, <1>3

(* The rest of a tick leaves a manager state. *)
LEMMA ResumedType ==
  ASSUME NEW s \in Servers, NEW i \in Info
  PROVE  Resumed(s, i) \in Info
<1>1. ASSUME NEW pc \in Phases, NEW tick \in BOOLEAN, NEW nextcheck \in Nat
      PROVE  [i EXCEPT !.pc = pc, !.tick = tick, !.nextcheck = nextcheck] \in Info
  BY DEF Info
<1>2. PollPeriod \in Nat /\ 3 * PollPeriod \in Nat
  BY ConfigAssumption
<1>3. (IF i.ha_status = "error" THEN "paused" ELSE "loop") \in Phases
  BY DEF Phases
<1>4. (info[s].pc \in {"init_create", "init_register"}) \in BOOLEAN
  OBVIOUS
<1>5. (IF info[s].pc \in {"init_create", "init_register"}
         THEN IF i.ha_status = "standby" THEN 3 * PollPeriod ELSE PollPeriod
         ELSE IF i.db_status = "ok" THEN PollPeriod ELSE 1) \in Nat
  BY <1>2
<1> QED  BY <1>1, <1>3, <1>4, <1>5, Zenon DEF Resumed

LEMMA ResumeType ==
  ASSUME info \in [Servers -> Info], NEW s \in Servers, NEW i \in Info, Resume(s, i)
  PROVE  info' \in [Servers -> Info]
BY ResumedType DEF Resume

LEMMA ToRegisterType ==
  ASSUME info \in [Servers -> Info], NEW s \in Servers, NEW i \in Info, ToRegister(s, i)
  PROVE  info' \in [Servers -> Info]
<1>1. CASE i.ha_nodeid = 0
  BY <1>1, ResumeType DEF ToRegister
<1>2. CASE i.ha_nodeid # 0
  <2>1. [i EXCEPT !.pc = IF @ = "create" THEN "register" ELSE "init_register"] \in Info
    BY DEF Info, Phases
  <2> QED  BY <1>2, <2>1 DEF ToRegister
<1> QED  BY <1>1, <1>2

(* Rows written by the registry updates are rows. *)
LEMMA RowTypes ==
  ASSUME TypeOK, NEW n \in Names, NEW status \in RowStatuses
  PROVE  /\ Touched(n, status) \in Row
         /\ MarkUnavailable(n) \in Row
         /\ NoRow \in Row
         /\ NewRow(nextid) \in Row
         /\ \A session \in Nat : [Touched(n, status) EXCEPT !.session = session] \in Row
BY DEF TypeOK, Touched, MarkUnavailable, NoRow, NewRow, Row, RowStatuses

(* What CheckNodes knows of the manager once the row was found. *)
LEMMA CheckedInfoType ==
  ASSUME TypeOK, NEW s \in Servers, NEW o \in Outcomes
  PROVE  /\ CheckedInfo(s, o) \in Info
         /\ CheckedInfo(s, o).ha_status = info[s].ha_status
<1>1. info[s] \in Info /\ settings \in Nat /\ ha_node[NameOf[s]].nodeid \in Nat
  BY ConfigAssumption DEF TypeOK, Row
<1>2. DbStatus(o) \in {"ok", "down", "fail"}
  BY DEF DbStatus
<1>3. (IF info[s].ha_nodeid = 0 THEN ha_node[NameOf[s]].nodeid ELSE info[s].ha_nodeid) \in Nat
  BY <1>1 DEF Info
<1> QED  BY <1>1, <1>2, <1>3 DEF CheckedInfo, Info

LEMMA WatchedType ==
  ASSUME NEW i \in Info, NEW row \in Row
  PROVE  Watched(i, row) \in Info
<1>1. (IF row.lastaccess # i.lastaccess_active THEN 0 ELSE i.offline_ticks_active + 1) \in Nat
  BY DEF Info
<1> QED  BY <1>1 DEF Watched, Info, Row

---------------------------------------------------------------------------
(* The steps of Next leave states of the types TypeOK gives.  A check      *)
(* writes the manager's status into its row, so the proof needs that a     *)
(* manager in its loop is not in error status (Running).                   *)

TypeInv == TypeOK /\ Running

(* What the main process of a server may do to its manager at any time; in *)
(* Next the constant Events chooses from these steps.  HACluster takes     *)
(* them in the situations of the main process.                             *)
Ordered(s) ==
  \/ KillManager(s) \/ RestartManager(s) \/ Pause(s)
  \/ \E o \in Outcomes : Stop(s, o)
  \/ \E n \in Names, o \in Outcomes : RemoveNodeCheck(s, n, o)
  \/ \E d \in Delays, o \in Outcomes : SetFailoverDelay(s, d, o)

Step ==
  \/ \E s \in Servers : StartServer(s) \/ ManagerStep(s) \/ Ordered(s)
  \/ Tick

LEMMA NextStep == Next => Step
BY DEF Next, Step, Environment, Ordered

(* The end of a database step: the manager goes on with the state i. *)
LEMMA ResumeInv ==
  ASSUME TypeInv, NEW s \in Servers, NEW i \in Info, Resume(s, i),
         info[s].pc # "off", UNCHANGED ha_sessionid
  PROVE  info' \in [Servers -> Info] /\ Running'
<1>1. info' \in [Servers -> Info]
  BY ResumeType DEF TypeInv, TypeOK
<1>2. Resumed(s, i).pc = (IF i.ha_status = "error" THEN "paused" ELSE "loop")
      /\ Resumed(s, i).ha_status = i.ha_status
  BY DEF Resumed, Info
<1>3. info'[s] = Resumed(s, i) /\ \A t \in Servers \ {s} : info'[t] = info[t]
  BY DEF Resume, TypeInv, TypeOK
<1>4. Running'
  <2> SUFFICES ASSUME NEW t \in Servers
               PROVE  /\ info'[t].pc # "off" => ha_sessionid'[t] # 0
                      /\ info'[t].pc \in {"loop", "remove"} => info'[t].ha_status # "error"
    BY DEF Running
  <2>1. CASE t = s
    BY <2>1, <1>2, <1>3 DEF TypeInv, Running
  <2>2. CASE t # s
    BY <2>2, <1>3 DEF TypeInv, Running
  <2> QED  BY <2>1, <2>2
<1> QED  BY <1>1, <1>4

(* A step that changes the state of one manager to i. *)
LEMMA StepInv ==
  ASSUME TypeInv, NEW s \in Servers, NEW i \in Info,
         info' = [info EXCEPT ![s] = i],
         UNCHANGED ha_sessionid,
         i.pc # "off" => ha_sessionid[s] # 0,
         i.pc \in {"loop", "remove"} => i.ha_status # "error"
  PROVE  info' \in [Servers -> Info] /\ Running'
<1>1. info' \in [Servers -> Info]
  BY DEF TypeInv, TypeOK
<1>2. \A t \in Servers : info'[t] = IF t = s THEN i ELSE info[t]
  BY DEF TypeInv, TypeOK
<1>3. Running'
  BY <1>2 DEF TypeInv, Running
<1> QED  BY <1>1, <1>3

(* ha_db_create_node *)
LEMMA CreateNodeType ==
  ASSUME TypeInv, NEW s \in Servers, NEW o \in Outcomes, CreateNode(s, o)
  PROVE  TypeInv'
<1> DEFINE me == NameOf[s]
           i == [info[s] EXCEPT !.db_status = DbStatus(o), !.failover_delay = settings]
<1>1. /\ info[s] \in Info /\ me \in Names /\ ha_node[me] \in Row
      /\ settings \in Nat /\ nextid \in Nat /\ now \in Nat
      /\ info[s].pc # "off" /\ ha_sessionid[s] # 0
  BY ConfigAssumption DEF TypeInv, TypeOK, CreateNode, Running
<1>2. DbStatus(o) \in {"ok", "down", "fail"}
  BY DEF DbStatus
<1>3. /\ i \in Info
      /\ [info[s] EXCEPT !.db_status = "down"] \in Info
      /\ Failed(info[s]) \in Info /\ Failed(i) \in Info
      /\ [i EXCEPT !.ha_nodeid = ha_node[me].nodeid] \in Info
      /\ [i EXCEPT !.ha_nodeid = nextid] \in Info
  BY <1>1, <1>2 DEF Failed, Info, Row, Statuses
<1>4. ASSUME NEW j \in Info, ToRegister(s, j)
      PROVE  info' \in [Servers -> Info] /\ Running'
  <2>1. UNCHANGED ha_sessionid
    BY DEF CreateNode
  <2>2. CASE j.ha_nodeid = 0
    BY <1>1, <1>4, <2>1, <2>2, ResumeInv DEF ToRegister
  <2>3. CASE j.ha_nodeid # 0
    <3> DEFINE k == [j EXCEPT !.pc = IF @ = "create" THEN "register" ELSE "init_register"]
    <3>1. k \in Info /\ k.pc \in {"register", "init_register"}
      BY DEF Info, Phases
    <3>2. info' = [info EXCEPT ![s] = k]
      BY <1>4, <2>3 DEF ToRegister
    <3> HIDE DEF k
    <3> QED  BY <1>1, <2>1, <3>1, <3>2, StepInv
  <2> QED  BY <2>2, <2>3
<1>5. info' \in [Servers -> Info] /\ Running'
  <2>1. UNCHANGED ha_sessionid
    BY DEF CreateNode
  <2>2. \E j \in Info : Resume(s, j) \/ ToRegister(s, j)
    BY <1>3, Zenon DEF CreateNode
  <2> QED  BY <1>1, <1>4, <2>1, <2>2, ResumeInv
<1>6. ha_node' \in [Names -> Row] /\ nextid' \in Nat \ {0}
  <2>1. NewRow(nextid) \in Row
    BY <1>1 DEF NewRow, Row, RowStatuses
  <2>2. \/ UNCHANGED registry
        \/ /\ nextid' = nextid + 1
           /\ ha_node' = IF Applied(o) THEN [ha_node EXCEPT ![me] = NewRow(nextid)]
                                       ELSE ha_node
    BY DEF CreateNode
  <2> QED  BY <1>1, <2>1, <2>2 DEF TypeInv, TypeOK, registry
<1>7. settings' = settings /\ now' = now /\ ha_sessionid' = ha_sessionid
  BY DEF CreateNode, registry
<1> QED  BY <1>5, <1>6, <1>7 DEF TypeInv, TypeOK

(* ha_db_register_node *)
LEMMA RegisterNodeType ==
  ASSUME TypeInv, NEW s \in Servers, NEW o \in Outcomes, RegisterNode(s, o)
  PROVE  TypeInv'
<1> DEFINE i == [info[s] EXCEPT !.db_status = DbStatus(o)]
<1>1. info[s] \in Info /\ ha_sessionid[s] \in Nat /\ info[s].pc # "off"
  BY DEF TypeInv, TypeOK, RegisterNode
<1>2. /\ i \in Info /\ Failed(i) \in Info
      /\ \A status \in {"active", "standby"} : [i EXCEPT !.ha_status = status] \in Info
  BY <1>1 DEF Failed, DbStatus, Info, Statuses
<1>3. \E j \in Info : Resume(s, j)
  <2> DEFINE status == IF Activate(s, info[s].failover_delay) THEN "active" ELSE "standby"
  <2>1. Resume(s, i) \/ Resume(s, Failed(i)) \/ Resume(s, [i EXCEPT !.ha_status = status])
    BY Zenon DEF RegisterNode
  <2>2. status \in {"active", "standby"}
    OBVIOUS
  <2> QED  BY <1>2, <2>1, <2>2, Zenon
<1>4. \A status \in {"active", "standby"} : Registered(s, status) \in [Names -> Row]
  <2> TAKE status \in {"active", "standby"}
  <2>1. ASSUME NEW n \in Names
        PROVE  /\ NoRow \in Row /\ MarkUnavailable(n) \in Row /\ ha_node[n] \in Row
               /\ [Touched(n, status) EXCEPT !.session = ha_sessionid[s]] \in Row
    BY <1>1, RowTypes DEF TypeInv, TypeOK, RowStatuses
  <2> QED  BY <2>1, Zenon DEF Registered
<1>5. ha_node' \in [Names -> Row]
  <2>1. ha_node' = ha_node \/ \E status \in {"active", "standby"} :
                                ha_node' = Registered(s, status)
    BY DEF RegisterNode
  <2> QED  BY <1>4, <2>1 DEF TypeInv, TypeOK
<1>6. UNCHANGED <<settings, nextid, now, ha_sessionid>>
  BY DEF RegisterNode
<1> QED  BY <1>1, <1>3, <1>5, <1>6, ResumeInv DEF TypeInv, TypeOK

(* A check that found the row of s, and the status it goes on with. *)
LEMMA CheckOwnedType ==
  ASSUME TypeInv, NEW s \in Servers, NEW o \in Outcomes, CheckOwned(s, o)
  PROVE  /\ info[s].pc = "loop"
         /\ NameOf[s] \in Names
         /\ ha_sessionid[s] # 0
         /\ info[s].ha_status \in {"standby", "active"}
         /\ CheckedInfo(s, o) \in Info
         /\ CheckedInfo(s, o).ha_status = info[s].ha_status
         /\ UNCHANGED <<settings, nextid, now, ha_sessionid>>
<1>1. /\ info[s].pc = "loop" /\ info[s].ha_status # "unknown" /\ info[s] \in Info
      /\ UNCHANGED <<settings, nextid, now, ha_sessionid>>
  BY DEF CheckOwned, CheckStart, CheckDue, TypeInv, TypeOK
<1>2. ha_sessionid[s] # 0 /\ info[s].ha_status # "error"
  BY <1>1 DEF TypeInv, Running
<1>3. info[s].ha_status \in {"standby", "active"}
  BY <1>1, <1>2 DEF Info, Statuses
<1> QED  BY <1>1, <1>2, <1>3, CheckedInfoType, ConfigAssumption DEF TypeInv

(* The end of a passive node's check. *)
LEMMA EndPassiveType ==
  ASSUME TypeInv, NEW s \in Servers, NEW o \in Outcomes, NEW i \in Info,
         NEW status \in {"active", "standby"}, NEW taken,
         info[s].pc # "off",
         EndPassive(s, o, i, status, taken),
         UNCHANGED <<settings, nextid, now, ha_sessionid>>
  PROVE  TypeInv'
<1>1. Passed(i, status, taken) \in [Names -> Row]
  <2>1. ASSUME NEW n \in Names
        PROVE  Touched(n, status) \in Row /\ MarkUnavailable(n) \in Row /\ ha_node[n] \in Row
    BY RowTypes DEF TypeInv, TypeOK, RowStatuses
  <2> QED  BY <2>1, Zenon DEF Passed
<1>2. ha_node' \in [Names -> Row]
  BY <1>1 DEF EndPassive, TypeInv, TypeOK
<1>3. [i EXCEPT !.ha_status = status] \in Info
  BY DEF Info, Statuses
<1>4. info' \in [Servers -> Info] /\ Running'
  BY <1>3, ResumeInv DEF EndPassive
<1> QED  BY <1>2, <1>4 DEF TypeInv, TypeOK

(* ha_check_nodes *)
LEMMA CheckNodesType ==
  ASSUME TypeInv, NEW s \in Servers, CheckNodes(s)
  PROVE  TypeInv'
<1>1. ASSUME NEW j \in Info, Resume(s, j), info[s].pc = "loop",
             ha_node' \in [Names -> Row],
             UNCHANGED <<settings, nextid, now, ha_sessionid>>
      PROVE  TypeInv'
  BY <1>1, ResumeInv DEF TypeInv, TypeOK
<1>2. ASSUME NEW i \in Info, NEW status \in {"active", "standby"}, NEW n \in Names
      PROVE  Touched(n, status) \in Row /\ MarkUnavailable(n) \in Row /\ ha_node[n] \in Row
  BY RowTypes DEF TypeInv, TypeOK, RowStatuses
<1>3. info[s] \in Info /\ ha_node \in [Names -> Row]
  BY DEF TypeInv, TypeOK
<1>4. CASE CheckNoDatabase(s)
  <2>1. [info[s] EXCEPT !.db_status = "down"] \in Info
    BY <1>3 DEF Info
  <2> QED  BY <1>1, <1>3, <1>4, <2>1 DEF CheckNoDatabase, CheckStart, CheckDue
<1>5. ASSUME NEW o \in Outcomes, CheckError(s, o)
      PROVE  TypeInv'
  <2>1. Failed([info[s] EXCEPT !.db_status = DbStatus(o)]) \in Info
    BY <1>3 DEF Failed, DbStatus, Info, Statuses
  <2> QED  BY <1>1, <1>3, <1>5, <2>1 DEF CheckError, CheckStart, CheckDue
<1>6. ASSUME NEW o \in Outcomes, CheckStandalone(s, o)
      PROVE  TypeInv'
  <2> DEFINE i == CheckedInfo(s, o)
  <2>1. CheckOwned(s, o)
    BY <1>6 DEF CheckStandalone
  <2>2. i \in Info /\ i.ha_status \in {"active", "standby"}
    BY <2>1, CheckOwnedType
  <2>3. ha_node' \in [Names -> Row]
    BY <1>2, <1>3, <1>6, <2>2, Zenon DEF CheckStandalone
  <2> QED  BY <1>1, <1>6, <2>1, <2>2, <2>3, CheckOwnedType DEF CheckStandalone
<1>7. ASSUME NEW o \in Outcomes, CheckSplitBrain(s, o)
      PROVE  TypeInv'
  <2> DEFINE i == CheckedInfo(s, o)
  <2>1. CheckOwned(s, o) /\ ha_node' = ha_node
    BY <1>7 DEF CheckSplitBrain
  <2>2. i \in Info
    BY <2>1, CheckOwnedType
  <2>3. [i EXCEPT !.ha_status = "standby"] \in Info
    BY <2>2 DEF Info, Statuses
  <2>4. Resume(s, i) \/ Resume(s, [i EXCEPT !.ha_status = "standby"])
    BY <1>7 DEF CheckSplitBrain
  <2> QED  BY <1>1, <1>3, <2>1, <2>2, <2>3, <2>4, CheckOwnedType
<1>8. ASSUME NEW o \in Outcomes, CheckActive(s, o)
      PROVE  TypeInv'
  <2> DEFINE i == CheckedInfo(s, o)
  <2>1. CheckOwned(s, o)
    BY <1>8 DEF CheckActive
  <2>2. i \in Info
    BY <2>1, CheckOwnedType
  <2>3. ha_node' \in [Names -> Row]
    BY <1>2, <1>3, <1>8, <2>2, Zenon DEF CheckActive
  <2> QED  BY <1>1, <1>8, <2>1, <2>2, <2>3, CheckOwnedType DEF CheckActive
<1>9. ASSUME NEW o \in Outcomes, CheckPassive(s, o)
      PROVE  TypeInv'
  <2> DEFINE i == CheckedInfo(s, o)
  <2>1. CheckOwned(s, o)
    BY <1>9 DEF CheckPassive
  <2>2. i \in Info /\ Failed(i) \in Info /\ info[s].pc = "loop"
        /\ UNCHANGED <<settings, nextid, now, ha_sessionid>>
    BY <2>1, CheckOwnedType DEF Failed, Info, Statuses
  <2>3. \A a \in Names : Watched(i, ha_node[a]) \in Info
    BY <1>3, <2>2, WatchedType
  <2>4. \/ Resume(s, Failed(i)) /\ ha_node' = ha_node
        \/ \E j \in Info, status \in {"active", "standby"}, taken \in {{}} \union {{a} : a \in Names} :
             EndPassive(s, o, j, status, taken)
    BY <1>9, <2>2, <2>3 DEF CheckPassive
  <2>5. CASE Resume(s, Failed(i)) /\ ha_node' = ha_node
    BY <1>1, <1>3, <2>2, <2>5
  <2>6. ASSUME NEW j \in Info, NEW status \in {"active", "standby"}, NEW taken,
               EndPassive(s, o, j, status, taken)
        PROVE  TypeInv'
    BY <2>2, <2>6, EndPassiveType
  <2> QED  BY <2>4, <2>5, <2>6
<1> QED  BY <1>4, <1>5, <1>6, <1>7, <1>8, <1>9 DEF CheckNodes

(* Ticks, commands, pause and exit. *)
LEMMA ManagerStepType ==
  ASSUME TypeInv, NEW s \in Servers, ManagerStep(s)
  PROVE  TypeInv'
<1>1. info[s] \in Info /\ ha_node \in [Names -> Row] /\ NoRow \in Row /\ now \in Nat
  BY DEF TypeInv, TypeOK, NoRow, Row, RowStatuses
<1>2. ASSUME NEW i \in Info,
             info' = [info EXCEPT ![s] = i],
             i.pc # "off" => info[s].pc # "off",
             i.pc \in {"loop", "remove"} => i.ha_status # "error",
             ha_node' \in [Names -> Row],
             UNCHANGED <<settings, nextid, now, ha_sessionid>>
      PROVE  TypeInv'
  <2>1. i.pc # "off" => ha_sessionid[s] # 0
    BY <1>2 DEF TypeInv, Running
  <2> QED  BY <1>2, <2>1, StepInv DEF TypeInv, TypeOK
<1>3. CASE ManagerTick(s)
  <2> DEFINE i == [info[s] EXCEPT !.nextcheck = @ - 1, !.tick = FALSE]
  <2>1. info' = [info EXCEPT ![s] = i] /\ info[s].pc = "loop" /\ info[s].nextcheck > 1
        /\ UNCHANGED <<ha_node, settings, nextid, now, ha_sessionid>>
    BY <1>3 DEF ManagerTick, registry
  <2>2. info[s].nextcheck - 1 \in Nat
    BY <1>1, <2>1 DEF Info
  <2>3. i \in Info /\ i.pc = "loop" /\ i.ha_status = info[s].ha_status
    BY <1>1, <2>1, <2>2 DEF Info
  <2>4. i.ha_status # "error"
    BY <2>1, <2>3 DEF TypeInv, Running
  <2> HIDE DEF i
  <2> QED  BY <1>1, <1>2, <2>1, <2>3, <2>4
<1>4. CASE RegisterAgain(s)
  <2> DEFINE i == [info[s] EXCEPT !.pc = "create"]
  <2>1. info' = [info EXCEPT ![s] = i] /\ info[s].pc = "loop"
        /\ UNCHANGED <<ha_node, settings, nextid, now, ha_sessionid>>
    BY <1>4 DEF RegisterAgain, CheckDue, registry
  <2>2. i \in Info /\ i.pc = "create"
    BY <1>1 DEF Info, Phases
  <2> HIDE DEF i
  <2> QED  BY <1>1, <1>2, <2>1, <2>2
<1>5. CASE CheckNodes(s)
  BY <1>5, CheckNodesType
<1>6. ASSUME NEW o \in Outcomes, CreateNode(s, o)
      PROVE  TypeInv'
  BY <1>6, CreateNodeType
<1>7. ASSUME NEW o \in Outcomes, RegisterNode(s, o)
      PROVE  TypeInv'
  BY <1>7, RegisterNodeType
<1>8. ASSUME NEW o \in Outcomes, RemoveNodeDelete(s, o)
      PROVE  TypeInv'
  <2> DEFINE i == [info[s] EXCEPT !.removing = 0, !.db_status = DbStatus(o),
                                  !.pc = IF o = "fail" THEN "paused" ELSE "loop",
                                  !.ha_status = IF o = "fail" THEN "error" ELSE @]
  <2>1. /\ info' = [info EXCEPT ![s] = i] /\ info[s].pc = "remove"
        /\ UNCHANGED <<settings, nextid, now, ha_sessionid>>
    BY <1>8 DEF RemoveNodeDelete
  <2>2. i \in Info
    BY <1>1 DEF DbStatus, Info, Phases, Statuses
  <2>3. i.pc = (IF o = "fail" THEN "paused" ELSE "loop")
        /\ i.ha_status = (IF o = "fail" THEN "error" ELSE info[s].ha_status)
    BY <1>1 DEF Info
  <2>4. i.pc = "loop" => i.ha_status # "error"
    BY <2>1, <2>3 DEF TypeInv, Running
  <2>5. ha_node' \in [Names -> Row]
    BY <1>1, <1>8, Zenon DEF RemoveNodeDelete
  <2> HIDE DEF i
  <2> QED  BY <1>2, <2>1, <2>2, <2>3, <2>4, <2>5
<1>9. ASSUME NEW o \in Outcomes, UpdateLastaccess(s, o)
      PROVE  ha_node' \in [Names -> Row]
  <2>1. \A n \in Names : [ha_node[n] EXCEPT !.lastaccess = now] \in Row
    BY <1>1 DEF Row
  <2> QED  BY <1>1, <1>9, <2>1, Zenon DEF UpdateLastaccess
<1>10. ASSUME NEW o \in Outcomes, PausedUpdate(s, o)
       PROVE  TypeInv'
  <2> DEFINE i == [info[s] EXCEPT !.nextcheck = PollPeriod, !.tick = FALSE,
                                  !.ha_status = PausedStatus(s, o)]
  <2>1. /\ info' = [info EXCEPT ![s] = i] /\ info[s].pc = "paused"
        /\ UNCHANGED <<settings, nextid, now, ha_sessionid>>
    BY <1>10 DEF PausedUpdate
  <2>2. i \in Info /\ i.pc = "paused"
    BY <1>1, <2>1, ConfigAssumption DEF PausedStatus, Info, Statuses
  <2>3. ha_node' \in [Names -> Row]
    BY <1>9, <1>10 DEF PausedUpdate
  <2> HIDE DEF i
  <2> QED  BY <1>2, <2>1, <2>2, <2>3
<1>11. ASSUME NEW o \in Outcomes, UpdateExitStatus(s, o)
       PROVE  TypeInv'
  <2>1. OffInfo \in Info /\ OffInfo.pc = "off"
    BY StartedInfoType DEF OffInfo, StartedInfo, Statuses
  <2>2. \A n \in Names : [ha_node[n] EXCEPT !.status = "stopped"] \in Row
    BY <1>1 DEF Row, RowStatuses
  <2>3. ha_node' \in [Names -> Row]
    BY <1>1, <1>11, <2>2, Zenon DEF UpdateExitStatus
  <2> QED  BY <1>2, <1>11, <2>1, <2>3 DEF UpdateExitStatus
<1>12. CASE PausedWait(s)
  <2> DEFINE i == [info[s] EXCEPT !.nextcheck = @ - 1, !.tick = FALSE]
  <2>1. info' = [info EXCEPT ![s] = i] /\ info[s].pc = "paused" /\ info[s].nextcheck > 1
        /\ UNCHANGED <<ha_node, settings, nextid, now, ha_sessionid>>
    BY <1>12 DEF PausedWait, registry
  <2>2. info[s].nextcheck - 1 \in Nat
    BY <1>1, <2>1 DEF Info
  <2>3. i \in Info /\ i.pc = "paused"
    BY <1>1, <2>1, <2>2 DEF Info
  <2> HIDE DEF i
  <2> QED  BY <1>1, <1>2, <2>1, <2>3
<1> QED  BY <1>3, <1>4, <1>5, <1>6, <1>7, <1>8, <1>10, <1>11, <1>12 DEF ManagerStep

LEMMA RemoveNodeCheckType ==
  ASSUME TypeInv, NEW s \in Servers, NEW n \in Names, NEW o \in Outcomes,
         RemoveNodeCheck(s, n, o)
  PROVE  TypeInv'
<1> DEFINE i == [info[s] EXCEPT !.db_status = DbStatus(o)]
           failed == [Failed(i) EXCEPT !.pc = "paused"]
           checked == [i EXCEPT !.pc = "remove", !.removing = ha_node[n].nodeid]
<1>1. /\ info[s] \in Info /\ ha_node[n] \in Row /\ info[s].pc = "loop"
      /\ info[s].ha_status # "error" /\ ha_sessionid[s] # 0
      /\ UNCHANGED <<ha_node, settings, nextid, now, ha_sessionid>>
  BY DEF RemoveNodeCheck, Receives, TypeInv, TypeOK, Running, registry
<1>2. i \in Info /\ i.pc = "loop" /\ i.ha_status # "error"
  BY <1>1 DEF DbStatus, Info
<1>3. failed \in Info /\ failed.pc = "paused"
  BY <1>2 DEF Failed, Info, Phases, Statuses
<1>4. checked \in Info /\ checked.pc = "remove" /\ checked.ha_status # "error"
  BY <1>1, <1>2 DEF Info, Row, Phases
<1>5. \E j \in {i, failed, checked} : info' = [info EXCEPT ![s] = j]
  BY DEF RemoveNodeCheck
<1> HIDE DEF i, failed, checked
<1>6. info' \in [Servers -> Info] /\ Running'
  BY <1>1, <1>2, <1>3, <1>4, <1>5, StepInv
<1> QED  BY <1>1, <1>6 DEF TypeInv, TypeOK

LEMMA SetFailoverDelayType ==
  ASSUME TypeInv, NEW s \in Servers, NEW delay \in Delays, NEW o \in Outcomes,
         SetFailoverDelay(s, delay, o)
  PROVE  TypeInv'
<1> DEFINE done == info[s].db_status = "ok" /\ Applied(o)
           i == [info[s] EXCEPT
                   !.failover_delay = IF done /\ o = "ok" THEN delay ELSE @,
                   !.db_status = IF info[s].db_status = "ok" THEN DbStatus(o) ELSE @]
<1>1. /\ info[s] \in Info /\ info[s].pc = "loop" /\ info[s].ha_status # "error"
      /\ ha_sessionid[s] # 0 /\ delay \in Nat
      /\ info' = [info EXCEPT ![s] = i]
      /\ settings' \in {settings, delay}
      /\ UNCHANGED <<ha_node, nextid, now, ha_sessionid>>
  BY ConfigAssumption DEF SetFailoverDelay, Receives, TypeInv, TypeOK, Running
<1>2. i \in Info /\ i.pc = "loop" /\ i.ha_status # "error"
  BY <1>1 DEF DbStatus, Info
<1> HIDE DEF i
<1>3. info' \in [Servers -> Info] /\ Running'
  BY <1>1, <1>2, StepInv
<1> QED  BY <1>1, <1>3 DEF TypeInv, TypeOK

LEMMA StopType ==
  ASSUME TypeInv, NEW s \in Servers, NEW o \in Outcomes, Stop(s, o)
  PROVE  TypeInv'
<1> DEFINE i == [info[s] EXCEPT !.pc = "stopping"]
           j == [info[s] EXCEPT !.pc = "stopping", !.ha_status = PausedStatus(s, o)]
<1>1. /\ info[s] \in Info /\ info[s].pc \in {"loop", "paused"} /\ now \in Nat
      /\ ha_sessionid[s] # 0
      /\ info' = [info EXCEPT ![s] = i] \/ info' = [info EXCEPT ![s] = j]
      /\ UNCHANGED <<settings, nextid, now, ha_sessionid>>
  BY DEF Stop, Receives, TypeInv, TypeOK, Running
<1>2. i \in Info /\ i.pc = "stopping" /\ j \in Info /\ j.pc = "stopping"
  BY <1>1 DEF PausedStatus, Info, Phases, Statuses
<1>3. ha_node' \in [Names -> Row]
  <2>1. \A n \in Names : [ha_node[n] EXCEPT !.lastaccess = now] \in Row
    BY <1>1 DEF TypeInv, TypeOK, Row
  <2> QED  BY <2>1, SMTT(30) DEF Stop, UpdateLastaccess, TypeInv, TypeOK
<1> HIDE DEF i, j
<1>4. info' \in [Servers -> Info] /\ Running'
  BY <1>1, <1>2, StepInv
<1> QED  BY <1>1, <1>3, <1>4 DEF TypeInv, TypeOK

LEMMA OrderedType ==
  ASSUME TypeInv, NEW s \in Servers, Ordered(s)
  PROVE  TypeInv'
<1>1. ASSUME NEW i \in Info, info' = [info EXCEPT ![s] = i],
             i.pc # "off" => ha_sessionid[s] # 0,
             i.pc \in {"loop", "remove"} => i.ha_status # "error",
             UNCHANGED <<ha_node, settings, nextid, now, ha_sessionid>>
      PROVE  TypeInv'
  BY <1>1, StepInv DEF TypeInv, TypeOK
<1>2. CASE KillManager(s)
  <2>1. OffInfo \in Info /\ OffInfo.pc = "off"
    BY StartedInfoType DEF OffInfo, StartedInfo, Statuses
  <2> QED  BY <1>1, <1>2, <2>1 DEF KillManager, registry
<1>3. CASE RestartManager(s)
  <2>1. StartedInfo("standby") \in Info /\ StartedInfo("standby").ha_status = "standby"
    BY StartedInfoType DEF StartedInfo, Statuses
  <2> QED  BY <1>1, <1>3, <2>1 DEF RestartManager, registry
<1>4. CASE Pause(s)
  <2> DEFINE i == [info[s] EXCEPT !.pc = "paused", !.nextcheck = PollPeriod]
  <2>1. i \in Info /\ i.pc = "paused"
    BY ConfigAssumption, ZenonT(40) DEF TypeInv, TypeOK, Info, Phases
  <2>2. /\ info' = [info EXCEPT ![s] = i] /\ ha_sessionid[s] # 0
        /\ UNCHANGED <<ha_node, settings, nextid, now, ha_sessionid>>
    BY <1>4 DEF Pause, Receives, registry, TypeInv, Running
  <2> HIDE DEF i
  <2> QED  BY <1>1, <2>1, <2>2
<1> QED  BY <1>2, <1>3, <1>4, StopType, RemoveNodeCheckType, SetFailoverDelayType
         DEF Ordered

LEMMA StartServerType ==
  ASSUME TypeInv, NEW s \in Servers, StartServer(s)
  PROVE  TypeInv'
<1>1. StartedInfo("unknown") \in Info /\ StartedInfo("unknown").pc = "init_create"
  BY StartedInfoType DEF StartedInfo, Statuses
<1>2. /\ info' = [info EXCEPT ![s] = StartedInfo("unknown")]
      /\ nextid \in Nat \ {0} /\ nextid' = nextid + 1
      /\ ha_sessionid' = [ha_sessionid EXCEPT ![s] = nextid]
      /\ UNCHANGED <<ha_node, settings, now>>
  BY DEF StartServer, TypeInv, TypeOK
<1>3. TypeOK'
  BY <1>1, <1>2 DEF TypeInv, TypeOK
<1>4. Running'
  BY <1>1, <1>2 DEF TypeInv, TypeOK, Running
<1> QED  BY <1>3, <1>4 DEF TypeInv

LEMMA TickType ==
  ASSUME TypeInv, Tick
  PROVE  TypeInv'
<1>1. ASSUME NEW s \in Servers
      PROVE  /\ [info[s] EXCEPT !.tick = TRUE] \in Info
             /\ [info[s] EXCEPT !.tick = TRUE].pc = info[s].pc
             /\ [info[s] EXCEPT !.tick = TRUE].ha_status = info[s].ha_status
  BY DEF TypeInv, TypeOK, Info
<1>2. /\ info' = [s \in Servers |->
                    IF info[s].pc = "off" THEN info[s] ELSE [info[s] EXCEPT !.tick = TRUE]]
      /\ now' = now + 1 /\ UNCHANGED <<ha_node, settings, nextid, ha_sessionid>>
  BY DEF Tick, registry
<1>3. \A s \in Servers : /\ info'[s] \in Info /\ info'[s].pc = info[s].pc
                         /\ info'[s].ha_status = info[s].ha_status
  BY <1>1, <1>2 DEF TypeInv, TypeOK
<1>4. TypeOK'
  BY <1>2, <1>3 DEF TypeInv, TypeOK
<1>5. Running'
  BY <1>2, <1>3 DEF TypeInv, Running
<1> QED  BY <1>4, <1>5 DEF TypeInv

LEMMA InitType == Init => TypeInv
<1> SUFFICES ASSUME Init PROVE TypeInv
  OBVIOUS
<1>1. OffInfo \in Info /\ OffInfo.pc = "off"
  BY StartedInfoType DEF OffInfo, StartedInfo, Statuses
<1>2. NoRow \in Row
  BY DEF NoRow, Row, RowStatuses
<1>3. TypeOK
  BY <1>1, <1>2, ConfigAssumption DEF Init, TypeOK
<1>4. Running
  BY <1>1 DEF Init, Running
<1> QED  BY <1>3, <1>4 DEF TypeInv

LEMMA NextType == TypeInv /\ [Step]_vars => TypeInv'
<1> SUFFICES ASSUME TypeInv, [Step]_vars PROVE TypeInv'
  OBVIOUS
<1>1. CASE UNCHANGED vars
  BY <1>1 DEF vars, TypeInv, TypeOK, Running
<1>2. ASSUME NEW s \in Servers, StartServer(s) \/ ManagerStep(s) \/ Ordered(s)
      PROVE  TypeInv'
  BY <1>2, StartServerType, ManagerStepType, OrderedType
<1>3. CASE Tick
  BY <1>3, TickType
<1> QED  BY <1>1, <1>2, <1>3 DEF Step

(***************************************************************************)
(* The state of the registry and of the managers has the types of TypeOK:  *)
(* no operation of ha_manager.c leaves the declared values, in particular  *)
(* a check never writes an error or unknown status into a row.             *)
(***************************************************************************)
THEOREM TypeCorrect == Spec => []TypeOK
<1>1. TypeInv => TypeOK
  BY DEF TypeInv
<1> QED  BY <1>1, InitType, NextType, NextStep, PTL DEF Spec

---------------------------------------------------------------------------
(* Two nodes are never active.  The invariant has two parts: what is known *)
(* of the identifiers, which makes "the row with my identifier" the row    *)
(* with my name, and what is known of the statuses and sessions.           *)

IdsInv == IdsFresh /\ IdsUnique /\ NodeidOwned
ActiveInv == SingleActive /\ ActiveOwned /\ ModesExclusive
Inv == TypeInv /\ IdsInv /\ ActiveInv

(* A step that creates no row and teaches a manager no identifier but the  *)
(* one of the row with its name.                                           *)
LEMMA IdsStep ==
  ASSUME TypeInv, TypeInv', IdsInv,
         nextid' >= nextid,
         \A n \in Names : \/ ha_node'[n] = NoRow
                          \/ /\ ha_node'[n].nodeid = ha_node[n].nodeid
                             /\ Present(n)' => Present(n),
         \A s \in Servers : \/ info'[s].ha_nodeid \in {0, info[s].ha_nodeid}
                            \/ HasId(NameOf[s], info'[s].ha_nodeid),
         \A s \in Servers : info'[s].removing < nextid
  PROVE  IdsInv'
<1>1. /\ nextid \in Nat \ {0} /\ nextid' \in Nat
      /\ \A n \in Names : ha_node[n].nodeid \in Nat /\ ha_node'[n].nodeid \in Nat
      /\ \A s \in Servers : /\ info[s].ha_nodeid \in Nat /\ info'[s].ha_nodeid \in Nat
                            /\ info'[s].removing \in Nat /\ NameOf[s] \in Names
  BY ConfigAssumption DEF TypeInv, TypeOK, Row, Info
<1>2. NoRow.nodeid = 0 /\ NoRow.status = "none"
  BY DEF NoRow
<1>3. \A n \in Names : Present(n)' => /\ ha_node'[n].nodeid = ha_node[n].nodeid
                                      /\ Present(n)
  BY <1>2 DEF Present
<1>4. IdsFresh'
  BY <1>1, <1>2 DEF IdsInv, IdsFresh, HasId
<1>5. IdsUnique'
  BY <1>3 DEF IdsInv, IdsUnique
<1>6. NodeidOwned'
  <2> SUFFICES ASSUME NEW s \in Servers, NEW n \in Names,
                      Present(n)', ha_node'[n].nodeid = info'[s].ha_nodeid
               PROVE  n = NameOf[s]
    BY DEF NodeidOwned, HasId
  <2>1. Present(n) /\ ha_node[n].nodeid = info'[s].ha_nodeid /\ ha_node[n].nodeid # 0
    BY <1>3 DEF IdsInv, IdsUnique
  <2>2. CASE info'[s].ha_nodeid = info[s].ha_nodeid
    BY <2>1, <2>2 DEF IdsInv, NodeidOwned, HasId
  <2>3. CASE HasId(NameOf[s], info'[s].ha_nodeid)
    BY <1>1, <2>1, <2>3 DEF IdsInv, IdsUnique, HasId
  <2> QED  BY <2>1, <2>2, <2>3
<1> QED  BY <1>4, <1>5, <1>6 DEF IdsInv

(* A step of s that changes no session, and makes no row active but the    *)
(* one of s: either it was active before, or no other row is active after. *)
LEMMA ActiveStep ==
  ASSUME ActiveInv, NEW me \in Names, Standalone \in Names,
         \A n \in Names : ha_node'[n] = NoRow \/ ha_node'[n].session = ha_node[n].session,
         \A n \in Names \ {me} :
           ha_node'[n].status = "active" => ha_node[n].status = "active",
         ha_node'[me].status = "active" => ha_node[me].session # 0,
         \/ ha_node'[me].status = "active" => ha_node[me].status = "active"
         \/ \A n \in Names \ {me} : ha_node'[n].status # "active"
  PROVE  ActiveInv'
<1>1. NoRow.session = 0 /\ NoRow.status = "none"
  BY DEF NoRow
<1>2. SingleActive'
  BY DEF ActiveInv, SingleActive
<1>3. ActiveOwned'
  BY <1>1 DEF ActiveInv, ActiveOwned
<1>4. ModesExclusive'
  BY <1>1 DEF ActiveInv, ModesExclusive
<1> QED  BY <1>2, <1>3, <1>4 DEF ActiveInv

(* A step that makes no row active. *)
LEMMA PassiveStep ==
  ASSUME ActiveInv, Standalone \in Names,
         \A n \in Names :
           \/ ha_node'[n] = NoRow
           \/ /\ ha_node'[n].session = ha_node[n].session
              /\ ha_node'[n].status = "active" => ha_node[n].status = "active"
  PROVE  ActiveInv'
<1>1. NoRow.session = 0 /\ NoRow.status = "none"
  BY DEF NoRow
<1>2. SingleActive'
  BY <1>1 DEF ActiveInv, SingleActive
<1>3. ActiveOwned'
  BY <1>1 DEF ActiveInv, ActiveOwned
<1>4. ModesExclusive'
  BY <1>1 DEF ActiveInv, ModesExclusive
<1> QED  BY <1>2, <1>3, <1>4 DEF ActiveInv


(* What a resumed manager knows of identifiers. *)
LEMMA ResumeIds ==
  ASSUME TypeInv, NEW s \in Servers, NEW i \in Info, Resume(s, i) \/ ToRegister(s, i)
  PROVE  /\ info'[s].ha_nodeid = i.ha_nodeid
         /\ info'[s].removing = i.removing
         /\ \A t \in Servers \ {s} : info'[t] = info[t]
<1>1. CASE Resume(s, i)
  BY <1>1 DEF Resume, Resumed, TypeInv, TypeOK, Info
<1>2. CASE ToRegister(s, i)
  BY <1>1, <1>2 DEF ToRegister, TypeInv, TypeOK, Info
<1> QED  BY <1>1, <1>2

(* The new row is not active, and its identifier was never used. *)
LEMMA CreateNodeInv ==
  ASSUME Inv, TypeInv', NEW s \in Servers, NEW o \in Outcomes, CreateNode(s, o)
  PROVE  Inv'
<1> DEFINE me == NameOf[s]
           i == [info[s] EXCEPT !.db_status = DbStatus(o), !.failover_delay = settings]
<1>1. /\ info[s] \in Info /\ me \in Names /\ Standalone \in Names /\ ha_node[me] \in Row
      /\ ha_node \in [Names -> Row] /\ settings \in Nat /\ nextid \in Nat \ {0}
  BY ConfigAssumption DEF Inv, TypeInv, TypeOK
<1>2. /\ i \in Info /\ i.ha_nodeid = info[s].ha_nodeid /\ i.removing = info[s].removing
      /\ [info[s] EXCEPT !.db_status = "down"] \in Info
      /\ Failed(info[s]) \in Info /\ Failed(i) \in Info
      /\ [i EXCEPT !.ha_nodeid = ha_node[me].nodeid] \in Info
      /\ [i EXCEPT !.ha_nodeid = nextid] \in Info
  BY <1>1 DEF DbStatus, Failed, Info, Row, Statuses
<1>3. ASSUME UNCHANGED registry,
             \E j \in Info : /\ Resume(s, j) \/ ToRegister(s, j)
                             /\ j.removing = info[s].removing
                             /\ \/ j.ha_nodeid = info[s].ha_nodeid
                                \/ HasId(me, j.ha_nodeid)
      PROVE  Inv'
  <2>1. ha_node' = ha_node /\ nextid' = nextid
    BY <1>3 DEF registry
  <2>2. /\ info'[s].ha_nodeid = info[s].ha_nodeid \/ HasId(me, info'[s].ha_nodeid)
        /\ info'[s].removing = info[s].removing
        /\ \A t \in Servers \ {s} : info'[t] = info[t]
    BY <1>3, ResumeIds DEF Inv
  <2>3. IdsInv'
    <3>1. \A t \in Servers : info'[t].removing < nextid
      BY <2>2 DEF Inv, IdsInv, IdsFresh
    <3>2. \A t \in Servers : \/ info'[t].ha_nodeid \in {0, info[t].ha_nodeid}
                             \/ HasId(NameOf[t], info'[t].ha_nodeid)
      BY <2>2
    <3> QED  BY <1>1, <2>1, <3>1, <3>2, IdsStep DEF Inv, Present
  <2>4. ActiveInv'
    BY <1>1, <2>1, PassiveStep DEF Inv
  <2> QED  BY <2>3, <2>4 DEF Inv
<1>4. ASSUME ~Present(me),
             nextid' = nextid + 1,
             ha_node' = IF Applied(o) THEN [ha_node EXCEPT ![me] = NewRow(nextid)]
                                      ELSE ha_node,
             ToRegister(s, IF o = "ok" THEN [i EXCEPT !.ha_nodeid = nextid] ELSE i)
      PROVE  Inv'
  <2>1. /\ info'[s].ha_nodeid = (IF o = "ok" THEN nextid ELSE info[s].ha_nodeid)
        /\ info'[s].removing = info[s].removing
        /\ \A t \in Servers \ {s} : info'[t] = info[t]
    <3> DEFINE j == [i EXCEPT !.ha_nodeid = nextid]
    <3>1. j \in Info /\ j.ha_nodeid = nextid /\ j.removing = info[s].removing
      BY <1>1, <1>2 DEF Info
    <3>2. ToRegister(s, IF o = "ok" THEN j ELSE i)
      BY <1>4
    <3> HIDE DEF j, i
    <3>3. CASE o = "ok"
      BY <3>1, <3>2, <3>3, ResumeIds DEF Inv
    <3>4. CASE o # "ok"
      BY <1>2, <3>2, <3>4, ResumeIds DEF Inv
    <3> QED  BY <3>3, <3>4
  <2>2. /\ \A n \in Names \ {me} : ha_node'[n] = ha_node[n]
        /\ \/ ha_node'[me] = ha_node[me]
           \/ ha_node'[me] = NewRow(nextid)
    BY <1>1, <1>4
  <2>3. /\ NewRow(nextid).nodeid = nextid /\ NewRow(nextid).status = "stopped"
        /\ NewRow(nextid).session = 0
    BY DEF NewRow
  <2>4. /\ \A n \in Names : ha_node[n].nodeid \in Nat /\ ha_node[n].nodeid < nextid
        /\ \A t \in Servers : /\ info[t].ha_nodeid \in Nat /\ info[t].removing \in Nat
                              /\ info[t].ha_nodeid < nextid /\ info[t].removing < nextid
    BY DEF Inv, IdsInv, IdsFresh, TypeInv, TypeOK, Row, Info
  <2>5. IdsFresh'
    BY <1>1, <1>4, <2>1, <2>2, <2>3, <2>4 DEF IdsFresh
  <2>6. IdsUnique'
    BY <1>1, <1>4, <2>2, <2>3, <2>4 DEF Inv, IdsInv, IdsUnique, Present
  <2>7. NodeidOwned'
    BY <1>1, <1>4, <2>1, <2>2, <2>3, <2>4 DEF Inv, IdsInv, NodeidOwned, HasId, Present
  <2>8. ActiveInv'
    BY <1>1, <2>2, <2>3 DEF Inv, ActiveInv, SingleActive, ActiveOwned, ModesExclusive
  <2> QED  BY <2>5, <2>6, <2>7, <2>8 DEF Inv, IdsInv
<1>5. \/ UNCHANGED registry /\ \E j \in {[info[s] EXCEPT !.db_status = "down"],
                                       Failed(info[s]), i, Failed(i)} :
                                  Resume(s, j) \/ ToRegister(s, j)
      \/ UNCHANGED registry /\ Present(me)
           /\ ToRegister(s, [i EXCEPT !.ha_nodeid = ha_node[me].nodeid])
      \/ /\ ~Present(me)
         /\ nextid' = nextid + 1
         /\ ha_node' = IF Applied(o) THEN [ha_node EXCEPT ![me] = NewRow(nextid)] ELSE ha_node
         /\ ToRegister(s, IF o = "ok" THEN [i EXCEPT !.ha_nodeid = nextid] ELSE i)
  BY Zenon DEF CreateNode
<1>6. CASE UNCHANGED registry /\ \E j \in {[info[s] EXCEPT !.db_status = "down"],
                                        Failed(info[s]), i, Failed(i)} :
                                   Resume(s, j) \/ ToRegister(s, j)
  <2>1. \A j \in {[info[s] EXCEPT !.db_status = "down"], Failed(info[s]), i, Failed(i)} :
          j.removing = info[s].removing /\ j.ha_nodeid = info[s].ha_nodeid
    <3> DEFINE SameIds(j) == j.removing = info[s].removing /\ j.ha_nodeid = info[s].ha_nodeid
    <3>1. SameIds([info[s] EXCEPT !.db_status = "down"])
      BY <1>1 DEF Info
    <3>2. SameIds(Failed(info[s]))
      BY <1>1 DEF Failed, Info
    <3>3. SameIds(i)
      BY <1>1 DEF Info
    <3>4. SameIds(Failed(i))
      BY <1>1 DEF Failed, Info
    <3> HIDE DEF i, SameIds
    <3>5. \A j \in {[info[s] EXCEPT !.db_status = "down"], Failed(info[s]), i, Failed(i)} : SameIds(j)
      BY <3>1, <3>2, <3>3, <3>4
    <3> QED  BY <3>5 DEF SameIds
  <2> HIDE DEF i
  <2> QED  BY <1>2, <1>3, <1>6, <2>1
<1>7. CASE UNCHANGED registry /\ Present(me)
            /\ ToRegister(s, [i EXCEPT !.ha_nodeid = ha_node[me].nodeid])
  <2> DEFINE j == [i EXCEPT !.ha_nodeid = ha_node[me].nodeid]
  <2>1. j \in Info /\ j.removing = info[s].removing /\ HasId(me, j.ha_nodeid)
    BY <1>2, <1>7 DEF HasId, Info
  <2> HIDE DEF j
  <2> QED  BY <1>3, <1>7, <2>1 DEF j
<1> QED  BY <1>4, <1>5, <1>6, <1>7


(* The registration that makes s active: no live row is active, and every  *)
(* other active row is deleted or marked unavailable with it.              *)
LEMMA RegisteredActive ==
  ASSUME TypeInv, NodeidOwned, NEW s \in Servers,
         Activate(s, info[s].failover_delay),
         NEW n \in Names,
         Registered(s, "active")[n].status = "active"
  PROVE  n = NameOf[s]
<1>1. /\ NoRow.status = "none" /\ MarkUnavailable(n).status = "unavailable"
      /\ ha_node[n].lastaccess \in Nat /\ now \in Nat /\ info[s].failover_delay \in Nat
  BY DEF NoRow, MarkUnavailable, TypeInv, TypeOK, Row, Info
<1>2. CASE HasId(n, info[s].ha_nodeid)
  BY <1>2 DEF NodeidOwned
<1>3. CASE ~HasId(n, info[s].ha_nodeid) /\ ~IsCluster(s)
  BY <1>1, <1>3 DEF Registered, IsCluster
<1>4. CASE ~HasId(n, info[s].ha_nodeid) /\ IsCluster(s)
  <2>1. /\ ha_node[n].status = "active"
        /\ ~Unavailable(n, info[s].ha_nodeid, info[s].failover_delay)
    BY <1>1, <1>4 DEF Registered
  <2>2. ~Live(n, info[s].failover_delay)
    BY <1>4, <2>1 DEF Activate
  <2>3. now >= ha_node[n].lastaccess + info[s].failover_delay
    BY <1>1, <2>1, <2>2 DEF Live, Present, Available
  <2> QED  BY <1>4, <2>1, <2>3 DEF Unavailable, HasId, Present
<1> QED  BY <1>2, <1>3, <1>4

(* What a registration does to each row. *)
LEMMA RegisteredRows ==
  ASSUME TypeInv, NodeidOwned, NEW s \in Servers, ha_sessionid[s] # 0,
         NEW status \in {"active", "standby"}, NEW n \in Names
  PROVE  \/ Registered(s, status)[n] = NoRow
         \/ /\ Registered(s, status)[n].nodeid = ha_node[n].nodeid
            /\ Registered(s, status)[n].status # "none" => Present(n)
            /\ IsCluster(s) = (n # Standalone)
            /\ \/ /\ n = NameOf[s] /\ Registered(s, status)[n].session # 0
                  /\ Registered(s, status)[n].status = status
               \/ /\ Registered(s, status)[n].session = ha_node[n].session
                  /\ Registered(s, status)[n].status = "active"
                       => ha_node[n].status = "active"
<1> DEFINE touched == [Touched(n, status) EXCEPT !.session = ha_sessionid[s]]
<1>1. /\ touched.nodeid = ha_node[n].nodeid /\ touched.session = ha_sessionid[s]
      /\ touched.status = status
      /\ MarkUnavailable(n).nodeid = ha_node[n].nodeid
      /\ MarkUnavailable(n).session = ha_node[n].session
      /\ MarkUnavailable(n).status = "unavailable"
  BY DEF Touched, MarkUnavailable, TypeInv, TypeOK, Row
<1>2. Registered(s, status)[n] =
        IF IsCluster(s) # (n # Standalone) THEN NoRow
        ELSE IF HasId(n, info[s].ha_nodeid) THEN touched
        ELSE IF /\ IsCluster(s) /\ status = "active"
                /\ Unavailable(n, info[s].ha_nodeid, info[s].failover_delay)
          THEN MarkUnavailable(n)
        ELSE ha_node[n]
  BY Zenon DEF Registered
<1> HIDE DEF touched
<1>3. HasId(n, info[s].ha_nodeid) => n = NameOf[s] /\ Present(n)
  BY DEF NodeidOwned, HasId
<1>4. Unavailable(n, info[s].ha_nodeid, info[s].failover_delay) => Present(n)
  BY DEF Unavailable, Present
<1>5. ha_node[n].status # "none" => Present(n)
  BY DEF Present
<1>6. CASE IsCluster(s) # (n # Standalone)
  BY <1>2, <1>6
<1>7. CASE IsCluster(s) = (n # Standalone)
  BY <1>1, <1>2, <1>3, <1>4, <1>5, <1>7
<1> QED  BY <1>6, <1>7 DEF IsCluster

LEMMA RegisterNodeInv ==
  ASSUME Inv, TypeInv', NEW s \in Servers, NEW o \in Outcomes, RegisterNode(s, o)
  PROVE  Inv'
<1> DEFINE i == [info[s] EXCEPT !.db_status = DbStatus(o)]
           status == IF Activate(s, info[s].failover_delay) THEN "active" ELSE "standby"
<1>1. /\ info[s] \in Info /\ ha_sessionid[s] # 0 /\ Standalone \in Names
      /\ NameOf[s] \in Names /\ TypeInv /\ NodeidOwned /\ status \in {"active", "standby"}
      /\ nextid' = nextid /\ nextid \in Nat
  BY ConfigAssumption DEF Inv, IdsInv, TypeInv, TypeOK, Running, RegisterNode
<1>2. \E j \in {i, Failed(i), [i EXCEPT !.ha_status = status]} : Resume(s, j)
  BY Zenon DEF RegisterNode
<1>3. \A j \in {i, Failed(i), [i EXCEPT !.ha_status = status]} :
        j \in Info /\ j.ha_nodeid = info[s].ha_nodeid /\ j.removing = info[s].removing
  BY <1>1, ZenonT(40) DEF Failed, DbStatus, Info, Statuses
<1>4. ha_node' = ha_node \/ ha_node' = Registered(s, status)
  BY DEF RegisterNode
<1>5. \A n \in Names : \/ ha_node'[n] = NoRow
                       \/ /\ ha_node'[n].nodeid = ha_node[n].nodeid
                          /\ Present(n)' => Present(n)
  BY <1>1, <1>4, RegisteredRows DEF Present
<1>6. \A t \in Servers : /\ info'[t].ha_nodeid = info[t].ha_nodeid
                         /\ info'[t].removing < nextid
  <2>1. /\ info'[s].ha_nodeid = info[s].ha_nodeid /\ info'[s].removing = info[s].removing
        /\ \A t \in Servers \ {s} : info'[t] = info[t]
    <3>1. PICK j \in {i, Failed(i), [i EXCEPT !.ha_status = status]} : Resume(s, j)
      BY <1>2
    <3>2. j \in Info /\ j.ha_nodeid = info[s].ha_nodeid /\ j.removing = info[s].removing
      BY <1>3
    <3> HIDE DEF i, status
    <3> QED  BY <1>1, <3>1, <3>2, ResumeIds
  <2> QED  BY <2>1 DEF Inv, IdsInv, IdsFresh
<1>7. IdsInv'
  BY <1>1, <1>5, <1>6, IdsStep DEF Inv
<1>8. ActiveInv'
  <2>1. CASE ha_node' = ha_node
    BY <1>1, <2>1, PassiveStep DEF Inv
  <2>2. CASE ha_node' = Registered(s, status)
    <3>1. NoRow.status = "none" /\ NoRow.session = 0
      BY DEF NoRow
    <3>2. \A n \in Names : ha_node'[n].status = "active" => ha_node'[n].session # 0
      BY <1>1, <2>2, <3>1, RegisteredRows DEF Inv, ActiveInv, ActiveOwned
    <3>3. \A m, n \in Names :
            ha_node'[m].status = "active" /\ ha_node'[n].status = "active" => m = n
      <4>1. CASE status = "active"
        <5>1. Activate(s, info[s].failover_delay)
          BY <4>1
        <5> HIDE DEF status
        <5>2. \A n \in Names : ha_node'[n].status = "active" => n = NameOf[s]
          BY <1>1, <2>2, <4>1, <5>1, RegisteredActive
        <5> QED  BY <5>2
      <4>2. CASE status = "standby"
        <5> HIDE DEF status
        <5>1. \A n \in Names : ha_node'[n].status = "active" => ha_node[n].status = "active"
          BY <1>1, <2>2, <3>1, <4>2, RegisteredRows
        <5> QED  BY <5>1 DEF Inv, ActiveInv, SingleActive
      <4> QED  BY <4>1, <4>2
    <3>4. \A n \in Names : ha_node'[n].session # 0 => IsCluster(s) = (n # Standalone)
      BY <1>1, <2>2, <3>1, RegisteredRows
    <3>5. ModesExclusive'
      BY <1>1, <3>4 DEF ModesExclusive
    <3> QED  BY <3>2, <3>3, <3>5 DEF ActiveInv, SingleActive, ActiveOwned
  <2> QED  BY <1>4, <2>1, <2>2
<1> QED  BY <1>7, <1>8 DEF Inv


(* A check knows the identifier of no row but the one of its server, and   *)
(* that row has the session of the server.                                 *)
LEMMA CheckedRow ==
  ASSUME Inv, NEW s \in Servers, NEW o \in Outcomes, CheckOwned(s, o)
  PROVE  /\ \A n \in Names : HasId(n, CheckedInfo(s, o).ha_nodeid) => n = NameOf[s]
         /\ \/ CheckedInfo(s, o).ha_nodeid = info[s].ha_nodeid
            \/ HasId(NameOf[s], CheckedInfo(s, o).ha_nodeid)
         /\ CheckedInfo(s, o).removing = info[s].removing
         /\ ha_node[NameOf[s]].session # 0
<1>1. CheckedInfo(s, o).removing = info[s].removing
      /\ CheckedInfo(s, o).ha_nodeid =
           IF info[s].ha_nodeid = 0 THEN ha_node[NameOf[s]].nodeid ELSE info[s].ha_nodeid
  BY DEF CheckedInfo, Inv, TypeInv, TypeOK, Info
<1>2. OwnsRow(s) /\ NameOf[s] \in Names
  BY ConfigAssumption DEF CheckOwned
<1>3. ha_node[NameOf[s]].session # 0
  BY <1>2, CheckOwnedType DEF Inv, OwnsRow
<1>4. \A n \in Names : HasId(n, CheckedInfo(s, o).ha_nodeid) => n = NameOf[s]
  BY <1>1, <1>2 DEF Inv, IdsInv, IdsUnique, NodeidOwned, OwnsRow, HasId
<1> QED  BY <1>1, <1>2, <1>3, <1>4 DEF OwnsRow, HasId

(* The identifiers after a check that goes on with the state i. *)
LEMMA CheckIds ==
  ASSUME Inv, TypeInv', NEW s \in Servers, NEW i \in Info, Resume(s, i),
         i.removing = info[s].removing,
         i.ha_nodeid = info[s].ha_nodeid \/ HasId(NameOf[s], i.ha_nodeid),
         nextid' = nextid,
         \A n \in Names : \/ ha_node'[n] = NoRow
                          \/ /\ ha_node'[n].nodeid = ha_node[n].nodeid
                             /\ Present(n)' => Present(n)
  PROVE  IdsInv'
<1>1. /\ info'[s].ha_nodeid = i.ha_nodeid /\ info'[s].removing = info[s].removing
      /\ \A t \in Servers \ {s} : info'[t] = info[t]
      /\ nextid \in Nat
  BY ResumeIds DEF Inv, TypeInv, TypeOK
<1>2. \A t \in Servers : info'[t].removing < nextid
  BY <1>1 DEF Inv, IdsInv, IdsFresh
<1> QED  BY <1>1, <1>2, IdsStep DEF Inv

(* The fields of rows a check writes. *)
LEMMA RowFields ==
  ASSUME TypeInv, NEW n \in Names, NEW status \in RowStatuses
  PROVE  /\ Touched(n, status).nodeid = ha_node[n].nodeid
         /\ Touched(n, status).session = ha_node[n].session
         /\ Touched(n, status).status = status
         /\ MarkUnavailable(n).nodeid = ha_node[n].nodeid
         /\ MarkUnavailable(n).session = ha_node[n].session
         /\ MarkUnavailable(n).status = "unavailable"
BY DEF Touched, MarkUnavailable, TypeInv, TypeOK, Row

(* The end of a passive node's check: s becomes active only when the only  *)
(* other active row is the one it marks unavailable.                       *)
LEMMA EndPassiveInv ==
  ASSUME Inv, TypeInv', NEW s \in Servers, NEW o \in Outcomes, NEW i \in Info,
         NEW status \in {"active", "standby"}, NEW taken \in SUBSET Names,
         EndPassive(s, o, i, status, taken),
         i.removing = info[s].removing,
         i.ha_nodeid = info[s].ha_nodeid \/ HasId(NameOf[s], i.ha_nodeid),
         \A n \in Names : HasId(n, i.ha_nodeid) => n = NameOf[s],
         \A n \in taken : ha_node[n].status = "active",
         ha_node[NameOf[s]].session # 0,
         nextid' = nextid,
         status = "active" =>
           \A n \in Names \ {NameOf[s]} : ha_node[n].status = "active" => n \in taken
  PROVE  Inv'
<1> DEFINE j == IF o = "ok" THEN [i EXCEPT !.ha_status = status] ELSE i
<1>1. /\ j \in Info /\ j.removing = i.removing /\ j.ha_nodeid = i.ha_nodeid
      /\ NameOf[s] \in Names /\ Standalone \in Names /\ TypeInv
  BY ConfigAssumption DEF Inv, Info, Statuses
<1>2. Resume(s, j)
  BY DEF EndPassive
<1>3. /\ status \in RowStatuses /\ status # "none"
  BY DEF RowStatuses
<1>4. \A n \in Names :
        /\ ha_node'[n].nodeid = ha_node[n].nodeid
        /\ ha_node'[n].session = ha_node[n].session
        /\ Present(n)' => Present(n)
        /\ ha_node'[n].status = "active" =>
             \/ n = NameOf[s] /\ status = "active"
             \/ ha_node[n].status = "active" /\ (n \notin taken \/ n = NameOf[s])
             \/ ha_node[n].status = "active" /\ ha_node' = ha_node
  <2>1. CASE Applied(o)
    <3> SUFFICES ASSUME NEW n \in Names
                 PROVE  /\ ha_node'[n].nodeid = ha_node[n].nodeid
                        /\ ha_node'[n].session = ha_node[n].session
                        /\ Present(n)' => Present(n)
                        /\ ha_node'[n].status = "active" =>
                             \/ n = NameOf[s] /\ status = "active"
                             \/ ha_node[n].status = "active" /\ n \notin taken
      OBVIOUS
    <3>1. ha_node'[n] = IF HasId(n, i.ha_nodeid) THEN Touched(n, status)
                        ELSE IF n \in taken THEN MarkUnavailable(n) ELSE ha_node[n]
      BY <2>1 DEF EndPassive, Passed
    <3>2. n \in taken => Present(n)
      BY DEF Present
    <3> QED  BY <1>1, <1>3, <3>1, <3>2, RowFields DEF Present, HasId
  <2>2. CASE ~Applied(o)
    BY <2>2 DEF EndPassive, Present
  <2> QED  BY <2>1, <2>2
<1>5. IdsInv'
  <2> HIDE DEF j
  <2> QED  BY <1>1, <1>2, <1>4, CheckIds
<1>6. ActiveInv'
  <2>1. CASE ha_node' = ha_node
    BY <1>1, <2>1, PassiveStep DEF Inv
  <2>2. CASE ha_node' # ha_node /\ status = "active"
    <3>1. \A n \in Names \ {NameOf[s]} : ha_node'[n].status # "active"
      BY <1>4, <2>2
    <3> QED  BY <1>1, <1>4, <3>1, ActiveStep DEF Inv
  <2>3. CASE ha_node' # ha_node /\ status = "standby"
    BY <1>1, <1>4, <2>3, PassiveStep DEF Inv
  <2> QED  BY <2>1, <2>2, <2>3
<1> QED  BY <1>5, <1>6 DEF Inv


LEMMA CheckStandaloneInv ==
  ASSUME Inv, TypeInv', NEW s \in Servers, NEW o \in Outcomes, CheckStandalone(s, o)
  PROVE  Inv'
<1> DEFINE i == CheckedInfo(s, o)
<1>1. /\ CheckOwned(s, o) /\ TypeInv /\ Resume(s, i) /\ ~IsCluster(s)
      /\ NameOf[s] \in Names /\ Standalone \in Names
  BY ConfigAssumption DEF CheckStandalone, Inv
<1>2. /\ i \in Info /\ i.ha_status \in RowStatuses /\ i.ha_status # "none" /\ nextid' = nextid
      /\ i.removing = info[s].removing /\ ha_node[NameOf[s]].session # 0
      /\ i.ha_nodeid = info[s].ha_nodeid \/ HasId(NameOf[s], i.ha_nodeid)
      /\ \A n \in Names : HasId(n, i.ha_nodeid) => n = NameOf[s]
  BY <1>1, CheckOwnedType, CheckedRow DEF RowStatuses
<1>3. \A n \in Names : \/ ha_node'[n] = ha_node[n]
                       \/ /\ HasId(n, i.ha_nodeid)
                          /\ ha_node'[n] = Touched(n, i.ha_status)
  BY Zenon DEF CheckStandalone
<1> HIDE DEF i
<1>4. \A n \in Names : /\ ha_node'[n].nodeid = ha_node[n].nodeid
                       /\ ha_node'[n].session = ha_node[n].session
                       /\ Present(n)' => Present(n)
  BY <1>1, <1>2, <1>3, RowFields DEF HasId, Present
<1>5. IdsInv'
  BY <1>1, <1>2, <1>4, CheckIds
<1>6. NameOf[s] = Standalone
  BY <1>1 DEF IsCluster
<1>7. \A n \in Names \ {NameOf[s]} : ha_node[n].status # "active" /\ ha_node'[n] = ha_node[n]
  BY <1>2, <1>3, <1>6 DEF Inv, ActiveInv, ActiveOwned, ModesExclusive
<1>8. ActiveInv'
  <2>1. \A n \in Names : ha_node'[n] = NoRow \/ ha_node'[n].session = ha_node[n].session
    BY <1>4
  <2>2. \A n \in Names \ {NameOf[s]} : ha_node'[n].status # "active"
    BY <1>7
  <2> QED  BY <1>1, <1>2, <2>1, <2>2, ActiveStep DEF Inv
<1> QED  BY <1>5, <1>8 DEF Inv

LEMMA CheckActiveInv ==
  ASSUME Inv, TypeInv', NEW s \in Servers, NEW o \in Outcomes, CheckActive(s, o)
  PROVE  Inv'
<1> DEFINE i == CheckedInfo(s, o)
<1>1. /\ CheckOwned(s, o) /\ TypeInv /\ Resume(s, i)
      /\ NameOf[s] \in Names /\ Standalone \in Names
      /\ ha_node[NameOf[s]].status = "active"
  BY ConfigAssumption DEF CheckActive, Inv
<1>2. /\ i \in Info /\ nextid' = nextid /\ "active" \in RowStatuses
      /\ i.removing = info[s].removing /\ ha_node[NameOf[s]].session # 0
      /\ i.ha_nodeid = info[s].ha_nodeid \/ HasId(NameOf[s], i.ha_nodeid)
      /\ \A n \in Names : HasId(n, i.ha_nodeid) => n = NameOf[s]
  BY <1>1, CheckOwnedType, CheckedRow DEF RowStatuses
<1>3. \A n \in Names :
        \/ ha_node'[n] = ha_node[n]
        \/ HasId(n, i.ha_nodeid) /\ ha_node'[n] = Touched(n, "active")
        \/ Unavailable(n, i.ha_nodeid, settings) /\ ha_node'[n] = MarkUnavailable(n)
  BY Zenon DEF CheckActive
<1> HIDE DEF i
<1>4. \A n \in Names : /\ ha_node'[n].nodeid = ha_node[n].nodeid
                       /\ ha_node'[n].session = ha_node[n].session
                       /\ Present(n)' => Present(n)
                       /\ ha_node'[n].status = "active" => ha_node[n].status = "active"
  BY <1>1, <1>2, <1>3, RowFields DEF HasId, Present, Unavailable
<1>5. IdsInv'
  BY <1>1, <1>2, <1>4, CheckIds
<1>6. ActiveInv'
  <2>1. \A n \in Names :
          \/ ha_node'[n] = NoRow
          \/ /\ ha_node'[n].session = ha_node[n].session
             /\ ha_node'[n].status = "active" => ha_node[n].status = "active"
    BY <1>4
  <2> QED  BY <1>1, <2>1, PassiveStep DEF Inv
<1> QED  BY <1>5, <1>6 DEF Inv

LEMMA CheckPassiveInv ==
  ASSUME Inv, TypeInv', NEW s \in Servers, NEW o \in Outcomes, CheckPassive(s, o)
  PROVE  Inv'
<1> DEFINE i == CheckedInfo(s, o)
           actives == {n \in Names : ha_node[n].status = "active"}
<1>1. CheckOwned(s, o) /\ TypeInv /\ ha_node \in [Names -> Row]
      /\ NameOf[s] \in Names /\ Standalone \in Names
  BY ConfigAssumption DEF CheckPassive, Inv, TypeInv, TypeOK
<1>2. /\ i \in Info /\ nextid' = nextid /\ i.removing = info[s].removing
      /\ i.ha_nodeid = info[s].ha_nodeid \/ HasId(NameOf[s], i.ha_nodeid)
      /\ \A n \in Names : HasId(n, i.ha_nodeid) => n = NameOf[s]
      /\ ha_node[NameOf[s]].session # 0
  BY <1>1, CheckOwnedType, CheckedRow
<1>3. \A m, n \in actives : m = n
  BY DEF Inv, ActiveInv, SingleActive
<1>4. \/ /\ actives = {} \/ \E a \in actives : ha_node[a].nodeid = i.ha_nodeid
         /\ EndPassive(s, o, i, "active", {})
      \/ Resume(s, Failed(i)) /\ UNCHANGED ha_node
      \/ \E a \in actives : /\ ha_node[a].nodeid # i.ha_nodeid
                            /\ \/ EndPassive(s, o, Watched(i, ha_node[a]), "active", {a})
                               \/ EndPassive(s, o, Watched(i, ha_node[a]), "standby", {})
  BY Zenon DEF CheckPassive
<1> HIDE DEF i
<1>5. CASE /\ actives = {} \/ \E a \in actives : ha_node[a].nodeid = i.ha_nodeid
           /\ EndPassive(s, o, i, "active", {})
  <2>1. \A n \in Names \ {NameOf[s]} : ha_node[n].status # "active"
    BY <1>2, <1>3, <1>5 DEF HasId, Present
  <2> QED  BY <1>2, <1>5, <2>1, EndPassiveInv
<1>6. CASE Resume(s, Failed(i)) /\ UNCHANGED ha_node
  <2>1. Failed(i) \in Info /\ Failed(i).removing = i.removing
        /\ Failed(i).ha_nodeid = i.ha_nodeid
    BY <1>2 DEF Failed, Info, Statuses
  <2>2. IdsInv'
    BY <1>2, <1>6, <2>1, CheckIds DEF Present
  <2>3. ActiveInv'
    BY <1>1, <1>6, PassiveStep DEF Inv
  <2> QED  BY <2>2, <2>3 DEF Inv
<1>7. ASSUME NEW a \in actives, ha_node[a].nodeid # i.ha_nodeid,
             \/ EndPassive(s, o, Watched(i, ha_node[a]), "active", {a})
             \/ EndPassive(s, o, Watched(i, ha_node[a]), "standby", {})
      PROVE  Inv'
  <2> DEFINE j == Watched(i, ha_node[a])
  <2>1. j \in Info /\ j.removing = i.removing /\ j.ha_nodeid = i.ha_nodeid
    <3>1. j \in Info
      BY <1>1, <1>2, WatchedType
    <3> QED  BY <1>2, <3>1 DEF Watched, Info
  <2>2. ha_node[a].status = "active" /\ \A n \in Names : ha_node[n].status = "active" => n = a
    BY <1>3
  <2> HIDE DEF j
  <2>3. CASE EndPassive(s, o, j, "active", {a})
    BY <1>2, <2>1, <2>2, <2>3, EndPassiveInv
  <2>4. CASE EndPassive(s, o, j, "standby", {})
    BY <1>2, <2>1, <2>4, EndPassiveInv
  <2> QED  BY <1>7, <2>3, <2>4 DEF j
<1> QED  BY <1>4, <1>5, <1>6, <1>7

LEMMA CheckNodesInv ==
  ASSUME Inv, TypeInv', NEW s \in Servers, CheckNodes(s)
  PROVE  Inv'
<1>1. info[s] \in Info /\ Standalone \in Names
  BY ConfigAssumption DEF Inv, TypeInv, TypeOK
<1>2. ASSUME NEW i \in Info, Resume(s, i), i.removing = info[s].removing,
             i.ha_nodeid = info[s].ha_nodeid \/ HasId(NameOf[s], i.ha_nodeid),
             UNCHANGED <<ha_node, nextid>>
      PROVE  Inv'
  <2>1. IdsInv'
    BY <1>2, CheckIds DEF Present
  <2>2. ActiveInv'
    BY <1>1, <1>2, PassiveStep DEF Inv
  <2> QED  BY <2>1, <2>2 DEF Inv
<1>3. CASE CheckNoDatabase(s)
  <2> DEFINE i == [info[s] EXCEPT !.db_status = "down"]
  <2>1. i \in Info /\ i.removing = info[s].removing /\ i.ha_nodeid = info[s].ha_nodeid
    BY <1>1 DEF Info
  <2>2. Resume(s, i) /\ UNCHANGED <<ha_node, nextid>>
    BY <1>3 DEF CheckNoDatabase, CheckStart
  <2> HIDE DEF i
  <2> QED  BY <1>2, <2>1, <2>2
<1>4. ASSUME NEW o \in Outcomes, CheckError(s, o)
      PROVE  Inv'
  <2> DEFINE i == Failed([info[s] EXCEPT !.db_status = DbStatus(o)])
  <2>1. i \in Info /\ i.removing = info[s].removing /\ i.ha_nodeid = info[s].ha_nodeid
    BY <1>1 DEF Failed, DbStatus, Info, Statuses
  <2>2. Resume(s, i) /\ UNCHANGED <<ha_node, nextid>>
    BY <1>4 DEF CheckError, CheckStart
  <2> HIDE DEF i
  <2> QED  BY <1>2, <2>1, <2>2
<1>5. ASSUME NEW o \in Outcomes, CheckSplitBrain(s, o)
      PROVE  Inv'
  <2> DEFINE i == CheckedInfo(s, o)
             j == [i EXCEPT !.ha_status = "standby"]
  <2>1. CheckOwned(s, o) /\ (Resume(s, i) \/ Resume(s, j)) /\ UNCHANGED ha_node
    BY <1>5 DEF CheckSplitBrain
  <2>2. /\ i \in Info /\ nextid' = nextid /\ i.removing = info[s].removing
        /\ i.ha_nodeid = info[s].ha_nodeid \/ HasId(NameOf[s], i.ha_nodeid)
    BY <2>1, CheckOwnedType, CheckedRow DEF Inv
  <2> HIDE DEF i
  <2>3. j \in Info /\ j.removing = i.removing /\ j.ha_nodeid = i.ha_nodeid
    BY <2>2 DEF Info, Statuses
  <2> HIDE DEF j
  <2> QED  BY <1>2, <2>1, <2>2, <2>3
<1> QED  BY <1>3, <1>4, <1>5, CheckStandaloneInv, CheckActiveInv, CheckPassiveInv
         DEF CheckNodes


(* Commands, pause and exit make no row active. *)
LEMMA PassiveInv ==
  ASSUME Inv, TypeInv', nextid' >= nextid,
         \A n \in Names :
           \/ ha_node'[n] = NoRow
           \/ /\ ha_node'[n].nodeid = ha_node[n].nodeid
              /\ ha_node'[n].session = ha_node[n].session
              /\ ha_node'[n].status # "none" => ha_node[n].status # "none"
              /\ ha_node'[n].status = "active" => ha_node[n].status = "active",
         \A s \in Servers :
           /\ info'[s].ha_nodeid \in {0, info[s].ha_nodeid}
           /\ info'[s].removing < nextid
  PROVE  Inv'
<1>1. IdsInv'
  BY IdsStep DEF Inv, Present
<1>2. ActiveInv'
  BY PassiveStep, ConfigAssumption DEF Inv
<1> QED  BY <1>1, <1>2 DEF Inv

(* A step that changes the state of one manager to i, and no row's owner. *)
LEMMA OneManagerInv ==
  ASSUME Inv, TypeInv', NEW s \in Servers, NEW i \in Info,
         info' = [info EXCEPT ![s] = i],
         i.ha_nodeid \in {0, info[s].ha_nodeid},
         i.removing < nextid,
         nextid' >= nextid,
         \A n \in Names :
           \/ ha_node'[n] = NoRow
           \/ /\ ha_node'[n].nodeid = ha_node[n].nodeid
              /\ ha_node'[n].session = ha_node[n].session
              /\ ha_node'[n].status # "none" => ha_node[n].status # "none"
              /\ ha_node'[n].status = "active" => ha_node[n].status = "active"
  PROVE  Inv'
<1>1. \A t \in Servers : info'[t] = IF t = s THEN i ELSE info[t]
  BY DEF Inv, TypeInv, TypeOK
<1>2. \A t \in Servers : /\ info'[t].ha_nodeid \in {0, info[t].ha_nodeid}
                          /\ info'[t].removing < nextid
  BY <1>1 DEF Inv, IdsInv, IdsFresh
<1> QED  BY <1>2, PassiveInv

(* What the rows of the registry are after a refresh or a stop. *)
LEMMA RowUpdates ==
  ASSUME TypeInv, NEW s \in Servers, NEW o \in Outcomes, NEW n \in Names,
         \/ UNCHANGED ha_node
         \/ UpdateLastaccess(s, o)
         \/ UpdateExitStatus(s, o)
         \/ RemoveNodeDelete(s, o)
  PROVE  \/ ha_node'[n] = NoRow
         \/ /\ ha_node'[n].nodeid = ha_node[n].nodeid
            /\ ha_node'[n].session = ha_node[n].session
            /\ ha_node'[n].status # "none" => ha_node[n].status # "none"
            /\ ha_node'[n].status = "active" => ha_node[n].status = "active"
<1>1. ha_node[n] \in Row
  BY DEF TypeInv, TypeOK
<1>2. CASE UNCHANGED ha_node
  BY <1>2
<1>3. CASE UpdateLastaccess(s, o)
  <2> DEFINE row == [ha_node[n] EXCEPT !.lastaccess = now]
  <2>1. ha_node'[n] \in {ha_node[n], row}
    BY <1>3 DEF UpdateLastaccess
  <2>2. row.nodeid = ha_node[n].nodeid /\ row.session = ha_node[n].session
        /\ row.status = ha_node[n].status
    BY <1>1 DEF Row
  <2> HIDE DEF row
  <2> QED  BY <2>1, <2>2
<1>4. CASE UpdateExitStatus(s, o)
  <2> DEFINE row == [ha_node[n] EXCEPT !.status = "stopped"]
  <2>1. ha_node'[n] = ha_node[n] \/ (ha_node'[n] = row /\ HasId(n, info[s].ha_nodeid))
    BY <1>4 DEF UpdateExitStatus
  <2>2. row.nodeid = ha_node[n].nodeid /\ row.session = ha_node[n].session
        /\ row.status = "stopped"
    BY <1>1 DEF Row
  <2> HIDE DEF row
  <2> QED  BY <2>1, <2>2 DEF HasId, Present
<1>5. CASE RemoveNodeDelete(s, o)
  BY <1>5, Zenon DEF RemoveNodeDelete
<1> QED  BY <1>2, <1>3, <1>4, <1>5


(* A step of the manager s that refreshes, stops or removes rows at most. *)
LEMMA UpdateInv ==
  ASSUME Inv, TypeInv', NEW s \in Servers, NEW i,
         info' = [info EXCEPT ![s] = i],
         i.ha_nodeid \in {0, info[s].ha_nodeid},
         i.removing \in {0, info[s].removing},
         nextid' = nextid,
         \/ UNCHANGED ha_node
         \/ \E o \in Outcomes : \/ UpdateLastaccess(s, o)
                               \/ UpdateExitStatus(s, o)
                               \/ RemoveNodeDelete(s, o)
  PROVE  Inv'
<1>1. TypeInv /\ nextid \in Nat \ {0} /\ info[s].removing < nextid
  BY DEF Inv, IdsInv, IdsFresh, TypeInv, TypeOK
<1>2. ASSUME NEW n \in Names
      PROVE  \/ ha_node'[n] = NoRow
             \/ /\ ha_node'[n].nodeid = ha_node[n].nodeid
                /\ ha_node'[n].session = ha_node[n].session
                /\ ha_node'[n].status # "none" => ha_node[n].status # "none"
                /\ ha_node'[n].status = "active" => ha_node[n].status = "active"
  BY <1>1, RowUpdates
<1>3. i \in Info
  BY DEF Inv, TypeInv, TypeOK
<1>4. i.removing < nextid /\ nextid' >= nextid
  BY <1>1
<1> QED  BY <1>2, <1>3, <1>4, OneManagerInv, Zenon

LEMMA ManagerStepInv ==
  ASSUME Inv, TypeInv', NEW s \in Servers, ManagerStep(s)
  PROVE  Inv'
<1>1. /\ info[s] \in Info /\ nextid \in Nat \ {0} /\ TypeInv
  BY DEF Inv, TypeInv, TypeOK
<1>2. OffInfo.ha_nodeid = 0 /\ OffInfo.removing = 0
  BY DEF OffInfo, StartedInfo
<1>3. CASE ManagerTick(s) \/ PausedWait(s)
  <2> DEFINE i == [info[s] EXCEPT !.nextcheck = @ - 1, !.tick = FALSE]
  <2>1. info' = [info EXCEPT ![s] = i] /\ UNCHANGED <<ha_node, nextid>>
    BY <1>3 DEF ManagerTick, PausedWait, registry
  <2>2. i.ha_nodeid = info[s].ha_nodeid /\ i.removing = info[s].removing
    BY <1>1 DEF Info
  <2> HIDE DEF i
  <2> QED  BY <1>1, <2>1, <2>2, UpdateInv
<1>4. CASE RegisterAgain(s)
  <2> DEFINE i == [info[s] EXCEPT !.pc = "create"]
  <2>1. info' = [info EXCEPT ![s] = i] /\ UNCHANGED <<ha_node, nextid>>
    BY <1>4 DEF RegisterAgain, registry
  <2>2. i.ha_nodeid = info[s].ha_nodeid /\ i.removing = info[s].removing
    BY <1>1 DEF Info
  <2> HIDE DEF i
  <2> QED  BY <1>1, <2>1, <2>2, UpdateInv
<1>5. ASSUME NEW o \in Outcomes, RemoveNodeDelete(s, o)
      PROVE  Inv'
  <2> DEFINE i == [info[s] EXCEPT !.removing = 0, !.db_status = DbStatus(o),
                                  !.pc = IF o = "fail" THEN "paused" ELSE "loop",
                                  !.ha_status = IF o = "fail" THEN "error" ELSE @]
  <2>1. info' = [info EXCEPT ![s] = i] /\ nextid' = nextid
    BY <1>5 DEF RemoveNodeDelete
  <2>2. i.ha_nodeid = info[s].ha_nodeid /\ i.removing = 0
    BY <1>1 DEF Info
  <2> HIDE DEF i
  <2> QED  BY <1>1, <1>5, <2>1, <2>2, UpdateInv
<1>6. ASSUME NEW o \in Outcomes, PausedUpdate(s, o)
      PROVE  Inv'
  <2> DEFINE i == [info[s] EXCEPT !.nextcheck = PollPeriod, !.tick = FALSE,
                                  !.ha_status = PausedStatus(s, o)]
  <2>1. info' = [info EXCEPT ![s] = i] /\ nextid' = nextid /\ UpdateLastaccess(s, o)
    BY <1>6 DEF PausedUpdate
  <2>2. i.ha_nodeid = info[s].ha_nodeid /\ i.removing = info[s].removing
    BY <1>1 DEF Info
  <2> HIDE DEF i
  <2> QED  BY <1>1, <2>1, <2>2, UpdateInv
<1>7. ASSUME NEW o \in Outcomes, UpdateExitStatus(s, o)
      PROVE  Inv'
  <2>1. info' = [info EXCEPT ![s] = OffInfo] /\ nextid' = nextid
    BY <1>7 DEF UpdateExitStatus
  <2> QED  BY <1>1, <1>2, <1>7, <2>1, UpdateInv
<1> QED  BY <1>3, <1>4, <1>5, <1>6, <1>7, CheckNodesInv, CreateNodeInv, RegisterNodeInv
         DEF ManagerStep

LEMMA OrderedInv ==
  ASSUME Inv, TypeInv', NEW s \in Servers, Ordered(s)
  PROVE  Inv'
<1>1. /\ info[s] \in Info /\ nextid \in Nat \ {0} /\ TypeInv
      /\ info[s].removing < nextid
  BY DEF Inv, IdsInv, IdsFresh, TypeInv, TypeOK
<1>2. ASSUME NEW i, info' = [info EXCEPT ![s] = i],
             i.ha_nodeid \in {0, info[s].ha_nodeid}, i.removing < nextid,
             nextid' = nextid, UNCHANGED ha_node
      PROVE  Inv'
  <2>1. i \in Info
    BY <1>2 DEF Inv, TypeInv, TypeOK
  <2>2. nextid' >= nextid
    BY <1>1, <1>2
  <2>3. ASSUME NEW n \in Names
        PROVE  /\ ha_node'[n].nodeid = ha_node[n].nodeid
               /\ ha_node'[n].session = ha_node[n].session
               /\ ha_node'[n].status = ha_node[n].status
    BY <1>2
  <2> QED  BY <1>2, <2>1, <2>2, <2>3, OneManagerInv, Zenon
<1>3. CASE KillManager(s)
  <2>1. OffInfo.ha_nodeid = 0 /\ OffInfo.removing = 0
    BY DEF OffInfo, StartedInfo
  <2>2. info' = [info EXCEPT ![s] = OffInfo] /\ UNCHANGED <<ha_node, nextid>>
    BY <1>3 DEF KillManager, registry
  <2>3. 0 < nextid
    BY <1>1
  <2> QED  BY <1>2, <2>1, <2>2, <2>3
<1>4. CASE RestartManager(s)
  <2>1. StartedInfo("standby").ha_nodeid = 0 /\ StartedInfo("standby").removing = 0
    BY DEF StartedInfo
  <2>2. info' = [info EXCEPT ![s] = StartedInfo("standby")] /\ UNCHANGED <<ha_node, nextid>>
    BY <1>4 DEF RestartManager, registry
  <2>3. 0 < nextid
    BY <1>1
  <2> QED  BY <1>2, <2>1, <2>2, <2>3
<1>5. CASE Pause(s)
  <2> DEFINE i == [info[s] EXCEPT !.pc = "paused", !.nextcheck = PollPeriod]
  <2>1. info' = [info EXCEPT ![s] = i] /\ UNCHANGED <<ha_node, nextid>>
    BY <1>5 DEF Pause, registry
  <2>2. i.ha_nodeid = info[s].ha_nodeid /\ i.removing = info[s].removing
    BY <1>1 DEF Info
  <2> HIDE DEF i
  <2> QED  BY <1>1, <1>2, <2>1, <2>2
<1>6. ASSUME NEW o \in Outcomes, Stop(s, o)
      PROVE  Inv'
  <2> DEFINE i == [info[s] EXCEPT !.pc = "stopping"]
             j == [info[s] EXCEPT !.pc = "stopping", !.ha_status = PausedStatus(s, o)]
  <2>1. /\ info' = [info EXCEPT ![s] = i] \/ info' = [info EXCEPT ![s] = j]
        /\ nextid' = nextid /\ (UNCHANGED ha_node \/ UpdateLastaccess(s, o))
    BY <1>6 DEF Stop
  <2>2. \A k \in {i, j} : k.ha_nodeid = info[s].ha_nodeid /\ k.removing = info[s].removing
    BY <1>1 DEF Info
  <2> HIDE DEF i, j
  <2> QED  BY <1>1, <2>1, <2>2, UpdateInv
<1>7. ASSUME NEW n \in Names, NEW o \in Outcomes, RemoveNodeCheck(s, n, o)
      PROVE  Inv'
  <2> DEFINE i == [info[s] EXCEPT !.db_status = DbStatus(o)]
             failed == [Failed(i) EXCEPT !.pc = "paused"]
             checked == [i EXCEPT !.pc = "remove", !.removing = ha_node[n].nodeid]
  <2>1. /\ \E k \in {i, failed, checked} : info' = [info EXCEPT ![s] = k]
        /\ UNCHANGED <<ha_node, nextid>>
    BY <1>7 DEF RemoveNodeCheck, registry
  <2>2. ha_node[n].nodeid < nextid
    BY DEF Inv, IdsInv, IdsFresh
  <2>3. i \in Info /\ i.ha_nodeid = info[s].ha_nodeid /\ i.removing = info[s].removing
    BY <1>1 DEF DbStatus, Info
  <2>4. /\ failed.ha_nodeid = info[s].ha_nodeid /\ failed.removing = info[s].removing
        /\ checked.ha_nodeid = info[s].ha_nodeid /\ checked.removing = ha_node[n].nodeid
    BY <2>3 DEF Failed, Info
  <2> HIDE DEF i, failed, checked
  <2> QED  BY <1>1, <1>2, <2>1, <2>2, <2>3, <2>4
<1>8. ASSUME NEW delay \in Delays, NEW o \in Outcomes, SetFailoverDelay(s, delay, o)
      PROVE  Inv'
  <2> DEFINE done == info[s].db_status = "ok" /\ Applied(o)
             i == [info[s] EXCEPT
                     !.failover_delay = IF done /\ o = "ok" THEN delay ELSE @,
                     !.db_status = IF info[s].db_status = "ok" THEN DbStatus(o) ELSE @]
  <2>1. info' = [info EXCEPT ![s] = i] /\ UNCHANGED <<ha_node, nextid>>
    BY <1>8 DEF SetFailoverDelay
  <2>2. i.ha_nodeid = info[s].ha_nodeid /\ i.removing = info[s].removing
    BY <1>1 DEF Info
  <2> HIDE DEF i
  <2> QED  BY <1>1, <1>2, <2>1, <2>2
<1> QED  BY <1>3, <1>4, <1>5, <1>6, <1>7, <1>8 DEF Ordered

LEMMA InitInv == Init => Inv
<1> SUFFICES ASSUME Init PROVE Inv
  OBVIOUS
<1>1. /\ NoRow.status = "none" /\ NoRow.nodeid = 0 /\ NoRow.session = 0
      /\ OffInfo.ha_nodeid = 0 /\ OffInfo.removing = 0
  BY DEF NoRow, OffInfo, StartedInfo
<1>2. IdsInv
  BY <1>1 DEF Init, IdsInv, IdsFresh, IdsUnique, NodeidOwned, HasId, Present
<1>3. ActiveInv
  BY <1>1, ConfigAssumption DEF Init, ActiveInv, SingleActive, ActiveOwned, ModesExclusive
<1> QED  BY <1>2, <1>3, InitType DEF Inv

LEMMA NextInv == Inv /\ [Step]_vars => Inv'
<1> SUFFICES ASSUME Inv, [Step]_vars PROVE Inv'
  OBVIOUS
<1>1. TypeInv' /\ nextid \in Nat \ {0}
  BY NextType DEF Inv, TypeInv, TypeOK
<1>2. CASE UNCHANGED vars
  <2>1. UNCHANGED <<ha_node, nextid, info>>
    BY <1>2 DEF vars
  <2>2. \A s \in Servers : info'[s].removing < nextid
    BY <2>1 DEF Inv, IdsInv, IdsFresh
  <2> QED  BY <1>1, <2>1, <2>2, PassiveInv
<1>3. ASSUME NEW s \in Servers, StartServer(s)
      PROVE  Inv'
  <2>1. StartedInfo("unknown").ha_nodeid = 0 /\ StartedInfo("unknown").removing = 0
    BY DEF StartedInfo
  <2>2. /\ info' = [info EXCEPT ![s] = StartedInfo("unknown")]
        /\ nextid' = nextid + 1 /\ UNCHANGED ha_node
    BY <1>3 DEF StartServer
  <2>3. StartedInfo("unknown") \in Info
    BY StartedInfoType DEF Statuses
  <2>4. 0 < nextid /\ nextid' >= nextid
    BY <1>1, <2>2
  <2>5. ASSUME NEW n \in Names
        PROVE  /\ ha_node'[n].nodeid = ha_node[n].nodeid
               /\ ha_node'[n].session = ha_node[n].session
               /\ ha_node'[n].status = ha_node[n].status
    BY <2>2
  <2> QED  BY <1>1, <2>1, <2>2, <2>3, <2>4, <2>5, OneManagerInv
<1>4. CASE Tick
  <2>1. UNCHANGED <<ha_node, nextid>>
    BY <1>4 DEF Tick, registry
  <2>2. \A s \in Servers : /\ info'[s].ha_nodeid = info[s].ha_nodeid
                           /\ info'[s].removing = info[s].removing
    BY <1>4 DEF Tick, Inv, TypeInv, TypeOK, Info
  <2>3. \A s \in Servers : info'[s].removing < nextid
    BY <2>2 DEF Inv, IdsInv, IdsFresh
  <2> QED  BY <1>1, <2>1, <2>2, <2>3, PassiveInv
<1> QED  BY <1>1, <1>2, <1>3, <1>4, ManagerStepInv, OrderedInv DEF Step

(***************************************************************************)
(* The registry never holds two active nodes: whatever the transactions of *)
(* ha_manager.c do, however they fail, and whenever managers are started,  *)
(* killed, restarted, paused or stopped and rows are removed.              *)
(***************************************************************************)
THEOREM OneActiveNode == Spec => []SingleActive
<1>1. Inv => SingleActive
  BY DEF Inv, ActiveInv
<1> QED  BY <1>1, InitInv, NextInv, NextStep, PTL DEF Spec

(***************************************************************************)
(* And the reasons why it does not: identifiers are used once, a manager   *)
(* knows the identifier of its own row only, an active row has a session,  *)
(* and a standalone server excludes the nodes of a cluster.                *)
(***************************************************************************)
THEOREM RegistryCorrect == Spec => []RegistryInv
<1>1. Inv => RegistryInv
  BY DEF Inv, TypeInv, IdsInv, ActiveInv, RegistryInv
<1> QED  BY <1>1, InitInv, NextInv, NextStep, PTL DEF Spec

---------------------------------------------------------------------------
(* A poll updates only a row of its own session. *)

(* A manager's step changes the state of no other manager. *)
LEMMA OneManagerMoves ==
  ASSUME TypeInv, NEW t \in Servers, NEW s \in Servers, s # t,
         ManagerStep(t) \/ Ordered(t)
  PROVE  info'[s] = info[s]
<1>1. DOMAIN info = Servers
  BY DEF TypeInv, TypeOK
<1>2. ASSUME NEW i, Resume(t, i) PROVE info'[s] = info[s]
  BY <1>1, <1>2 DEF Resume
<1>3. ASSUME NEW i, ToRegister(t, i) PROVE info'[s] = info[s]
  BY <1>1, <1>2, <1>3 DEF ToRegister
<1>4. CASE ManagerTick(t) \/ RegisterAgain(t) \/ PausedWait(t)
  BY <1>1, <1>4 DEF ManagerTick, RegisterAgain, PausedWait
<1>5. CASE CheckNodes(t)
  <2>1. CASE CheckNoDatabase(t)
    BY <1>2, <2>1 DEF CheckNoDatabase
  <2>2. ASSUME NEW o \in Outcomes, CheckError(t, o) \/ CheckStandalone(t, o)
               \/ CheckSplitBrain(t, o) \/ CheckActive(t, o)
        PROVE  info'[s] = info[s]
    BY <1>2, <2>2 DEF CheckError, CheckStandalone, CheckSplitBrain, CheckActive
  <2>3. ASSUME NEW o \in Outcomes, CheckPassive(t, o) PROVE info'[s] = info[s]
    BY <1>2, <2>3 DEF CheckPassive, EndPassive
  <2> QED  BY <1>5, <2>1, <2>2, <2>3 DEF CheckNodes
<1>6. ASSUME NEW o \in Outcomes, CreateNode(t, o) PROVE info'[s] = info[s]
  BY <1>2, <1>3, <1>6 DEF CreateNode
<1>7. ASSUME NEW o \in Outcomes, RegisterNode(t, o) PROVE info'[s] = info[s]
  BY <1>2, <1>7 DEF RegisterNode
<1>8. ASSUME NEW o \in Outcomes,
             RemoveNodeDelete(t, o) \/ PausedUpdate(t, o) \/ UpdateExitStatus(t, o)
             \/ Stop(t, o)
      PROVE  info'[s] = info[s]
  BY <1>1, <1>8 DEF RemoveNodeDelete, PausedUpdate, UpdateExitStatus, Stop
<1>9. CASE KillManager(t) \/ RestartManager(t) \/ Pause(t)
  BY <1>1, <1>9 DEF KillManager, RestartManager, Pause
<1>10. ASSUME NEW n \in Names, NEW o \in Outcomes, RemoveNodeCheck(t, n, o)
       PROVE  info'[s] = info[s]
  BY <1>1, <1>10 DEF RemoveNodeCheck
<1>11. ASSUME NEW d \in Delays, NEW o \in Outcomes, SetFailoverDelay(t, d, o)
       PROVE  info'[s] = info[s]
  BY <1>1, <1>11 DEF SetFailoverDelay
<1> QED  BY <1>4, <1>5, <1>6, <1>7, <1>8, <1>9, <1>10, <1>11 DEF ManagerStep, Ordered

(* A check leaves every row alone but those it marks unavailable and the   *)
(* row of its server, in which it has found its session.                   *)
LEMMA CheckOwnsRow ==
  ASSUME Inv, NEW s \in Servers, NEW o \in Outcomes, NEW n \in Names,
         \/ CheckStandalone(s, o) \/ CheckSplitBrain(s, o)
         \/ CheckActive(s, o) \/ CheckPassive(s, o),
         ha_node'[n] # ha_node[n], ha_node'[n].status # "unavailable"
  PROVE  ha_node[n].session = ha_sessionid[s] /\ n = NameOf[s]
<1>1. CheckOwned(s, o)
  BY DEF CheckStandalone, CheckSplitBrain, CheckActive, CheckPassive
<1> DEFINE i == CheckedInfo(s, o)
<1>2. \A m \in Names : HasId(m, i.ha_nodeid) => m = NameOf[s]
  BY <1>1, CheckedRow
<1>3. ha_node[NameOf[s]].session = ha_sessionid[s]
  BY <1>1 DEF CheckOwned, OwnsRow
<1>4. MarkUnavailable(n).status = "unavailable"
  BY RowFields DEF Inv, RowStatuses
<1>5. i \in Info
  BY <1>1, CheckOwnedType DEF Inv
<1> HIDE DEF i
<1>6. HasId(n, i.ha_nodeid)
  <2>1. CASE CheckStandalone(s, o)
    BY <2>1 DEF CheckStandalone, i
  <2>2. CASE CheckSplitBrain(s, o)
    BY <2>2 DEF CheckSplitBrain
  <2>3. CASE CheckActive(s, o)
    <3>1. ha_node' \in {ha_node,
                        [m \in Names |->
                           IF HasId(m, i.ha_nodeid) THEN Touched(m, "active")
                           ELSE IF Unavailable(m, i.ha_nodeid, settings)
                             THEN MarkUnavailable(m) ELSE ha_node[m]]}
      BY <2>3 DEF CheckActive, i
    <3> QED  BY <1>4, <3>1
  <2>4. CASE CheckPassive(s, o)
    <3>1. ASSUME NEW j, NEW status, NEW taken, EndPassive(s, o, j, status, taken),
                 j.ha_nodeid = i.ha_nodeid
          PROVE  HasId(n, i.ha_nodeid)
      BY <1>4, <3>1 DEF EndPassive, Passed
    <3>2. ASSUME NEW row PROVE Watched(i, row).ha_nodeid = i.ha_nodeid
      BY <1>5 DEF Watched, Info
    <3>3. \/ ha_node' = ha_node
          \/ \E status, taken : EndPassive(s, o, i, status, taken)
          \/ \E row, status, taken : EndPassive(s, o, Watched(i, row), status, taken)
      BY <2>4 DEF CheckPassive, i
    <3> QED  BY <3>1, <3>2, <3>3
  <2> QED  BY <2>1, <2>2, <2>3, <2>4
<1> QED  BY <1>2, <1>3, <1>6

(***************************************************************************)
(* ha_check_nodes looks the row of its node up by name and updates it by   *)
(* identifier; in between it compares the session.  Identifiers belong to  *)
(* one name and are never reused, so the row it updates is the row it has  *)
(* compared, even if rows were removed and created again and if other      *)
(* servers have the same name.                                             *)
(***************************************************************************)
THEOREM RowsOwned == Spec => RowOwnership
<1>1. ASSUME Inv, [Next]_vars, NEW s \in Servers, NEW n \in Names,
             info[s].pc = "loop", info'[s] # info[s],
             ha_node[n].status \in {"standby", "active"},
             ha_node'[n] # ha_node[n], ha_node'[n].status # "unavailable"
      PROVE  ha_node[n].session = ha_sessionid[s] /\ n = NameOf[s]
  <2>1. PICK t \in Servers : ManagerStep(t) \/ Ordered(t)
    BY <1>1 DEF Next, Environment, Ordered, Tick, StartServer, vars, registry
  <2>2. t = s
    BY <1>1, <2>1, OneManagerMoves DEF Inv
  <2>3. CASE ManagerStep(s)
    <3>1. CheckNodes(s)
      BY <1>1, <2>3 DEF ManagerStep, ManagerTick, RegisterAgain, CreateNode, RegisterNode,
         RemoveNodeDelete, PausedUpdate, UpdateExitStatus, PausedWait, registry
    <3>2. PICK o \in Outcomes : \/ CheckStandalone(s, o) \/ CheckSplitBrain(s, o)
                                \/ CheckActive(s, o) \/ CheckPassive(s, o)
      BY <1>1, <3>1 DEF CheckNodes, CheckNoDatabase, CheckError
    <3> QED  BY <1>1, <3>2, CheckOwnsRow
  <2>4. CASE Ordered(s)
    <3>1. CASE KillManager(s) \/ RestartManager(s) \/ Pause(s)
      BY <1>1, <3>1 DEF KillManager, RestartManager, Pause, registry
    <3>2. ASSUME NEW o \in Outcomes, Stop(s, o) PROVE ha_node' = ha_node
      BY <1>1, <3>2 DEF Stop
    <3>3. ASSUME NEW m \in Names, NEW o \in Outcomes, RemoveNodeCheck(s, m, o)
          PROVE  ha_node' = ha_node
      BY <3>3 DEF RemoveNodeCheck, registry
    <3>4. ASSUME NEW d \in Delays, NEW o \in Outcomes, SetFailoverDelay(s, d, o)
          PROVE  ha_node' = ha_node
      BY <3>4 DEF SetFailoverDelay
    <3> QED  BY <1>1, <2>4, <3>1, <3>2, <3>3, <3>4 DEF Ordered
  <2> QED  BY <2>1, <2>2, <2>3, <2>4
<1>2. Inv /\ [Next]_vars =>
        [\A s \in Servers, n \in Names :
           /\ info[s].pc = "loop" /\ info'[s] # info[s]
           /\ ha_node[n].status \in {"standby", "active"}
           /\ ha_node'[n] # ha_node[n]
           /\ ha_node'[n].status # "unavailable"
           => ha_node[n].session = ha_sessionid[s] /\ n = NameOf[s]]_vars
  BY <1>1
<1> QED  BY <1>2, InitInv, NextInv, NextStep, PTL DEF Spec, RowOwnership

-----------------------------------------------------------------------------
(***************************************************************************)
(* HAManager implements ActiveNode: the active row of the registry is a    *)
(* lease, which another node gets only when it was given up or has not     *)
(* been refreshed for the failover delay.                                  *)
(*                                                                         *)
(* The proof needs what the managers know of time.  A passive manager does *)
(* not compare clocks, it counts its checks that find the active row as it *)
(* was; the invariant says that its checks are a poll period apart, so     *)
(* that the count bounds the age of the row.  This is so as long as every  *)
(* transaction that reads also tells its outcome: after one that does not, *)
(* the next check comes a second later and is counted too.                 *)
(***************************************************************************)

(* No transaction fails half way. *)
Acknowledged == Outcomes \cap {"lost", "nocommit"} = {}

(* A step of which no operator changes the failover delay. *)
SteadyOrder(s) ==
  \/ KillManager(s) \/ RestartManager(s) \/ Pause(s)
  \/ \E o \in Outcomes : Stop(s, o)
  \/ \E n \in Names, o \in Outcomes : RemoveNodeCheck(s, n, o)

SteadyMove(s) == StartServer(s) \/ ManagerStep(s) \/ SteadyOrder(s)

SteadyStep == (\E s \in Servers : SteadyMove(s)) \/ Tick

LEMMA SteadyIsStep == SteadyStep => Step
BY DEF SteadyStep, SteadyMove, SteadyOrder, Step, Ordered

---------------------------------------------------------------------------
(* The invariant. *)

(* The earliest time of the next check that finds the row unchanged. *)
Due(i) == i.lastaccess_active + (i.offline_ticks_active + 1) * PollPeriod

(* The time of the next check. *)
NextTime(i, time) == time + i.nextcheck - (IF i.tick THEN 1 ELSE 0)

Registers(i) == i.pc \in {"init_create", "init_register", "create", "register"}
Polls(i) == i.pc \in {"loop", "remove"}

Patience(i, time) ==
  /\ i.failover_delay = DefaultDelay
  /\ Registers(i) => i.ha_status = "unknown"
  /\ i.ha_status = "unknown" => i.lastaccess_active = 0 /\ i.offline_ticks_active = 0
  /\ Polls(i) => i.nextcheck >= 1
  /\ Polls(i) /\ i.ha_status # "unknown" => Due(i) <= NextTime(i, time)

TimeInv ==
  /\ now >= 1 /\ settings = DefaultDelay
  /\ \A n \in Names : ha_node[n].lastaccess <= now

PatientInv == TimeInv /\ \A s \in Servers : Patience(info[s], now)

---------------------------------------------------------------------------
(* Arithmetic. *)

LEMMA DueFacts ==
  ASSUME NEW i \in Info, NEW row \in Row
  PROVE  /\ Due(i) \in Nat
         /\ i.lastaccess_active = 0 /\ i.offline_ticks_active = 0 => Due(i) = PollPeriod
         /\ IF row.lastaccess = i.lastaccess_active
              THEN Due(Watched(i, row)) = Due(i) + PollPeriod
              ELSE Due(Watched(i, row)) = row.lastaccess + PollPeriod
<1> DEFINE k == i.offline_ticks_active
           l == i.lastaccess_active
<1>1. k \in Nat /\ l \in Nat /\ PollPeriod \in Nat /\ row.lastaccess \in Nat
  BY ConfigAssumption DEF Info, Row
<1>2. /\ Watched(i, row).lastaccess_active = row.lastaccess
      /\ Watched(i, row).offline_ticks_active = IF row.lastaccess # l THEN 0 ELSE k + 1
  BY DEF Watched, Info
<1>3. Due(i) = l + (k + 1) * PollPeriod
  BY DEF Due
<1>4. Due(Watched(i, row)) =
        row.lastaccess + ((IF row.lastaccess # l THEN 0 ELSE k + 1) + 1) * PollPeriod
  BY <1>2 DEF Due
<1> HIDE DEF k, l
<1>5. (k + 1) * PollPeriod \in Nat /\ (k + 1 + 1) * PollPeriod = (k + 1) * PollPeriod + PollPeriod
  BY <1>1
<1>6. (0 + 1) * PollPeriod = PollPeriod
  BY <1>1
<1>7. Due(i) \in Nat
  BY <1>1, <1>3, <1>5
<1>8. l = 0 /\ k = 0 => Due(i) = PollPeriod
  BY <1>1, <1>3, <1>6
<1>9. CASE row.lastaccess = l
  BY <1>9, <1>1, <1>3, <1>4, <1>5, <1>7, <1>8 DEF k, l
<1>10. CASE row.lastaccess # l
  BY <1>10, <1>1, <1>4, <1>6, <1>7, <1>8 DEF k, l
<1> QED  BY <1>9, <1>10

(* A count above the number of poll periods in a delay takes longer. *)
LEMMA CountedDelay ==
  ASSUME NEW delay \in Nat, NEW count \in Nat, delay \div PollPeriod < count
  PROVE  delay < count * PollPeriod
<1> DEFINE q == delay \div PollPeriod
<1>1. PollPeriod \in Nat \ {0}
  BY ConfigAssumption
<1>2. q \in Nat /\ delay < (q + 1) * PollPeriod
  BY <1>1
<1>3. PICK e \in Nat : count = q + 1 + e
  <2>1. count - (q + 1) \in Nat
    BY <1>2
  <2> QED  BY <2>1, <1>2
<1> HIDE DEF q
<1>4. count * PollPeriod = (q + 1) * PollPeriod + e * PollPeriod
  BY <1>1, <1>2, <1>3
<1>5. e * PollPeriod \in Nat
  BY <1>1
<1>6. (q + 1) * PollPeriod \in Nat
  BY <1>1, <1>2
<1> QED  BY <1>2, <1>4, <1>5, <1>6

---------------------------------------------------------------------------
(* Every update of a row keeps the time of its last access, sets it to the *)
(* clock or takes the row away.                                            *)

RowTime(n) ==
  \/ ha_node'[n] = NoRow
  \/ ha_node'[n].lastaccess \in {ha_node[n].lastaccess, now}

LEMMA RowTimes ==
  ASSUME TypeInv, NEW n \in Names, NEW status \in RowStatuses, NEW session \in Nat
  PROVE  /\ NoRow.lastaccess = 0 /\ NewRow(nextid).lastaccess = now
         /\ Touched(n, status).lastaccess = now
         /\ [Touched(n, status) EXCEPT !.session = session].lastaccess = now
         /\ MarkUnavailable(n).lastaccess = ha_node[n].lastaccess
         /\ [ha_node[n] EXCEPT !.lastaccess = now].lastaccess = now
         /\ [ha_node[n] EXCEPT !.status = "stopped"].lastaccess = ha_node[n].lastaccess
BY DEF TypeInv, TypeOK, Row, RowStatuses, NoRow, NewRow, Touched, MarkUnavailable

LEMMA RegisterTimes ==
  ASSUME TypeInv, NEW s \in Servers, NEW o \in Outcomes, NEW n \in Names,
         CreateNode(s, o) \/ RegisterNode(s, o)
  PROVE  RowTime(n)
<1>0. NameOf[s] \in Names /\ ha_sessionid[s] \in Nat
  BY ConfigAssumption DEF TypeInv, TypeOK
<1>1. CASE CreateNode(s, o)
  <2>1. ha_node' = ha_node \/ ha_node' = [ha_node EXCEPT ![NameOf[s]] = NewRow(nextid)]
    BY <1>1 DEF CreateNode, registry
  <2>2. NewRow(nextid).lastaccess = now
    BY RowTimes, <1>0 DEF NewRow
  <2> QED  BY <2>1, <2>2 DEF RowTime, TypeInv, TypeOK
<1>2. CASE RegisterNode(s, o)
  <2>1. \/ ha_node' = ha_node
        \/ \E status \in {"active", "standby"} : ha_node' = Registered(s, status)
    BY <1>2 DEF RegisterNode
  <2>2. ASSUME NEW status \in {"active", "standby"}
        PROVE  \/ Registered(s, status)[n] = NoRow
               \/ Registered(s, status)[n].lastaccess \in {ha_node[n].lastaccess, now}
    <3>1. status \in RowStatuses
      BY DEF RowStatuses
    <3>2. Registered(s, status)[n] \in
            {NoRow, [Touched(n, status) EXCEPT !.session = ha_sessionid[s]],
             MarkUnavailable(n), ha_node[n]}
      BY Zenon DEF Registered
    <3>3. [Touched(n, status) EXCEPT !.session = ha_sessionid[s]].lastaccess = now
      BY <3>1, <1>0, RowTimes
    <3>4. MarkUnavailable(n).lastaccess = ha_node[n].lastaccess
      BY <3>1, <1>0, RowTimes
    <3> QED  BY <3>2, <3>3, <3>4
  <2> QED  BY <2>1, <2>2 DEF RowTime
<1> QED  BY <1>1, <1>2

LEMMA CheckTimes ==
  ASSUME TypeInv, NEW s \in Servers, NEW o \in Outcomes, NEW n \in Names,
         \/ CheckStandalone(s, o) \/ CheckActive(s, o) \/ CheckPassive(s, o)
  PROVE  RowTime(n)
<1>1. info[s].ha_status \in {"active", "standby"}
  BY CheckOwnedType DEF CheckStandalone, CheckActive, CheckPassive
<1>2. CheckedInfo(s, o).ha_status = info[s].ha_status
  BY CheckedInfoType DEF TypeInv
<1>3. \A status \in {"active", "standby"} : status \in RowStatuses
  BY DEF RowStatuses
<1>4. ASSUME NEW status \in {"active", "standby"},
             ha_node'[n] \in {ha_node[n], Touched(n, status), MarkUnavailable(n)}
      PROVE  RowTime(n)
  BY <1>3, <1>4, RowTimes DEF RowTime, TypeInv, TypeOK
<1>5. CASE CheckStandalone(s, o)
  <2>1. ha_node'[n] \in {ha_node[n], Touched(n, info[s].ha_status), MarkUnavailable(n)}
    BY <1>5, <1>2 DEF CheckStandalone
  <2> QED  BY <2>1, <1>1, <1>4
<1>6. CASE CheckActive(s, o)
  <2>1. ha_node'[n] \in {ha_node[n], Touched(n, "active"), MarkUnavailable(n)}
    BY <1>6 DEF CheckActive
  <2> QED  BY <2>1, <1>4
<1>7. CASE CheckPassive(s, o)
  <2>1. ASSUME NEW i, NEW status \in {"active", "standby"}, NEW taken,
               EndPassive(s, o, i, status, taken)
        PROVE  RowTime(n)
    <3>1. ha_node'[n] \in {ha_node[n], Touched(n, status), MarkUnavailable(n)}
      BY <2>1 DEF EndPassive, Passed
    <3> QED  BY <3>1, <1>4
  <2>2. CASE ha_node' = ha_node
    BY <2>2, <1>1, <1>4
  <2>3. \/ ha_node' = ha_node
        \/ \E i, taken : \E status \in {"active", "standby"} :
             EndPassive(s, o, i, status, taken)
    BY <1>7 DEF CheckPassive
  <2> QED  BY <2>1, <2>2, <2>3
<1> QED  BY <1>5, <1>6, <1>7

LEMMA UpdateTimes ==
  ASSUME TypeInv, NEW s \in Servers, NEW o \in Outcomes, NEW n \in Names,
         \/ UpdateLastaccess(s, o) \/ UpdateExitStatus(s, o) \/ RemoveNodeDelete(s, o)
  PROVE  RowTime(n)
<1>1. ha_node'[n] \in {ha_node[n], NoRow, [ha_node[n] EXCEPT !.lastaccess = now],
                       [ha_node[n] EXCEPT !.status = "stopped"]}
  BY DEF UpdateLastaccess, UpdateExitStatus, RemoveNodeDelete
<1>2. "stopped" \in RowStatuses /\ 0 \in Nat
  BY DEF RowStatuses
<1> QED  BY <1>1, <1>2, RowTimes DEF RowTime

LEMMA MoveTimes ==
  ASSUME TypeInv, NEW s \in Servers, SteadyMove(s), NEW n \in Names
  PROVE  RowTime(n)
<1>1. CASE ha_node' = ha_node
  BY <1>1 DEF RowTime
<1>2. CASE StartServer(s)
  BY <1>2, <1>1 DEF StartServer
<1>3. CASE SteadyOrder(s)
  <2>1. \/ ha_node' = ha_node \/ \E o \in Outcomes : UpdateLastaccess(s, o)
    BY <1>3 DEF SteadyOrder, KillManager, RestartManager, Pause, Stop, RemoveNodeCheck, registry
  <2> QED  BY <2>1, <1>1, UpdateTimes
<1>4. CASE ManagerStep(s)
  <2>1. ASSUME CheckNodes(s) PROVE RowTime(n)
    BY <2>1, <1>1, CheckTimes DEF CheckNodes, CheckNoDatabase, CheckError, CheckSplitBrain
  <2>2. ASSUME ManagerTick(s) \/ RegisterAgain(s) \/ PausedWait(s) PROVE RowTime(n)
    BY <2>2, <1>1 DEF ManagerTick, RegisterAgain, PausedWait, registry
  <2>3. ASSUME NEW o \in Outcomes,
               \/ CreateNode(s, o) \/ RegisterNode(s, o) \/ RemoveNodeDelete(s, o)
               \/ PausedUpdate(s, o) \/ UpdateExitStatus(s, o)
        PROVE  RowTime(n)
    BY <2>3, RegisterTimes, UpdateTimes DEF PausedUpdate
  <2> QED  BY <1>4, <2>1, <2>2, <2>3 DEF ManagerStep
<1> QED  BY <1>2, <1>3, <1>4 DEF SteadyMove

---------------------------------------------------------------------------
(* What each step leaves of the patience of the managers. *)

LEMMA PatientMove ==
  ASSUME TypeInv, PatientInv, NEW s \in Servers, NEW i,
         info' = [info EXCEPT ![s] = i], UNCHANGED <<settings, now>>,
         \A n \in Names : RowTime(n),
         Patience(i, now)
  PROVE  PatientInv'
<1>1. /\ now \in Nat /\ NoRow.lastaccess = 0
      /\ \A n \in Names : ha_node[n].lastaccess \in Nat
  BY DEF TypeInv, TypeOK, Row, NoRow
<1>2. TimeInv'
  BY <1>1 DEF PatientInv, TimeInv, RowTime
<1>3. ASSUME NEW t \in Servers PROVE Patience(info'[t], now)
  <2>1. info'[t] = IF t = s THEN i ELSE info[t]
    BY DEF TypeInv, TypeOK
  <2> QED  BY <2>1 DEF PatientInv
<1>4. \A t \in Servers : Patience(info'[t], now')
  BY <1>3
<1> QED  BY <1>2, <1>4 DEF PatientInv

LEMMA ResumedFields ==
  ASSUME NEW s \in Servers, NEW i \in Info
  PROVE  /\ Resumed(s, i).pc = (IF i.ha_status = "error" THEN "paused" ELSE "loop")
         /\ Resumed(s, i).tick = (info[s].pc \in {"init_create", "init_register"})
         /\ Resumed(s, i).nextcheck =
              IF info[s].pc \in {"init_create", "init_register"}
                THEN IF i.ha_status = "standby" THEN 3 * PollPeriod ELSE PollPeriod
                ELSE IF i.db_status = "ok" THEN PollPeriod ELSE 1
         /\ Resumed(s, i).ha_status = i.ha_status
         /\ Resumed(s, i).failover_delay = i.failover_delay
         /\ Resumed(s, i).lastaccess_active = i.lastaccess_active
         /\ Resumed(s, i).offline_ticks_active = i.offline_ticks_active
         /\ Resumed(s, i).ha_nodeid = i.ha_nodeid
         /\ Resumed(s, i).db_status = i.db_status
         /\ Due(Resumed(s, i)) = Due(i)
BY DEF Resumed, Info, Due

(* The end of a registration, in which the manager has seen no row yet, or *)
(* of a check, after which the next one is a period or a second away.      *)
LEMMA ResumedPatience ==
  ASSUME TypeInv, PatientInv, NEW s \in Servers, NEW i \in Info,
         i.failover_delay = DefaultDelay,
         i.ha_status = "unknown" => i.lastaccess_active = 0 /\ i.offline_ticks_active = 0,
         \/ /\ Due(i) = PollPeriod
            /\ i.ha_status \in {"active", "standby"} => i.db_status = "ok"
         \/ ~Registers(info[s]) /\ i.db_status = "ok" /\ Due(i) <= now + PollPeriod
         \/ ~Registers(info[s]) /\ Due(i) <= now + 1
  PROVE  Patience(Resumed(s, i), now)
<1> DEFINE j == Resumed(s, i)
           first == info[s].pc \in {"init_create", "init_register"}
<1>1. PollPeriod \in Nat \ {0} /\ now \in Nat /\ now >= 1 /\ Due(i) \in Nat
  <2>1. Due(i) \in Nat
    BY ConfigAssumption DEF Due, Info
  <2> QED  BY <2>1, ConfigAssumption DEF TypeInv, TypeOK, PatientInv, TimeInv
<1>2. /\ j.pc = (IF i.ha_status = "error" THEN "paused" ELSE "loop")
      /\ j.tick = first
      /\ j.nextcheck = IF first
                         THEN IF i.ha_status = "standby" THEN 3 * PollPeriod ELSE PollPeriod
                         ELSE IF i.db_status = "ok" THEN PollPeriod ELSE 1
      /\ j.ha_status = i.ha_status
      /\ j.failover_delay = i.failover_delay
      /\ j.lastaccess_active = i.lastaccess_active
      /\ j.offline_ticks_active = i.offline_ticks_active
      /\ Due(j) = Due(i)
  BY ResumedFields
<1>3. first => Registers(info[s])
  BY DEF Registers
<1>4. i.ha_status \in Statuses
  BY DEF Info
<1>9. /\ first => j.tick = TRUE /\ j.nextcheck >= PollPeriod
      /\ ~first => j.tick = FALSE /\ j.nextcheck = IF i.db_status = "ok" THEN PollPeriod ELSE 1
  <2>1. CASE first
    <3>1. j.tick = TRUE
      BY <2>1, <1>2
    <3>2. j.nextcheck = IF i.ha_status = "standby" THEN 3 * PollPeriod ELSE PollPeriod
      BY <2>1, <1>2
    <3> QED  BY <2>1, <3>1, <3>2, <1>1
  <2>2. CASE ~first
    <3>3. first = FALSE
      BY <2>2
    <3>4. j.tick = first
      BY <1>2, Zenon
    <3>1. j.tick = FALSE
      BY <3>3, <3>4, Zenon
    <3>2. j.nextcheck = IF i.db_status = "ok" THEN PollPeriod ELSE 1
      BY <2>2, <1>2, Zenon
    <3> QED  BY <2>2, <3>1, <3>2
  <2> QED  BY <2>1, <2>2
<1> HIDE DEF j, first
<1>5. j.nextcheck \in Nat /\ j.nextcheck >= 1
  BY <1>1, <1>2
<1>6. ASSUME i.ha_status \in {"active", "standby"}
      PROVE  Due(j) <= NextTime(j, now)
  <2>1. CASE first
    <3>1. Due(j) = PollPeriod /\ j.tick = TRUE /\ j.nextcheck >= PollPeriod
      BY <2>1, <1>2, <1>3, <1>9
    <3> QED  BY <3>1, <1>1, <1>5 DEF NextTime
  <2>2. CASE ~first
    <3>1. j.tick = FALSE /\ j.nextcheck = IF i.db_status = "ok" THEN PollPeriod ELSE 1
      BY <2>2, <1>9
    <3>2. NextTime(j, now) = now + j.nextcheck
      BY <3>1, <1>1, <1>5 DEF NextTime
    <3> QED  BY <3>1, <3>2, <1>1, <1>2, <1>6
  <2> QED  BY <2>1, <2>2
<1>7. ~Registers(j) /\ (Polls(j) => j.ha_status # "error")
  BY <1>2 DEF Registers, Polls
<1>8. Patience(j, now)
  BY <1>2, <1>4, <1>5, <1>6, <1>7 DEF Patience, Statuses
<1> QED  BY <1>8 DEF j

(* A manager that goes on as it was, stops polling or ends in error. *)
LEMMA SamePatience ==
  ASSUME NEW i \in Info, NEW j \in Info, NEW time, Patience(i, time),
         j.failover_delay = i.failover_delay,
         j.lastaccess_active = i.lastaccess_active,
         j.offline_ticks_active = i.offline_ticks_active,
         j.ha_status \in {i.ha_status, "error"},
         Registers(j) => Registers(i) /\ j.ha_status = i.ha_status,
         Polls(j) => /\ Polls(i) /\ j.nextcheck = i.nextcheck /\ j.tick = i.tick
                     /\ j.ha_status = i.ha_status
  PROVE  Patience(j, time)
<1>1. Due(j) = Due(i)
  BY DEF Due
<1>2. Polls(j) => NextTime(j, time) = NextTime(i, time)
  BY DEF NextTime
<1>3. j.ha_status = "unknown" => i.ha_status = "unknown"
  OBVIOUS
<1> QED  BY <1>1, <1>2, <1>3 DEF Patience

(* A manager that was started, and one that is off. *)
LEMMA StartedPatience ==
  ASSUME NEW time \in Nat, time >= 1, NEW status \in {"unknown", "standby"}
  PROVE  Patience(StartedInfo(status), time) /\ Patience(OffInfo, time)
<1>1. PollPeriod \in Nat \ {0}
  BY ConfigAssumption
<1>2. StartedInfo(status) \in Info /\ NoRow \in Row
  BY StartedInfoType DEF Statuses, NoRow, Row, RowStatuses
<1>3. Due(StartedInfo(status)) = PollPeriod
  BY <1>2, DueFacts DEF StartedInfo
<1>4. NextTime(StartedInfo("standby"), time) = time + 3 * PollPeriod - 1
  BY <1>1 DEF NextTime, StartedInfo
<1>5. PollPeriod <= time + 3 * PollPeriod - 1 /\ 3 * PollPeriod >= 1
  BY <1>1
<1>8. Patience(OffInfo, time)
  BY DEF Patience, OffInfo, StartedInfo, Registers, Polls
<1> DEFINE i == StartedInfo(status)
<1>9. /\ i.pc = (IF status = "unknown" THEN "init_create" ELSE "loop")
      /\ i.ha_status = status /\ i.failover_delay = DefaultDelay
      /\ i.lastaccess_active = 0 /\ i.offline_ticks_active = 0
      /\ i.nextcheck = IF status = "standby" THEN 3 * PollPeriod ELSE PollPeriod
  BY DEF StartedInfo
<1>6. CASE status = "unknown"
  <2>1. Registers(i) /\ ~Polls(i)
    BY <1>6, <1>9 DEF Registers, Polls
  <2>2. Patience(i, time)
    BY <1>6, <1>9, <2>1 DEF Patience
  <2> QED  BY <2>2, <1>8
<1>7. CASE status = "standby"
  <2>1. ~Registers(i)
    BY <1>7, <1>9 DEF Registers
  <2>2. Due(i) <= NextTime(i, time) /\ i.nextcheck >= 1
    BY <1>7, <1>3, <1>4, <1>5, <1>9
  <2>3. Patience(i, time)
    BY <1>7, <1>9, <2>1, <2>2 DEF Patience
  <2> QED  BY <2>3, <1>8
<1> QED  BY <1>6, <1>7

LEMMA ToRegisterPatient ==
  ASSUME TypeInv, PatientInv, NEW s \in Servers, NEW i \in Info, ToRegister(s, i),
         Registers(i), i.failover_delay = DefaultDelay, i.ha_status = "unknown",
         i.lastaccess_active = 0, i.offline_ticks_active = 0
  PROVE  \E j : info' = [info EXCEPT ![s] = j] /\ Patience(j, now)
<1> DEFINE j == [i EXCEPT !.pc = IF @ = "create" THEN "register" ELSE "init_register"]
<1>1. CASE i.ha_nodeid = 0
  <2>1. Due(i) = PollPeriod
    <3>1. NoRow \in Row
      BY DEF NoRow, Row, RowStatuses
    <3> QED  BY <3>1, DueFacts
  <2>2. Patience(Resumed(s, i), now)
    BY <2>1, ResumedPatience
  <2> QED  BY <1>1, <2>2 DEF ToRegister, Resume
<1>2. CASE i.ha_nodeid # 0
  <2>1. info' = [info EXCEPT ![s] = j]
    BY <1>2 DEF ToRegister
  <2>2. /\ j.pc \in {"register", "init_register"} /\ j.ha_status = "unknown"
        /\ j.failover_delay = DefaultDelay
        /\ j.lastaccess_active = 0 /\ j.offline_ticks_active = 0
    BY DEF Info
  <2>3. Patience(j, now)
    BY <2>2 DEF Patience, Polls
  <2> QED  BY <2>1, <2>3
<1> QED  BY <1>1, <1>2

LEMMA RegistersPatient ==
  ASSUME TypeInv, PatientInv, NEW s \in Servers, NEW o \in Outcomes,
         CreateNode(s, o) \/ RegisterNode(s, o)
  PROVE  PatientInv'
<1> DEFINE Done == \E j : info' = [info EXCEPT ![s] = j] /\ Patience(j, now)
           me == NameOf[s]
<1>1. /\ info[s] \in Info /\ me \in Names /\ ha_node[me] \in Row
      /\ settings \in Nat /\ nextid \in Nat /\ settings = DefaultDelay
      /\ Patience(info[s], now)
  BY ConfigAssumption DEF TypeInv, TypeOK, PatientInv, TimeInv
<1>2. /\ Registers(info[s]) /\ info[s].ha_status = "unknown"
      /\ info[s].failover_delay = DefaultDelay
      /\ info[s].lastaccess_active = 0 /\ info[s].offline_ticks_active = 0
  BY <1>1 DEF CreateNode, RegisterNode, Registers, Patience
<1>3. ASSUME NEW i \in Info, i.failover_delay = DefaultDelay,
             i.lastaccess_active = 0, i.offline_ticks_active = 0,
             i.ha_status \in {"active", "standby"} => i.db_status = "ok",
             Resume(s, i)
      PROVE  Done
  <2>1. Due(i) = PollPeriod
    <3>1. NoRow \in Row
      BY DEF NoRow, Row, RowStatuses
    <3> QED  BY <1>3, <3>1, DueFacts
  <2>2. Patience(Resumed(s, i), now)
    BY <1>3, <2>1, ResumedPatience
  <2> QED  BY <1>3, <2>2 DEF Resume
<1>4. DbStatus(o) \in {"ok", "down", "fail"}
  BY DEF DbStatus
<1>5. ASSUME CreateNode(s, o) PROVE Done
  <2> DEFINE i == [info[s] EXCEPT !.db_status = DbStatus(o), !.failover_delay = settings]
             Fits(x) == /\ x \in Info /\ x.pc = info[s].pc
                        /\ x.failover_delay = DefaultDelay /\ x.ha_status = "unknown"
                        /\ x.lastaccess_active = 0 /\ x.offline_ticks_active = 0
  <2>1. /\ Fits(i) /\ Fits([info[s] EXCEPT !.db_status = "down"])
        /\ Fits([i EXCEPT !.ha_nodeid = ha_node[me].nodeid])
        /\ Fits([i EXCEPT !.ha_nodeid = nextid])
    BY <1>1, <1>2, <1>4 DEF Info, Row
  <2>2. ASSUME NEW x, Fits(x), ToRegister(s, x)
        PROVE  Done
    <3>1. Registers(x)
      BY <1>2, <2>2 DEF Registers
    <3> QED  BY <2>2, <3>1, ToRegisterPatient
  <2>3. ASSUME NEW x, Fits(x), Resume(s, Failed(x))
        PROVE  Done
    <3>1. /\ Failed(x) \in Info /\ Failed(x).failover_delay = DefaultDelay
          /\ Failed(x).lastaccess_active = 0 /\ Failed(x).offline_ticks_active = 0
          /\ Failed(x).ha_status = "error"
      BY <2>3 DEF Failed, Info, Statuses
    <3> QED  BY <2>3, <3>1, <1>3
  <2>4. Fits(info[s])
    BY <1>1, <1>2
  <2>5. \/ \E x : Fits(x) /\ ToRegister(s, x)
        \/ \E x : Fits(x) /\ Resume(s, Failed(x))
    <3> DEFINE down == [info[s] EXCEPT !.db_status = "down"]
               found == [i EXCEPT !.ha_nodeid = ha_node[me].nodeid]
               made == [i EXCEPT !.ha_nodeid = nextid]
    <3>1. \/ ToRegister(s, down) \/ ToRegister(s, i)
          \/ ToRegister(s, found) \/ ToRegister(s, made)
          \/ Resume(s, Failed(info[s])) \/ Resume(s, Failed(i))
      BY <1>5 DEF CreateNode
    <3> HIDE DEF i, down, found, made, Fits
    <3> QED  BY <3>1, <2>1, <2>4 DEF down, found, made
  <2> QED  BY <2>2, <2>3, <2>5, Zenon
<1>6. ASSUME RegisterNode(s, o) PROVE Done
  <2> DEFINE i == [info[s] EXCEPT !.db_status = DbStatus(o)]
             Fits(x) == /\ x \in Info
                        /\ x.failover_delay = DefaultDelay
                        /\ x.ha_status \in {"active", "standby"} => x.db_status = "ok"
                        /\ x.lastaccess_active = 0 /\ x.offline_ticks_active = 0
  <2>1. Fits(i) /\ Fits(Failed(i))
    BY <1>1, <1>2, <1>4 DEF Info, Failed, Statuses
  <2>2. o = "ok" => Fits([i EXCEPT !.ha_status = "active"])
                    /\ Fits([i EXCEPT !.ha_status = "standby"])
    BY <1>1, <1>2, <1>4 DEF Info, Statuses, DbStatus
  <2>3. \/ Resume(s, i) \/ Resume(s, Failed(i))
        \/ o = "ok" /\ Resume(s, [i EXCEPT !.ha_status = "active"])
        \/ o = "ok" /\ Resume(s, [i EXCEPT !.ha_status = "standby"])
    BY <1>6 DEF RegisterNode
  <2>4. \E x : Fits(x) /\ Resume(s, x)
    <3> DEFINE active == [i EXCEPT !.ha_status = "active"]
               standby == [i EXCEPT !.ha_status = "standby"]
    <3>1. \/ Resume(s, i) \/ Resume(s, Failed(i))
          \/ o = "ok" /\ Resume(s, active)
          \/ o = "ok" /\ Resume(s, standby)
      BY <2>3
    <3>2. o = "ok" => Fits(active) /\ Fits(standby)
      BY <2>2
    <3> HIDE DEF i, active, standby, Fits
    <3> QED  BY <3>1, <3>2, <2>1
  <2> QED  BY <2>4, <1>3, Zenon
<1>7. PICK j : info' = [info EXCEPT ![s] = j] /\ Patience(j, now)
  BY <1>5, <1>6, Zenon
<1>8. UNCHANGED <<settings, now>>
  BY DEF CreateNode, RegisterNode, registry
<1>9. \A n \in Names : RowTime(n)
  BY RegisterTimes
<1> QED  BY <1>7, <1>8, <1>9, PatientMove

(* What a check starts from and ends with. *)
LEMMA CheckResumed ==
  ASSUME TypeInv, PatientInv, NEW s \in Servers, CheckDue(s),
         NEW i \in Info, Resume(s, i),
         i.failover_delay = DefaultDelay, i.ha_status # "unknown",
         \/ Due(i) = Due(info[s])
         \/ Due(i) <= now + PollPeriod /\ i.db_status = "ok",
         info[s].ha_status # "unknown",
         \A n \in Names : RowTime(n), UNCHANGED <<settings, now>>
  PROVE  PatientInv'
<1>1. /\ info[s] \in Info /\ Patience(info[s], now) /\ now \in Nat
      /\ ~Registers(info[s]) /\ Polls(info[s])
      /\ info[s].tick = TRUE /\ info[s].nextcheck = 1
  BY DEF TypeInv, TypeOK, PatientInv, CheckDue, Registers, Polls, Info
<1>2. Due(info[s]) <= now
  <2>1. NextTime(info[s], now) = now
    BY <1>1 DEF NextTime
  <2> QED  BY <1>1, <2>1 DEF Patience
<1>3. Due(i) \in Nat /\ Due(info[s]) \in Nat
  BY <1>1, ConfigAssumption DEF Due, Info
<1>4. Due(i) = Due(info[s]) => Due(i) <= now + 1
  BY <1>1, <1>2, <1>3
<1>5. Patience(Resumed(s, i), now)
  BY <1>1, <1>4, ResumedPatience
<1> QED  BY <1>5, PatientMove DEF Resume

(* What a standby node learns of the age of the active row.  Its checks   *)
(* are a poll period apart, so the row is older than the delay when the   *)
(* count has passed the delay.                                            *)
LEMMA WatchedPatience ==
  ASSUME TypeInv, PatientInv, NEW s \in Servers, NEW o \in Outcomes, CheckPassive(s, o),
         NEW a \in Names
  PROVE  LET j == Watched(CheckedInfo(s, o), ha_node[a])
         IN  /\ Due(j) <= now + PollPeriod
             /\ j.failover_delay \div PollPeriod < j.offline_ticks_active =>
                  ha_node[a].lastaccess + DefaultDelay < now
<1> DEFINE i == CheckedInfo(s, o)
           j == Watched(i, ha_node[a])
           l == ha_node[a].lastaccess
<1>1. /\ info[s] \in Info /\ Patience(info[s], now) /\ now \in Nat
      /\ Polls(info[s]) /\ info[s].tick = TRUE /\ info[s].nextcheck = 1
      /\ info[s].ha_status # "unknown"
      /\ ha_node[a] \in Row /\ l \in Nat /\ l <= now
      /\ settings = DefaultDelay /\ PollPeriod \in Nat \ {0} /\ DefaultDelay \in Nat
  BY ConfigAssumption DEF TypeInv, TypeOK, PatientInv, TimeInv, CheckPassive, CheckOwned,
     CheckStart, CheckDue, Polls, Info, Row
<1>2. Due(info[s]) <= now
  <2>1. NextTime(info[s], now) = now
    BY <1>1 DEF NextTime
  <2> QED  BY <1>1, <2>1 DEF Patience
<1>3. /\ i \in Info /\ i.failover_delay = DefaultDelay
      /\ i.lastaccess_active = info[s].lastaccess_active
      /\ i.offline_ticks_active = info[s].offline_ticks_active
  BY <1>1, CheckedInfoType, ZenonT(40) DEF CheckedInfo, TypeInv, Info
<1>4. Due(i) = Due(info[s]) /\ Due(i) \in Nat
  BY <1>1, <1>3 DEF Due, Info
<1>5. IF l = i.lastaccess_active THEN Due(j) = Due(i) + PollPeriod
                                 ELSE Due(j) = l + PollPeriod
  BY <1>1, <1>3, DueFacts
<1>6. Due(j) <= now + PollPeriod
  BY <1>1, <1>2, <1>4, <1>5
<1>7. ASSUME j.failover_delay \div PollPeriod < j.offline_ticks_active
      PROVE  l + DefaultDelay < now
  <2> DEFINE k == i.offline_ticks_active
             q == DefaultDelay \div PollPeriod
  <2>1. /\ j.failover_delay = DefaultDelay
        /\ j.offline_ticks_active = IF l # i.lastaccess_active THEN 0 ELSE k + 1
    BY <1>3 DEF Watched, Info
  <2>2. k \in Nat /\ q \in Nat
    BY <1>1, <1>3 DEF Info
  <2>3. l = i.lastaccess_active /\ q < k + 1
    <3>1. q < j.offline_ticks_active
      BY <1>7, <2>1
    <3> HIDE DEF q, j, k, l
    <3> QED  BY <3>1, <2>1, <2>2
  <2>4. DefaultDelay < (k + 1) * PollPeriod
    BY <1>1, <2>2, <2>3, CountedDelay
  <2>5. Due(i) = l + (k + 1) * PollPeriod
    BY <2>3 DEF Due
  <2>6. (k + 1) * PollPeriod \in Nat
    BY <1>1, <2>2
  <2> HIDE DEF k
  <2> QED  BY <1>1, <1>2, <1>4, <2>4, <2>5, <2>6
<1> QED  BY <1>6, <1>7

LEMMA ChecksPatient ==
  ASSUME TypeInv, PatientInv, Acknowledged, NEW s \in Servers, CheckNodes(s)
  PROVE  PatientInv'
<1>1. /\ info[s] \in Info /\ Patience(info[s], now) /\ settings = DefaultDelay
  BY DEF TypeInv, TypeOK, PatientInv, TimeInv
<1>2. ASSUME NEW o, CheckStart(s, o)
      PROVE  /\ CheckDue(s) /\ info[s].ha_status # "unknown"
             /\ info[s].failover_delay = DefaultDelay
             /\ UNCHANGED <<settings, now>>
  BY <1>1, <1>2 DEF CheckStart, Patience
<1>3. ASSUME ha_node' = ha_node PROVE \A n \in Names : RowTime(n)
  BY <1>3 DEF RowTime
<1>4. ASSUME CheckNoDatabase(s) PROVE PatientInv'
  <2> DEFINE i == [info[s] EXCEPT !.db_status = "down"]
  <2>1. /\ i \in Info /\ i.ha_status = info[s].ha_status
        /\ i.failover_delay = info[s].failover_delay /\ Due(i) = Due(info[s])
    BY <1>1 DEF Info, Due
  <2>2. Resume(s, i) /\ CheckStart(s, "nobegin") /\ ha_node' = ha_node
    BY <1>4 DEF CheckNoDatabase
  <2> HIDE DEF i
  <2> QED  BY <1>2, <1>3, <2>1, <2>2, CheckResumed
<1>5. ASSUME NEW o \in Outcomes, CheckError(s, o) PROVE PatientInv'
  <2> DEFINE i == Failed([info[s] EXCEPT !.db_status = DbStatus(o)])
  <2>1. DbStatus(o) \in {"ok", "down", "fail"}
    BY DEF DbStatus
  <2>2. /\ i \in Info /\ i.ha_status = "error"
        /\ i.failover_delay = info[s].failover_delay /\ Due(i) = Due(info[s])
    BY <1>1, <2>1 DEF Info, Due, Failed, Statuses
  <2>3. Resume(s, i) /\ CheckStart(s, o) /\ ha_node' = ha_node
    BY <1>5 DEF CheckError
  <2> HIDE DEF i
  <2> QED  BY <1>2, <1>3, <2>2, <2>3, CheckResumed
<1>6. ASSUME NEW o \in Outcomes, CheckOwned(s, o)
      PROVE  /\ CheckedInfo(s, o) \in Info /\ Due(CheckedInfo(s, o)) = Due(info[s])
             /\ CheckedInfo(s, o).ha_status = info[s].ha_status
             /\ CheckedInfo(s, o).failover_delay = DefaultDelay
             /\ CheckedInfo(s, o).db_status = "ok"
             /\ CheckDue(s) /\ info[s].ha_status # "unknown"
             /\ UNCHANGED <<settings, now>>
  <2>1. o = "ok"
    BY <1>6, ConfigAssumption DEF CheckOwned, Acknowledged, AllOutcomes
  <2>2. /\ CheckedInfo(s, o) \in Info
        /\ CheckedInfo(s, o).ha_status = info[s].ha_status
    BY CheckedInfoType DEF TypeInv
  <2>3. /\ Due(CheckedInfo(s, o)) = Due(info[s])
        /\ CheckedInfo(s, o).failover_delay = DefaultDelay
        /\ CheckedInfo(s, o).db_status = "ok"
    BY <1>1, <2>1 DEF CheckedInfo, Due, DbStatus, Info
  <2> QED  BY <1>2, <1>6, <2>2, <2>3 DEF CheckOwned
<1>7. ASSUME NEW o \in Outcomes, CheckOwned(s, o), NEW i \in Info, Resume(s, i),
             i.failover_delay = DefaultDelay, i.ha_status # "unknown",
             \/ Due(i) = Due(info[s])
             \/ Due(i) <= now + PollPeriod /\ i.db_status = "ok",
             \A n \in Names : RowTime(n)
      PROVE  PatientInv'
  BY <1>6, <1>7, CheckResumed
<1>8. ASSUME NEW o \in Outcomes, CheckStandalone(s, o) \/ CheckActive(s, o)
      PROVE  PatientInv'
  <2>1. Resume(s, CheckedInfo(s, o)) /\ CheckOwned(s, o)
    BY <1>8 DEF CheckStandalone, CheckActive
  <2>2. \A n \in Names : RowTime(n)
    BY <1>8, CheckTimes
  <2> QED  BY <2>1, <2>2, <1>6, <1>7
<1>9. ASSUME NEW o \in Outcomes, CheckSplitBrain(s, o) PROVE PatientInv'
  <2> DEFINE i == CheckedInfo(s, o)
             standby == [i EXCEPT !.ha_status = "standby"]
  <2>1. CheckOwned(s, o) /\ (Resume(s, i) \/ Resume(s, standby)) /\ ha_node' = ha_node
    BY <1>9 DEF CheckSplitBrain
  <2>2. i \in Info
    BY <2>1, <1>6
  <2>3. /\ standby \in Info /\ standby.ha_status = "standby"
        /\ standby.failover_delay = i.failover_delay /\ Due(standby) = Due(i)
    BY <2>2 DEF Info, Statuses, Due
  <2> HIDE DEF i, standby
  <2>4. CASE Resume(s, i)
    BY <2>1, <2>4, <1>3, <1>6, <1>7 DEF i
  <2>5. CASE Resume(s, standby)
    BY <2>1, <2>5, <2>3, <1>3, <1>6, <1>7 DEF i
  <2> QED  BY <2>1, <2>4, <2>5
<1>10. ASSUME NEW o \in Outcomes, CheckPassive(s, o) PROVE PatientInv'
  <2> DEFINE i == CheckedInfo(s, o)
             Fits(x) == /\ x \in Info /\ x.failover_delay = DefaultDelay
                        /\ x.db_status = "ok" /\ x.ha_status # "unknown"
                        /\ Due(x) = Due(info[s]) \/ Due(x) <= now + PollPeriod
  <2>1. CheckOwned(s, o)
    BY <1>10 DEF CheckPassive
  <2>2. i \in Info /\ Fits(i)
    BY <2>1, <1>6
  <2>3. ASSUME NEW x, Fits(x), NEW status \in {"active", "standby", "error"}
        PROVE  Fits([x EXCEPT !.ha_status = status])
    BY <2>3 DEF Info, Statuses, Due
  <2>4. ASSUME NEW a \in Names PROVE Fits(Watched(i, ha_node[a]))
    <3>1. Due(Watched(i, ha_node[a])) <= now + PollPeriod
      BY <1>10, WatchedPatience
    <3>2. ha_node[a] \in Row
      BY DEF TypeInv, TypeOK
    <3>3. /\ Watched(i, ha_node[a]) \in Info
          /\ Watched(i, ha_node[a]).failover_delay = i.failover_delay
          /\ Watched(i, ha_node[a]).db_status = i.db_status
          /\ Watched(i, ha_node[a]).ha_status = i.ha_status
      <4>1. Watched(i, ha_node[a]) \in Info
        BY <2>2, <3>2, WatchedType
      <4> QED  BY <2>2, <4>1 DEF Watched, Info
    <3> QED  BY <2>2, <3>1, <3>3
  <2>5. ASSUME NEW x, Fits(x), Resume(s, x) PROVE PatientInv'
    <3>1. \A n \in Names : RowTime(n)
      BY <1>10, CheckTimes
    <3> QED  BY <2>1, <2>5, <3>1, <1>7
  <2> HIDE DEF Fits
  <2>6. ASSUME NEW x, Fits(x), NEW status \in {"active", "standby"}, NEW taken,
               EndPassive(s, o, x, status, taken)
        PROVE  PatientInv'
    <3>1. Resume(s, [x EXCEPT !.ha_status = status]) \/ Resume(s, x)
      BY <2>6 DEF EndPassive
    <3> QED  BY <3>1, <2>3, <2>5, <2>6
  <2>7. CASE Resume(s, Failed(i))
    BY <2>7, <2>2, <2>3, <2>5 DEF Failed
  <2>8. CASE EndPassive(s, o, i, "active", {})
    BY <2>8, <2>2, <2>6
  <2>9. CASE \E a \in Names : \E taken : \E status \in {"active", "standby"} :
                EndPassive(s, o, Watched(i, ha_node[a]), status, taken)
    BY <2>9, <2>4, <2>6
  <2>10. \/ Resume(s, Failed(i))
         \/ EndPassive(s, o, i, "active", {})
         \/ \E a \in Names : \E taken : \E status \in {"active", "standby"} :
                EndPassive(s, o, Watched(i, ha_node[a]), status, taken)
    BY <1>10 DEF CheckPassive
  <2> QED  BY <2>7, <2>8, <2>9, <2>10
<1> QED  BY <1>4, <1>5, <1>8, <1>9, <1>10 DEF CheckNodes

(* The other steps of the manager: it waits, registers again, removes a    *)
(* row, is paused, or ends.                                                *)
LEMMA OtherStepsPatient ==
  ASSUME TypeInv, PatientInv, NEW s \in Servers,
         ManagerStep(s), ~CheckNodes(s),
         \A o \in Outcomes : ~CreateNode(s, o) /\ ~RegisterNode(s, o)
  PROVE  PatientInv'
<1>1. /\ info[s] \in Info /\ Patience(info[s], now) /\ now \in Nat /\ now >= 1
      /\ PollPeriod \in Nat \ {0}
  BY ConfigAssumption DEF TypeInv, TypeOK, PatientInv, TimeInv
<1>2. ASSUME NEW i, info' = [info EXCEPT ![s] = i], Patience(i, now),
             UNCHANGED <<settings, now>>
      PROVE  PatientInv'
  <2>1. \A n \in Names : RowTime(n)
    BY MoveTimes DEF SteadyMove
  <2> QED  BY <1>2, <2>1, PatientMove
<1>3. CASE ManagerTick(s)
  <2> DEFINE i == [info[s] EXCEPT !.nextcheck = @ - 1, !.tick = FALSE]
  <2>1. /\ info' = [info EXCEPT ![s] = i] /\ UNCHANGED <<settings, now>>
        /\ info[s].pc = "loop" /\ info[s].tick = TRUE /\ info[s].nextcheck > 1
    BY <1>1, <1>3 DEF ManagerTick, registry, Info
  <2>2. /\ i.pc = "loop" /\ i.ha_status = info[s].ha_status /\ i.tick = FALSE
        /\ i.nextcheck = info[s].nextcheck - 1 /\ info[s].nextcheck \in Nat
        /\ i.failover_delay = info[s].failover_delay
        /\ i.lastaccess_active = info[s].lastaccess_active
        /\ i.offline_ticks_active = info[s].offline_ticks_active
        /\ Due(i) = Due(info[s])
    BY <1>1, <2>1 DEF Info, Due
  <2> HIDE DEF i
  <2>3. NextTime(i, now) = NextTime(info[s], now) /\ i.nextcheck >= 1
    BY <1>1, <2>1, <2>2 DEF NextTime
  <2>4. Polls(info[s]) /\ ~Registers(i)
    BY <2>1, <2>2 DEF Polls, Registers
  <2>5. Patience(i, now)
    BY <1>1, <2>2, <2>3, <2>4 DEF Patience
  <2> QED  BY <1>2, <2>1, <2>5
<1>4. CASE RegisterAgain(s)
  <2> DEFINE i == [info[s] EXCEPT !.pc = "create"]
  <2>1. /\ info' = [info EXCEPT ![s] = i] /\ UNCHANGED <<settings, now>>
        /\ info[s].ha_status = "unknown"
    BY <1>4 DEF RegisterAgain, registry
  <2>2. /\ i.pc = "create" /\ i.ha_status = info[s].ha_status
        /\ i.failover_delay = info[s].failover_delay
        /\ i.lastaccess_active = info[s].lastaccess_active
        /\ i.offline_ticks_active = info[s].offline_ticks_active
    BY <1>1 DEF Info
  <2> HIDE DEF i
  <2>3. Patience(i, now)
    BY <1>1, <2>1, <2>2 DEF Patience, Polls
  <2> QED  BY <1>2, <2>1, <2>3
<1>5. ASSUME NEW o \in Outcomes, RemoveNodeDelete(s, o) PROVE PatientInv'
  <2> DEFINE i == [info[s] EXCEPT !.removing = 0, !.db_status = DbStatus(o),
                                  !.pc = IF o = "fail" THEN "paused" ELSE "loop",
                                  !.ha_status = IF o = "fail" THEN "error" ELSE @]
  <2>1. /\ info' = [info EXCEPT ![s] = i] /\ UNCHANGED <<settings, now>>
        /\ info[s].pc = "remove"
    BY <1>5 DEF RemoveNodeDelete
  <2>2. /\ i \in Info
        /\ i.pc = (IF o = "fail" THEN "paused" ELSE "loop")
        /\ i.ha_status = (IF o = "fail" THEN "error" ELSE info[s].ha_status)
        /\ i.failover_delay = info[s].failover_delay
        /\ i.lastaccess_active = info[s].lastaccess_active
        /\ i.offline_ticks_active = info[s].offline_ticks_active
        /\ i.nextcheck = info[s].nextcheck /\ i.tick = info[s].tick
    BY <1>1 DEF DbStatus, Info, Phases, Statuses
  <2> HIDE DEF i
  <2>3. /\ ~Registers(i) /\ Polls(info[s])
        /\ i.ha_status \in {info[s].ha_status, "error"}
        /\ Polls(i) => i.ha_status = info[s].ha_status
    BY <2>1, <2>2 DEF Registers, Polls
  <2>4. Patience(i, now)
    BY <1>1, <2>2, <2>3, SamePatience
  <2> QED  BY <1>2, <2>1, <2>4
<1>6. ASSUME NEW o \in Outcomes, PausedUpdate(s, o) PROVE PatientInv'
  <2> DEFINE i == [info[s] EXCEPT !.nextcheck = PollPeriod, !.tick = FALSE,
                                  !.ha_status = PausedStatus(s, o)]
  <2>1. /\ info' = [info EXCEPT ![s] = i] /\ UNCHANGED <<settings, now>>
        /\ info[s].pc = "paused"
    BY <1>6 DEF PausedUpdate
  <2>2. /\ i.pc = "paused" /\ i.ha_status \in {info[s].ha_status, "error"}
        /\ i.failover_delay = info[s].failover_delay
        /\ i.lastaccess_active = info[s].lastaccess_active
        /\ i.offline_ticks_active = info[s].offline_ticks_active
    BY <1>1, <2>1 DEF PausedStatus, Info
  <2> HIDE DEF i
  <2>3. Patience(i, now)
    BY <1>1, <2>2 DEF Patience, Registers, Polls
  <2> QED  BY <1>2, <2>1, <2>3
<1>7. ASSUME NEW o \in Outcomes, UpdateExitStatus(s, o) PROVE PatientInv'
  <2>1. info' = [info EXCEPT ![s] = OffInfo] /\ UNCHANGED <<settings, now>>
    BY <1>7 DEF UpdateExitStatus
  <2> QED  BY <1>1, <1>2, <2>1, StartedPatience
<1>8. CASE PausedWait(s)
  <2> DEFINE i == [info[s] EXCEPT !.nextcheck = @ - 1, !.tick = FALSE]
  <2>1. /\ info' = [info EXCEPT ![s] = i] /\ UNCHANGED <<settings, now>>
        /\ info[s].pc = "paused"
    BY <1>8 DEF PausedWait, registry
  <2>2. /\ i.pc = "paused" /\ i.ha_status = info[s].ha_status
        /\ i.failover_delay = info[s].failover_delay
        /\ i.lastaccess_active = info[s].lastaccess_active
        /\ i.offline_ticks_active = info[s].offline_ticks_active
    BY <1>1, <2>1 DEF Info
  <2> HIDE DEF i
  <2>3. Patience(i, now)
    BY <1>1, <2>2 DEF Patience, Registers, Polls
  <2> QED  BY <1>2, <2>1, <2>3
<1> QED  BY <1>3, <1>4, <1>5, <1>6, <1>7, <1>8 DEF ManagerStep

LEMMA OrderPatient ==
  ASSUME TypeInv, PatientInv, NEW s \in Servers, SteadyOrder(s)
  PROVE  PatientInv'
<1>1. /\ info[s] \in Info /\ Patience(info[s], now) /\ now \in Nat /\ now >= 1
      /\ PollPeriod \in Nat \ {0}
  BY ConfigAssumption DEF TypeInv, TypeOK, PatientInv, TimeInv
<1>2. ASSUME NEW i, info' = [info EXCEPT ![s] = i], Patience(i, now),
             UNCHANGED <<settings, now>>
      PROVE  PatientInv'
  <2>1. \A n \in Names : RowTime(n)
    BY MoveTimes DEF SteadyMove
  <2> QED  BY <1>2, <2>1, PatientMove
<1>3. CASE KillManager(s)
  <2>1. info' = [info EXCEPT ![s] = OffInfo] /\ UNCHANGED <<settings, now>>
    BY <1>3 DEF KillManager, registry
  <2> QED  BY <1>1, <1>2, <2>1, StartedPatience
<1>4. CASE RestartManager(s)
  <2>1. info' = [info EXCEPT ![s] = StartedInfo("standby")] /\ UNCHANGED <<settings, now>>
    BY <1>4 DEF RestartManager, registry
  <2> QED  BY <1>1, <1>2, <2>1, StartedPatience
<1>5. CASE Pause(s)
  <2> DEFINE i == [info[s] EXCEPT !.pc = "paused", !.nextcheck = PollPeriod]
  <2>1. info' = [info EXCEPT ![s] = i] /\ UNCHANGED <<settings, now>>
    BY <1>5 DEF Pause, registry
  <2>2. /\ i.pc = "paused" /\ i.ha_status = info[s].ha_status
        /\ i.failover_delay = info[s].failover_delay
        /\ i.lastaccess_active = info[s].lastaccess_active
        /\ i.offline_ticks_active = info[s].offline_ticks_active
    BY <1>1 DEF Info
  <2> HIDE DEF i
  <2>3. Patience(i, now)
    BY <1>1, <2>2 DEF Patience, Registers, Polls
  <2> QED  BY <1>2, <2>1, <2>3
<1>6. ASSUME NEW o \in Outcomes, Stop(s, o) PROVE PatientInv'
  <2> DEFINE i == [info[s] EXCEPT !.pc = "stopping"]
             j == [info[s] EXCEPT !.pc = "stopping", !.ha_status = PausedStatus(s, o)]
  <2>1. /\ info' = [info EXCEPT ![s] = i] \/ info' = [info EXCEPT ![s] = j]
        /\ UNCHANGED <<settings, now>>
    BY <1>6 DEF Stop
  <2>2. ASSUME NEW k \in {i, j}
        PROVE  /\ k.pc = "stopping" /\ k.ha_status \in {info[s].ha_status, "error"}
               /\ k.failover_delay = info[s].failover_delay
               /\ k.lastaccess_active = info[s].lastaccess_active
               /\ k.offline_ticks_active = info[s].offline_ticks_active
    BY <1>1 DEF PausedStatus, Info
  <2> HIDE DEF i, j
  <2>3. ASSUME NEW k \in {i, j} PROVE Patience(k, now)
    BY <1>1, <2>2, <2>3 DEF Patience, Registers, Polls
  <2> QED  BY <1>2, <2>1, <2>3
<1>7. ASSUME NEW n \in Names, NEW o \in Outcomes, RemoveNodeCheck(s, n, o)
      PROVE  PatientInv'
  <2> DEFINE i == [info[s] EXCEPT !.db_status = DbStatus(o)]
             failed == [Failed(i) EXCEPT !.pc = "paused"]
             checked == [i EXCEPT !.pc = "remove", !.removing = ha_node[n].nodeid]
  <2>1. /\ \E k \in {i, failed, checked} : info' = [info EXCEPT ![s] = k]
        /\ UNCHANGED <<settings, now>> /\ info[s].pc = "loop"
        /\ ha_node[n].nodeid \in Nat
    BY <1>7 DEF RemoveNodeCheck, Receives, registry, TypeInv, TypeOK, Row
  <2>2. /\ i \in Info /\ i.pc = info[s].pc /\ i.ha_status = info[s].ha_status
        /\ i.failover_delay = info[s].failover_delay
        /\ i.lastaccess_active = info[s].lastaccess_active
        /\ i.offline_ticks_active = info[s].offline_ticks_active
        /\ i.nextcheck = info[s].nextcheck /\ i.tick = info[s].tick
    BY <1>1 DEF DbStatus, Info
  <2>3. /\ checked \in Info /\ checked.pc = "remove" /\ checked.ha_status = i.ha_status
        /\ checked.failover_delay = i.failover_delay
        /\ checked.lastaccess_active = i.lastaccess_active
        /\ checked.offline_ticks_active = i.offline_ticks_active
        /\ checked.nextcheck = i.nextcheck /\ checked.tick = i.tick
    BY <2>1, <2>2 DEF Info, Phases
  <2>4. /\ failed.pc = "paused" /\ failed.ha_status = "error"
        /\ failed.failover_delay = i.failover_delay
    BY <2>2 DEF Failed, Info
  <2> HIDE DEF i, failed, checked
  <2>5. Polls(info[s])
    BY <2>1 DEF Polls
  <2>6. Patience(failed, now)
    BY <1>1, <2>2, <2>4 DEF Patience, Registers, Polls
  <2>7. ASSUME NEW k \in {i, checked}
        PROVE  Patience(k, now)
    <3>1. /\ k \in Info /\ k.ha_status = info[s].ha_status
          /\ k.failover_delay = info[s].failover_delay
          /\ k.lastaccess_active = info[s].lastaccess_active
          /\ k.offline_ticks_active = info[s].offline_ticks_active
          /\ k.nextcheck = info[s].nextcheck /\ k.tick = info[s].tick
          /\ k.pc \in {"loop", "remove"}
      BY <2>1, <2>2, <2>3, <2>7
    <3>2. ~Registers(k)
      BY <3>1 DEF Registers
    <3> QED  BY <1>1, <2>5, <3>1, <3>2, SamePatience
  <2> QED  BY <1>2, <2>1, <2>6, <2>7
<1> QED  BY <1>3, <1>4, <1>5, <1>6, <1>7 DEF SteadyOrder

LEMMA TickPatient ==
  ASSUME TypeInv, PatientInv, Tick
  PROVE  PatientInv'
<1>1. /\ now \in Nat /\ now >= 1 /\ now' = now + 1
      /\ UNCHANGED <<ha_node, settings>>
      /\ \A n \in Names : ha_node[n].lastaccess \in Nat
  BY DEF TypeInv, TypeOK, PatientInv, TimeInv, Tick, registry, Row
<1>2. TimeInv'
  BY <1>1 DEF PatientInv, TimeInv
<1>3. ASSUME NEW s \in Servers PROVE Patience(info'[s], now')
  <2> DEFINE i == info[s]
             j == [i EXCEPT !.tick = TRUE]
  <2>1. i \in Info /\ Patience(i, now) /\ Due(i) \in Nat
    <3>1. i \in Info /\ NoRow \in Row
      BY DEF TypeInv, TypeOK, NoRow, Row, RowStatuses
    <3> QED  BY <3>1, DueFacts DEF PatientInv
  <2>2. info'[s] = IF i.pc = "off" THEN i ELSE j
    BY DEF Tick
  <2>3. /\ j.pc = i.pc /\ j.ha_status = i.ha_status /\ j.tick = TRUE
        /\ j.failover_delay = i.failover_delay
        /\ j.lastaccess_active = i.lastaccess_active
        /\ j.offline_ticks_active = i.offline_ticks_active
        /\ j.nextcheck = i.nextcheck /\ i.nextcheck \in Nat
        /\ Due(j) = Due(i)
    BY <2>1 DEF Info, Due
  <2> HIDE DEF i, j
  <2>4. NextTime(i, now) <= NextTime(j, now')
    BY <1>1, <2>3 DEF NextTime
  <2>5. NextTime(i, now) \in Int /\ NextTime(j, now') \in Int
    BY <1>1, <2>3 DEF NextTime
  <2>6. Patience(j, now')
    BY <2>1, <2>3, <2>4, <2>5 DEF Patience, Registers, Polls
  <2>7. i.pc = "off" => Patience(i, now')
    BY <2>1 DEF Patience, Registers, Polls
  <2> QED  BY <2>2, <2>6, <2>7
<1> QED  BY <1>2, <1>3 DEF PatientInv

LEMMA InitPatient == Init => PatientInv
<1> SUFFICES ASSUME Init PROVE PatientInv
  OBVIOUS
<1>1. TimeInv
  BY DEF Init, TimeInv, NoRow
<1>2. Patience(OffInfo, 1)
  BY StartedPatience
<1> QED  BY <1>1, <1>2 DEF Init, PatientInv

LEMMA NextPatient ==
  TypeInv /\ PatientInv /\ Acknowledged /\ [SteadyStep]_vars => PatientInv'
<1> SUFFICES ASSUME TypeInv, PatientInv, Acknowledged, [SteadyStep]_vars
             PROVE  PatientInv'
  OBVIOUS
<1>1. CASE UNCHANGED vars
  BY <1>1 DEF vars, PatientInv, TimeInv
<1>2. ASSUME NEW s \in Servers, StartServer(s) PROVE PatientInv'
  <2>1. info' = [info EXCEPT ![s] = StartedInfo("unknown")] /\ UNCHANGED <<settings, now>>
    BY <1>2 DEF StartServer
  <2>2. \A n \in Names : RowTime(n)
    BY <1>2, MoveTimes DEF SteadyMove
  <2>3. now \in Nat /\ now >= 1
    BY DEF TypeInv, TypeOK, PatientInv, TimeInv
  <2> QED  BY <2>1, <2>2, <2>3, StartedPatience, PatientMove
<1>3. ASSUME NEW s \in Servers, ManagerStep(s) PROVE PatientInv'
  BY <1>3, ChecksPatient, RegistersPatient, OtherStepsPatient
<1>4. ASSUME NEW s \in Servers, SteadyOrder(s) PROVE PatientInv'
  BY <1>4, OrderPatient
<1> QED  BY <1>1, <1>2, <1>3, <1>4, TickPatient DEF SteadyStep, SteadyMove

---------------------------------------------------------------------------
(* What a step may do to the active row.  A row that is active after it    *)
(* was active and is as old as it was, or it was refreshed or became       *)
(* active now; then any other active row was not refreshed for the delay.  *)

ActiveKept(n) ==
  ha_node[n].status = "active" /\ ha_node'[n].lastaccess = ha_node[n].lastaccess

OthersExpired(n) ==
  \A m \in Names \ {n} :
    ha_node[m].status = "active" => ha_node[m].lastaccess + DefaultDelay <= now

LeaseRule ==
  \A n \in Names : ha_node'[n].status = "active" =>
    \/ ActiveKept(n)
    \/ ha_node'[n].lastaccess = now /\ OthersExpired(n)

(* No row becomes active. *)
LEMMA KeptLease ==
  ASSUME SingleActive,
         \A n \in Names : RowTime(n),
         \A n \in Names : ha_node'[n].status = "active" => ha_node[n].status = "active"
  PROVE  LeaseRule
<1> SUFFICES ASSUME NEW n \in Names, ha_node'[n].status = "active"
             PROVE  ActiveKept(n) \/ (ha_node'[n].lastaccess = now /\ OthersExpired(n))
  BY DEF LeaseRule
<1>1. ha_node[n].status = "active" /\ ha_node'[n] # NoRow
  BY DEF NoRow
<1>2. OthersExpired(n)
  BY <1>1 DEF OthersExpired, SingleActive
<1> QED  BY <1>1, <1>2 DEF RowTime, ActiveKept

(* The row of one node is refreshed, and no other one is active. *)
LEMMA GivenLease ==
  ASSUME NEW me \in Names,
         \A n \in Names \ {me} : ha_node'[n].status # "active",
         ha_node'[me].status = "active" => ActiveKept(me) \/ ha_node'[me].lastaccess = now,
         OthersExpired(me)
  PROVE  LeaseRule
BY DEF LeaseRule

LEMMA RegisterLease ==
  ASSUME Inv, PatientInv, NEW s \in Servers, NEW o \in Outcomes, RegisterNode(s, o)
  PROVE  LeaseRule
<1> DEFINE d == info[s].failover_delay
           me == NameOf[s]
<1>1. /\ TypeInv /\ NodeidOwned /\ SingleActive /\ d = DefaultDelay
      /\ me \in Names /\ ha_sessionid[s] \in Nat /\ ha_sessionid[s] # 0
      /\ now \in Nat /\ DefaultDelay \in Nat
  BY ConfigAssumption DEF Inv, TypeInv, TypeOK, IdsInv, ActiveInv, PatientInv, Patience,
     Running, RegisterNode
<1>2. \A n \in Names : RowTime(n)
  BY <1>1, RegisterTimes
<1>3. \/ ha_node' = ha_node
      \/ ha_node' = Registered(s, "standby")
      \/ /\ ha_node' = Registered(s, "active")
         /\ Activate(s, d) /\ ConfigOK(s, d)
  BY DEF RegisterNode
<1>4. CASE ha_node' = ha_node
  BY <1>1, <1>2, <1>4, KeptLease
<1>5. CASE ha_node' = Registered(s, "standby")
  <2>1. NoRow.status # "active"
    BY DEF NoRow
  <2>2. ASSUME NEW n \in Names, ha_node'[n].status = "active"
        PROVE  ha_node[n].status = "active"
    BY <1>1, <1>5, <2>1, <2>2, RegisteredRows
  <2> QED  BY <1>1, <1>2, <2>2, KeptLease
<1>6. CASE ha_node' = Registered(s, "active") /\ Activate(s, d) /\ ConfigOK(s, d)
  <2>1. \A n \in Names \ {me} : ha_node'[n].status # "active"
    BY <1>1, <1>6, RegisteredActive
  <2>2. ASSUME ha_node'[me].status = "active"
        PROVE  ActiveKept(me) \/ ha_node'[me].lastaccess = now
    <3> DEFINE touched == [Touched(me, "active") EXCEPT !.session = ha_sessionid[s]]
    <3>1. ha_node'[me] \in {NoRow, touched, MarkUnavailable(me), ha_node[me]}
      BY <1>1, <1>6, Zenon DEF Registered
    <3>2. "active" \in RowStatuses
      BY DEF RowStatuses
    <3>3. touched.lastaccess = now
      BY <1>1, <3>2, RowTimes
    <3>4. NoRow.status # "active" /\ MarkUnavailable(me).status = "unavailable"
      BY <1>1, <3>2, RowFields DEF NoRow
    <3> HIDE DEF touched, me
    <3> QED  BY <2>2, <3>1, <3>3, <3>4 DEF ActiveKept
  <2>3. ASSUME NEW m \in Names \ {me}, ha_node[m].status = "active"
        PROVE  ha_node[m].lastaccess + DefaultDelay <= now
    <3>1. ~Live(m, d)
      BY <1>6, <2>3 DEF Activate, ConfigOK, IsCluster
    <3>2. ha_node[m].lastaccess \in Nat
      BY <1>1 DEF TypeInv, TypeOK, Row
    <3> QED  BY <1>1, <2>3, <3>1, <3>2 DEF Live, Present, Available
  <2> QED  BY <1>1, <2>1, <2>2, <2>3, GivenLease DEF OthersExpired
<1> QED  BY <1>3, <1>4, <1>5, <1>6

LEMMA EndPassiveLease ==
  ASSUME Inv, NEW s \in Servers, NEW o \in Outcomes, NEW i,
         NEW status \in {"active", "standby"}, NEW taken \in SUBSET Names,
         EndPassive(s, o, i, status, taken),
         \A n \in Names : RowTime(n),
         \A n \in Names : HasId(n, i.ha_nodeid) => n = NameOf[s],
         status = "active" =>
           \A n \in Names \ {NameOf[s]} :
             ha_node[n].status = "active" =>
               n \in taken /\ ha_node[n].lastaccess + DefaultDelay <= now
  PROVE  LeaseRule
<1>1. /\ TypeInv /\ SingleActive /\ NameOf[s] \in Names
      /\ status \in RowStatuses /\ "active" \in RowStatuses
  BY ConfigAssumption DEF Inv, ActiveInv, RowStatuses
<1>2. ha_node' = ha_node \/ ha_node' = Passed(i, status, taken)
  BY DEF EndPassive
<1>3. ASSUME NEW n \in Names
      PROVE  /\ Touched(n, status).status = status /\ Touched(n, status).lastaccess = now
             /\ MarkUnavailable(n).status = "unavailable"
  BY <1>1, RowFields, RowTimes, 0 \in Nat
<1>4. CASE ha_node' = ha_node
  BY <1>1, <1>4, KeptLease
<1>5. CASE ha_node' = Passed(i, status, taken) /\ status = "standby"
  <2>1. ASSUME NEW n \in Names, ha_node'[n].status = "active"
        PROVE  ha_node[n].status = "active"
    <3>1. ha_node'[n] \in {Touched(n, status), MarkUnavailable(n), ha_node[n]}
      BY <1>5, Zenon DEF Passed
    <3> QED  BY <1>3, <1>5, <2>1, <3>1
  <2> QED  BY <1>1, <2>1, KeptLease
<1>6. CASE ha_node' = Passed(i, status, taken) /\ status = "active"
  <2>1. ASSUME NEW n \in Names \ {NameOf[s]}
        PROVE  ha_node'[n].status # "active"
    <3>1. ha_node'[n] = IF n \in taken THEN MarkUnavailable(n) ELSE ha_node[n]
      BY <1>6 DEF Passed
    <3> QED  BY <1>3, <1>6, <3>1
  <2>2. ha_node'[NameOf[s]].status = "active" =>
          ActiveKept(NameOf[s]) \/ ha_node'[NameOf[s]].lastaccess = now
    <3> DEFINE me == NameOf[s]
    <3>1. ha_node'[me] \in {Touched(me, status), MarkUnavailable(me), ha_node[me]}
      BY <1>1, <1>6, Zenon DEF Passed
    <3> HIDE DEF me
    <3> QED  BY <1>1, <1>3, <3>1 DEF ActiveKept, me
  <2>3. OthersExpired(NameOf[s])
    BY <1>6 DEF OthersExpired
  <2> QED  BY <1>1, <2>1, <2>2, <2>3, GivenLease
<1> QED  BY <1>2, <1>4, <1>5, <1>6

LEMMA ChecksLease ==
  ASSUME Inv, PatientInv, NEW s \in Servers, CheckNodes(s)
  PROVE  LeaseRule
<1> DEFINE me == NameOf[s]
<1>1. /\ TypeInv /\ SingleActive /\ me \in Names /\ Standalone \in Names
      /\ "active" \in RowStatuses
  BY ConfigAssumption DEF Inv, ActiveInv, RowStatuses
<1>2. ASSUME ha_node' = ha_node PROVE LeaseRule
  BY <1>1, <1>2, KeptLease DEF RowTime
<1>3. ASSUME NEW o \in Outcomes, CheckStandalone(s, o) PROVE LeaseRule
  <2> DEFINE i == CheckedInfo(s, o)
  <2>1. /\ CheckOwned(s, o) /\ me = Standalone
    BY <1>3 DEF CheckStandalone, IsCluster
  <2>2. /\ \A n \in Names : HasId(n, i.ha_nodeid) => n = me
        /\ ha_node[me].session # 0
        /\ i.ha_status \in RowStatuses
    BY <2>1, CheckedRow, CheckOwnedType DEF Inv, RowStatuses
  <2>3. \A n \in Names \ {me} : ha_node[n].status # "active"
    BY <2>1, <2>2 DEF Inv, ActiveInv, ActiveOwned, ModesExclusive
  <2>4. \A n \in Names : \/ ha_node'[n] = ha_node[n]
                         \/ HasId(n, i.ha_nodeid) /\ ha_node'[n] = Touched(n, i.ha_status)
    BY <1>3, Zenon DEF CheckStandalone
  <2> HIDE DEF i
  <2>5. Touched(me, i.ha_status).lastaccess = now
    BY <1>1, <2>2, RowTimes, 0 \in Nat
  <2>6. \A n \in Names \ {me} : ha_node'[n].status # "active"
    BY <2>2, <2>3, <2>4
  <2>7. ha_node'[me].status = "active" => ActiveKept(me) \/ ha_node'[me].lastaccess = now
    BY <1>1, <2>4, <2>5 DEF ActiveKept
  <2> QED  BY <1>1, <2>3, <2>6, <2>7, GivenLease DEF OthersExpired
<1>4. ASSUME NEW o \in Outcomes, CheckActive(s, o) PROVE LeaseRule
  <2> DEFINE i == CheckedInfo(s, o)
  <2>1. /\ CheckOwned(s, o) /\ ha_node[me].status = "active"
    BY <1>4 DEF CheckActive
  <2>2. \A n \in Names : HasId(n, i.ha_nodeid) => n = me
    BY <2>1, CheckedRow
  <2>3. ASSUME NEW n \in Names
        PROVE  ha_node'[n] \in {ha_node[n], MarkUnavailable(n)} \/ HasId(n, i.ha_nodeid)
    BY <1>4, Zenon DEF CheckActive
  <2>4. ASSUME NEW n \in Names, ha_node'[n].status = "active"
        PROVE  ha_node[n].status = "active"
    <3>1. MarkUnavailable(n).status = "unavailable"
      BY <1>1, RowFields
    <3> QED  BY <2>1, <2>2, <2>3, <2>4, <3>1
  <2>5. \A n \in Names : RowTime(n)
    BY <1>1, <1>4, CheckTimes
  <2> QED  BY <1>1, <2>4, <2>5, KeptLease
<1>5. ASSUME NEW o \in Outcomes, CheckPassive(s, o) PROVE LeaseRule
  <2> DEFINE i == CheckedInfo(s, o)
             actives == {n \in Names : ha_node[n].status = "active"}
  <2>1. CheckOwned(s, o)
    BY <1>5 DEF CheckPassive
  <2>2. /\ \A n \in Names : HasId(n, i.ha_nodeid) => n = me
        /\ i \in Info
    BY <2>1, CheckedRow, CheckedInfoType DEF Inv, TypeInv
  <2>3. \A n \in Names : RowTime(n)
    BY <1>1, <1>5, CheckTimes
  <2>4. CASE ha_node' = ha_node
    BY <1>2, <2>4
  <2>5. ASSUME actives = {} \/ (\E a \in actives : ha_node[a].nodeid = i.ha_nodeid),
               EndPassive(s, o, i, "active", {})
        PROVE  LeaseRule
    <3>1. \A n \in Names \ {me} : ha_node[n].status # "active"
      BY <1>1, <2>2, <2>5 DEF HasId, Present, SingleActive
    <3> HIDE DEF i, actives
    <3> QED  BY <2>2, <2>3, <2>5, <3>1, EndPassiveLease
  <2>6. ASSUME NEW a \in actives, ha_node[a].nodeid # i.ha_nodeid,
               LET j == Watched(i, ha_node[a])
               IN  IF j.failover_delay \div PollPeriod < j.offline_ticks_active
                     THEN EndPassive(s, o, j, "active", {a})
                     ELSE EndPassive(s, o, j, "standby", {})
        PROVE  LeaseRule
    <3> DEFINE j == Watched(i, ha_node[a])
               late == j.failover_delay \div PollPeriod < j.offline_ticks_active
    <3>1. late => ha_node[a].lastaccess + DefaultDelay < now
      BY <1>1, <1>5, WatchedPatience
    <3>2. \A n \in Names : HasId(n, j.ha_nodeid) => n = me
      BY <2>2 DEF Watched, Info
    <3>3. ha_node[a].lastaccess + DefaultDelay \in Nat /\ now \in Nat
      BY <1>1, ConfigAssumption DEF TypeInv, TypeOK, Row
    <3>4. \A n \in Names : ha_node[n].status = "active" => n = a
      BY <1>1 DEF SingleActive
    <3>5. IF late THEN EndPassive(s, o, j, "active", {a})
                  ELSE EndPassive(s, o, j, "standby", {})
      BY <2>6
    <3>6. late => ha_node[a].lastaccess + DefaultDelay <= now
      BY <3>1, <3>3
    <3> HIDE DEF i, j, late
    <3>7. CASE late
      BY <2>3, <3>2, <3>4, <3>5, <3>6, <3>7, EndPassiveLease
    <3>8. CASE ~late
      BY <2>3, <3>2, <3>5, <3>8, EndPassiveLease
    <3> QED  BY <3>7, <3>8
  <2> QED  BY <1>5, <2>4, <2>5, <2>6 DEF CheckPassive
<1> QED  BY <1>2, <1>3, <1>4, <1>5 DEF CheckNodes, CheckNoDatabase, CheckError, CheckSplitBrain

LEMMA StepLease ==
  ASSUME Inv, PatientInv, NEW s \in Servers, SteadyMove(s)
  PROVE  LeaseRule
<1>1. /\ TypeInv /\ SingleActive
      /\ \A n \in Names : RowTime(n)
  BY MoveTimes DEF Inv, ActiveInv
<1>2. ASSUME ha_node' = ha_node PROVE LeaseRule
  BY <1>1, <1>2, KeptLease
<1>3. ASSUME NEW o \in Outcomes, CreateNode(s, o) PROVE LeaseRule
  <2>1. ASSUME NEW n \in Names, ha_node'[n].status = "active"
        PROVE  ha_node[n].status = "active"
    <3>1. ha_node' = ha_node \/ ha_node' = [ha_node EXCEPT ![NameOf[s]] = NewRow(nextid)]
      BY <1>3 DEF CreateNode, registry
    <3> QED  BY <1>1, <2>1, <3>1 DEF NewRow, TypeInv, TypeOK
  <2> QED  BY <1>1, <2>1, KeptLease
<1>4. ASSUME NEW o \in Outcomes,
             \/ UpdateLastaccess(s, o) \/ UpdateExitStatus(s, o) \/ RemoveNodeDelete(s, o)
      PROVE  LeaseRule
  <2>1. ASSUME NEW n \in Names, ha_node'[n].status = "active"
        PROVE  ha_node[n].status = "active"
    <3>1. /\ NoRow.status # "active"
          /\ [ha_node[n] EXCEPT !.lastaccess = now].status = ha_node[n].status
          /\ [ha_node[n] EXCEPT !.status = "stopped"].status = "stopped"
      BY <1>1 DEF NoRow, TypeInv, TypeOK, Row
    <3>2. ha_node'[n] \in {ha_node[n], NoRow, [ha_node[n] EXCEPT !.lastaccess = now],
                           [ha_node[n] EXCEPT !.status = "stopped"]}
      BY <1>4 DEF UpdateLastaccess, UpdateExitStatus, RemoveNodeDelete
    <3> QED  BY <2>1, <3>1, <3>2
  <2> QED  BY <1>1, <2>1, KeptLease
<1>5. CASE StartServer(s)
  BY <1>2, <1>5 DEF StartServer
<1>6. CASE SteadyOrder(s)
  <2>1. \/ ha_node' = ha_node \/ \E o \in Outcomes : UpdateLastaccess(s, o)
    BY <1>6 DEF SteadyOrder, KillManager, RestartManager, Pause, Stop, RemoveNodeCheck, registry
  <2> QED  BY <2>1, <1>2, <1>4
<1>7. CASE ManagerStep(s)
  <2>1. ASSUME ManagerTick(s) \/ RegisterAgain(s) \/ PausedWait(s) PROVE LeaseRule
    BY <2>1, <1>2 DEF ManagerTick, RegisterAgain, PausedWait, registry
  <2>2. ASSUME NEW o \in Outcomes,
               RemoveNodeDelete(s, o) \/ PausedUpdate(s, o) \/ UpdateExitStatus(s, o)
        PROVE  LeaseRule
    BY <2>2, <1>4 DEF PausedUpdate
  <2> QED  BY <1>3, <1>7, <2>1, <2>2, ChecksLease, RegisterLease DEF ManagerStep
<1> QED  BY <1>5, <1>6, <1>7 DEF SteadyMove

---------------------------------------------------------------------------
(* A lease that has not expired is safe from the other nodes: a step of a  *)
(* server with another name leaves the row alone.                          *)

LEMMA CheckLeaves ==
  ASSUME Inv, PatientInv, NEW t \in Servers, CheckNodes(t),
         NEW n \in Names, n # NameOf[t],
         ha_node[n].status = "active", now < ha_node[n].lastaccess + DefaultDelay
  PROVE  ha_node'[n] = ha_node[n]
<1>1. /\ now \in Nat /\ DefaultDelay \in Nat /\ ha_node[n].lastaccess \in Nat
      /\ settings = DefaultDelay /\ TypeInv
  BY ConfigAssumption DEF Inv, TypeInv, TypeOK, Row, PatientInv, TimeInv
<1>2. ASSUME NEW o \in Outcomes, CheckOwned(t, o)
      PROVE  ~HasId(n, CheckedInfo(t, o).ha_nodeid) /\ CheckedInfo(t, o) \in Info
  BY <1>1, <1>2, CheckedRow, CheckedInfoType DEF TypeInv
<1>3. ASSUME NEW o \in Outcomes, CheckStandalone(t, o) PROVE ha_node'[n] = ha_node[n]
  BY <1>2, <1>3 DEF CheckStandalone
<1>4. ASSUME NEW o \in Outcomes, CheckActive(t, o) PROVE ha_node'[n] = ha_node[n]
  <2>1. ~Unavailable(n, CheckedInfo(t, o).ha_nodeid, settings)
    BY <1>1 DEF Unavailable
  <2>2. ~HasId(n, CheckedInfo(t, o).ha_nodeid)
    BY <1>2, <1>4 DEF CheckActive
  <2> QED  BY <1>4, <2>1, <2>2 DEF CheckActive
<1>5. ASSUME NEW o \in Outcomes, CheckPassive(t, o) PROVE ha_node'[n] = ha_node[n]
  <2> DEFINE i == CheckedInfo(t, o)
  <2>1. ~HasId(n, i.ha_nodeid) /\ i \in Info
    BY <1>2, <1>5 DEF CheckPassive
  <2>2. ASSUME NEW j, NEW status, NEW taken, EndPassive(t, o, j, status, taken),
               n \notin taken, j.ha_nodeid = i.ha_nodeid
        PROVE  ha_node'[n] = ha_node[n]
    BY <2>1, <2>2 DEF EndPassive, Passed
  <2>3. ASSUME NEW a \in Names,
               LET j == Watched(i, ha_node[a])
               IN  IF j.failover_delay \div PollPeriod < j.offline_ticks_active
                     THEN EndPassive(t, o, j, "active", {a})
                     ELSE EndPassive(t, o, j, "standby", {})
        PROVE  ha_node'[n] = ha_node[n]
    <3> DEFINE j == Watched(i, ha_node[a])
               late == j.failover_delay \div PollPeriod < j.offline_ticks_active
    <3>1. late => ha_node[a].lastaccess + DefaultDelay < now
      BY <1>1, <1>5, WatchedPatience
    <3>2. late => a # n
      BY <1>1, <3>1
    <3>3. j.ha_nodeid = i.ha_nodeid
      BY <2>1 DEF Watched, Info
    <3>4. IF late THEN EndPassive(t, o, j, "active", {a})
                  ELSE EndPassive(t, o, j, "standby", {})
      BY <2>3
    <3> HIDE DEF i, j, late
    <3> QED  BY <2>2, <3>2, <3>3, <3>4
  <2>4. CASE EndPassive(t, o, i, "active", {})
    BY <2>2, <2>4
  <2> QED  BY <1>5, <2>3, <2>4 DEF CheckPassive
<1> QED  BY <1>3, <1>4, <1>5 DEF CheckNodes, CheckNoDatabase, CheckError, CheckSplitBrain

LEMMA LeaseSafe ==
  ASSUME Inv, PatientInv, NEW t \in Servers, SteadyMove(t), info[t].pc # "remove",
         NEW n \in Names, n # NameOf[t], n # Standalone,
         ha_node[n].status = "active", now < ha_node[n].lastaccess + DefaultDelay
  PROVE  ha_node'[n] = ha_node[n]
<1>1. /\ now \in Nat /\ DefaultDelay \in Nat /\ ha_node[n].lastaccess \in Nat
      /\ info[t].failover_delay = DefaultDelay
  BY ConfigAssumption DEF Inv, TypeInv, TypeOK, Row, PatientInv, Patience
<1>2. ~HasId(n, info[t].ha_nodeid)
  BY DEF Inv, IdsInv, NodeidOwned
<1>3. ASSUME NEW o \in Outcomes, CreateNode(t, o) PROVE ha_node'[n] = ha_node[n]
  BY <1>3 DEF CreateNode, registry, Inv, TypeInv, TypeOK
<1>4. ASSUME NEW o \in Outcomes, RegisterNode(t, o) PROVE ha_node'[n] = ha_node[n]
  <2>1. CASE ha_node' = ha_node
    BY <2>1
  <2>2. ASSUME NEW status, ha_node' = Registered(t, status),
               ConfigOK(t, info[t].failover_delay)
        PROVE  ha_node'[n] = ha_node[n]
    <3>1. Live(n, DefaultDelay)
      BY <1>1 DEF Live, Present, Available
    <3>2. IsCluster(t)
      BY <1>1, <2>2, <3>1 DEF ConfigOK
    <3>3. ~Unavailable(n, info[t].ha_nodeid, info[t].failover_delay)
      BY <1>1 DEF Unavailable
    <3>4. IsCluster(t) = (n # Standalone)
      BY <3>2 DEF IsCluster
    <3>5. Registered(t, status)[n] = ha_node[n]
      BY <1>2, <3>3, <3>4, Zenon DEF Registered
    <3> QED  BY <2>2, <3>5
  <2> QED  BY <1>4, <2>1, <2>2 DEF RegisterNode
<1>5. ASSUME NEW o \in Outcomes,
             UpdateLastaccess(t, o) \/ UpdateExitStatus(t, o)
      PROVE  ha_node'[n] = ha_node[n]
  BY <1>2, <1>5 DEF UpdateLastaccess, UpdateExitStatus
<1>6. ASSUME SteadyOrder(t) PROVE ha_node'[n] = ha_node[n]
  <2>1. \/ ha_node' = ha_node \/ \E o \in Outcomes : UpdateLastaccess(t, o)
    BY <1>6 DEF SteadyOrder, KillManager, RestartManager, Pause, Stop, RemoveNodeCheck, registry
  <2> QED  BY <2>1, <1>5
<1>7. ASSUME ManagerStep(t) PROVE ha_node'[n] = ha_node[n]
  <2>1. ASSUME ManagerTick(t) \/ RegisterAgain(t) \/ PausedWait(t)
        PROVE  ha_node'[n] = ha_node[n]
    BY <2>1 DEF ManagerTick, RegisterAgain, PausedWait, registry
  <2>2. ASSUME NEW o \in Outcomes, PausedUpdate(t, o) \/ UpdateExitStatus(t, o)
        PROVE  ha_node'[n] = ha_node[n]
    BY <2>2, <1>5 DEF PausedUpdate
  <2>3. \A o \in Outcomes : ~RemoveNodeDelete(t, o)
    BY DEF RemoveNodeDelete
  <2> QED  BY <1>3, <1>4, <1>7, <2>1, <2>2, <2>3, CheckLeaves DEF ManagerStep
<1>8. ASSUME StartServer(t) PROVE ha_node'[n] = ha_node[n]
  BY <1>8 DEF StartServer
<1> QED  BY <1>6, <1>7, <1>8 DEF SteadyMove

---------------------------------------------------------------------------
(* The refinement. *)

(* The lease when no row, and when one row is active. *)
LeaseValue ==
  /\ (\A n \in Names : ha_node[n].status # "active") => Lease = Election!NoLease
  /\ \A n \in Names : ha_node[n].status = "active" =>
       Lease = Election!LeaseOf(n, ha_node[n].lastaccess)

LEMMA LeaseValues == SingleActive => LeaseValue
<1> SUFFICES ASSUME SingleActive PROVE LeaseValue
  OBVIOUS
<1>1. ASSUME \A n \in Names : ha_node[n].status # "active"
      PROVE  Lease = Election!NoLease
  <2>1. {m \in Names : ha_node[m].status = "active"} = {}
    BY <1>1
  <2> QED  BY <2>1 DEF Lease, Election!NoLease
<1>2. ASSUME NEW n \in Names, ha_node[n].status = "active"
      PROVE  Lease = Election!LeaseOf(n, ha_node[n].lastaccess)
  <2>1. {m \in Names : ha_node[m].status = "active"} = {n}
    BY <1>2 DEF SingleActive
  <2>2. Lease = [m \in {n} |-> ha_node[m].lastaccess]
    BY <2>1, Zenon DEF Lease
  <2> QED  BY <2>2 DEF Election!LeaseOf
<1> QED  BY <1>1, <1>2 DEF LeaseValue

LEMMA LeaseValuesNext == SingleActive' => LeaseValue'
BY LeaseValues, PTL

LEMMA MoveKeepsTime ==
  ASSUME NEW s \in Servers, SteadyMove(s)
  PROVE  now' = now
<1>1. CASE StartServer(s)
  BY <1>1 DEF StartServer
<1>2. CASE SteadyOrder(s)
  BY <1>2 DEF SteadyOrder, KillManager, RestartManager, Pause, Stop, RemoveNodeCheck
<1>3. CASE ManagerStep(s)
  <2>1. CASE CheckNodes(s)
    BY <2>1 DEF CheckNodes, CheckNoDatabase, CheckError, CheckStandalone, CheckSplitBrain,
       CheckActive, CheckPassive, CheckOwned, CheckStart
  <2> QED  BY <1>3, <2>1 DEF ManagerStep, ManagerTick, RegisterAgain, CreateNode,
              RegisterNode, RemoveNodeDelete, PausedUpdate, UpdateExitStatus, PausedWait
<1> QED  BY <1>1, <1>2, <1>3 DEF SteadyMove

(* A step of a manager elects a node, refreshes the lease, hands it over,  *)
(* gives it up, or leaves it alone.                                        *)
LEMMA MoveElects ==
  ASSUME Inv, Inv', PatientInv, LeaseRule, now' = now
  PROVE  [Election!Next]_<<Lease, now>>
<1>1. SingleActive /\ SingleActive'
  BY DEF Inv, ActiveInv
<1>2. now \in Nat /\ DefaultDelay \in Nat
      /\ \A n \in Names : ha_node[n].lastaccess \in Nat
  BY ConfigAssumption DEF Inv, TypeInv, TypeOK, Row
<1> DEFINE active(n) == ha_node[n].status = "active"
           someone == \E n \in Names : active(n)
<1>3. /\ ~someone => Lease = Election!NoLease
      /\ \A n \in Names : active(n) => Lease = Election!LeaseOf(n, ha_node[n].lastaccess)
  BY <1>1, LeaseValues DEF LeaseValue
<1>4. /\ ~someone' => Lease' = Election!NoLease
      /\ \A n \in Names : active(n)' =>
           Lease' = Election!LeaseOf(n, ha_node'[n].lastaccess)
  BY <1>1, LeaseValuesNext DEF LeaseValue
<1>5. /\ ~someone => DOMAIN Lease = {}
      /\ \A n \in Names : active(n) =>
           DOMAIN Lease = {n} /\ Lease[n] = ha_node[n].lastaccess
  BY <1>3 DEF Election!NoLease, Election!LeaseOf
<1>6. CASE ~someone'
  <2>1. CASE someone
    <3>1. DOMAIN Lease # {}
      BY <1>5, <2>1
    <3> QED  BY <1>4, <1>6, <3>1 DEF Election!Next, Election!GiveUp, Election!Holders
  <2>2. CASE ~someone
    BY <1>3, <1>4, <1>6, <2>2
  <2> QED  BY <2>1, <2>2
<1>7. ASSUME NEW n \in Names, active(n)'
      PROVE  [Election!Next]_<<Lease, now>>
  <2>1. CASE ActiveKept(n)
    <3>1. Lease' = Lease
      BY <1>3, <1>4, <1>7, <2>1 DEF ActiveKept
    <3> QED  BY <3>1
  <2>2. CASE ha_node'[n].lastaccess = now /\ OthersExpired(n)
    <3>1. Lease' = Election!LeaseOf(n, now)
      BY <1>4, <1>7, <2>2
    <3>2. CASE ~someone
      <4>1. Election!Elect(n)
        BY <1>5, <3>1, <3>2 DEF Election!Elect, Election!Holders
      <4> QED  BY <4>1 DEF Election!Next
    <3>3. CASE active(n)
      <4>1. Election!Refresh(n)
        BY <1>5, <3>1, <3>3 DEF Election!Refresh, Election!Holders
      <4> QED  BY <4>1 DEF Election!Next
    <3>4. ASSUME NEW m \in Names \ {n}, active(m)
          PROVE  [Election!Next]_<<Lease, now>>
      <4>1. Election!Succeed(m, n)
        BY <1>2, <1>5, <2>2, <3>1, <3>4 DEF Election!Succeed, Election!Holders, OthersExpired
      <4> QED  BY <3>4, <4>1 DEF Election!Next
    <3> QED  BY <3>2, <3>3, <3>4
  <2> QED  BY <1>7, <2>1, <2>2 DEF LeaseRule
<1> QED  BY <1>6, <1>7

LEMMA ElectionStep ==
  ASSUME Inv, Inv', PatientInv, [SteadyStep]_vars
  PROVE  [Election!Next]_<<Lease, now>>
<1>1. CASE UNCHANGED vars
  BY <1>1 DEF vars, Lease
<1>2. CASE Tick
  <2>1. now' = now + 1 /\ UNCHANGED ha_node
    BY <1>2 DEF Tick, registry
  <2>2. Lease' = Lease
    BY <2>1 DEF Lease
  <2> QED  BY <2>1, <2>2 DEF Election!Next
<1>3. ASSUME NEW s \in Servers, SteadyMove(s)
      PROVE  [Election!Next]_<<Lease, now>>
  BY <1>3, StepLease, MoveKeepsTime, MoveElects
<1> QED  BY <1>1, <1>2, <1>3 DEF SteadyStep

LEMMA InitElection == Init => Election!Init
<1> SUFFICES ASSUME Init PROVE Election!Init
  OBVIOUS
<1>1. \A n \in Names : ha_node[n].status # "active"
  BY DEF Init, NoRow
<1>2. SingleActive
  BY InitInv DEF Inv, ActiveInv
<1> QED  BY <1>1, <1>2, LeaseValues DEF LeaseValue, Election!Init, Init

(***************************************************************************)
(* The managers implement ActiveNode when no transaction fails half way    *)
(* and no operator changes the failover delay: whatever is killed, paused, *)
(* stopped, restarted or slow, and whatever fails before it reads, a node  *)
(* gets the lease only when nobody has it, or when its holder has not      *)
(* refreshed it for the failover delay, though a standby node measures     *)
(* that by counting its own checks.                                        *)
(***************************************************************************)
THEOREM LeasesRespected ==
  ASSUME Acknowledged, "delay" \notin Events
  PROVE  Spec => ElectionSpec
<1>1. [Next]_vars => [SteadyStep]_vars /\ [Step]_vars
  <2>1. Next => SteadyStep
    BY DEF Next, SteadyStep, SteadyMove, Environment, SteadyOrder
  <2> QED  BY <2>1, NextStep
<1>2. Inv /\ PatientInv /\ [Next]_vars => Inv' /\ PatientInv'
  BY <1>1, NextInv, NextPatient DEF Inv
<1>3. Inv /\ Inv' /\ PatientInv /\ [Next]_vars => [Election!Next]_<<Lease, now>>
  BY <1>1, ElectionStep
<1> QED  BY <1>2, <1>3, InitInv, InitPatient, InitElection, PTL DEF Spec, ElectionSpec, Election!Spec
=============================================================================
