-------------------------- MODULE HACluster_proofs --------------------------
(***************************************************************************)
(* Proofs about HACluster: what HAManager_proofs shows of the managers     *)
(* holds in the cluster too, the main processes keep two nodes from        *)
(* serving at a time, each of them agrees with its manager, and a server   *)
(* that exits is not replaced before its processes have ended.             *)
(***************************************************************************)
EXTENDS HACluster, HAManager_proofs

---------------------------------------------------------------------------
(* The steps of a cluster are steps of its managers, and steps that leave  *)
(* the registry and the managers alone.                                    *)

LEMMA ClusterSteps == ClusterNext => [Step]_vars
<1> SUFFICES ASSUME ClusterNext PROVE [Step]_vars
  OBVIOUS
<1>1. ASSUME NEW s \in Servers, Manager(s) PROVE Step
  BY <1>1 DEF Manager, Step
<1>2. ASSUME NEW s \in Servers, MainStep(s) PROVE [Step]_vars
  <2>1. ASSUME NEW m, Teardown(s, m) PROVE RestartManager(s)
    BY <2>1 DEF Teardown
  <2>2. StartServer(s) \/ Ordered(s) \/ UNCHANGED vars
    BY <1>2, <2>1 DEF MainStep, MainStart, MainGetStatus, MainStarted, MainLoop, MainPause,
       MainStop, MainSync, MainExited, Ordered
  <2> QED  BY <2>2 DEF Step
<1>3. ASSUME NEW s \in Servers, Interference(s) PROVE [Step]_vars
  <2>1. Ordered(s) \/ UNCHANGED vars
    BY <1>3 DEF Interference, MainSignal, ManagerCrash, ServerCrash, MainRemoveNode,
       MainSetFailoverDelay, Ordered
  <2> QED  BY <2>1 DEF Step
<1>4. ClusterTick => Step
  BY DEF ClusterTick, Step
<1> QED  BY <1>1, <1>2, <1>3, <1>4 DEF ClusterNext

LEMMA SteadySteps == ClusterNext /\ "delay" \notin Events => [SteadyStep]_vars
<1> SUFFICES ASSUME ClusterNext, "delay" \notin Events PROVE [SteadyStep]_vars
  OBVIOUS
<1>1. ASSUME NEW s \in Servers, Manager(s) PROVE SteadyStep
  BY <1>1 DEF Manager, SteadyStep, SteadyMove
<1>2. ASSUME NEW s \in Servers, MainStep(s) PROVE [SteadyStep]_vars
  <2>1. ASSUME NEW m, Teardown(s, m) PROVE RestartManager(s)
    BY <2>1 DEF Teardown
  <2>2. StartServer(s) \/ SteadyOrder(s) \/ UNCHANGED vars
    BY <1>2, <2>1 DEF MainStep, MainStart, MainGetStatus, MainStarted, MainLoop, MainPause,
       MainStop, MainSync, MainExited, SteadyOrder
  <2> QED  BY <2>2 DEF SteadyStep, SteadyMove
<1>3. ASSUME NEW s \in Servers, Interference(s) PROVE [SteadyStep]_vars
  <2>1. SteadyOrder(s) \/ UNCHANGED vars
    BY <1>3 DEF Interference, MainSignal, ManagerCrash, ServerCrash, MainRemoveNode, SteadyOrder
  <2> QED  BY <2>1 DEF SteadyStep, SteadyMove
<1>4. ClusterTick => SteadyStep
  BY DEF ClusterTick, SteadyStep
<1> QED  BY <1>1, <1>2, <1>3, <1>4 DEF ClusterNext

LEMMA ClusterInv == Inv /\ [ClusterNext]_clusterVars => Inv'
<1>1. [ClusterNext]_clusterVars => [Step]_vars
  BY ClusterSteps DEF clusterVars
<1> QED  BY <1>1, NextInv

LEMMA ClusterPatient ==
  Inv /\ PatientInv /\ Acknowledged /\ "delay" \notin Events /\ [ClusterNext]_clusterVars
    => PatientInv'
<1>1. "delay" \notin Events /\ [ClusterNext]_clusterVars => [SteadyStep]_vars
  BY SteadySteps DEF clusterVars
<1> QED  BY <1>1, NextPatient DEF Inv

(***************************************************************************)
(* The main processes kill, restart, pause and stop the managers when they *)
(* like to, so what was shown of the registry holds with them, too: it     *)
(* never has two active nodes, and active nodes hold a lease.              *)
(***************************************************************************)
THEOREM ClusterOneActive == ClusterSpec => []SingleActive
<1>1. ClusterInit => Inv
  BY InitInv DEF ClusterInit
<1>2. Inv => SingleActive
  BY DEF Inv, ActiveInv
<1> QED  BY <1>1, <1>2, ClusterInv, PTL DEF ClusterSpec

THEOREM ClusterLeases ==
  ASSUME Acknowledged, "delay" \notin Events
  PROVE  ClusterSpec => ElectionSpec
<1>1. ClusterInit => Inv /\ PatientInv /\ Election!Init
  BY InitInv, InitPatient, InitElection DEF ClusterInit
<1>2. Inv /\ PatientInv /\ [ClusterNext]_clusterVars => Inv' /\ PatientInv'
  BY ClusterInv, ClusterPatient
<1>3. Inv /\ Inv' /\ PatientInv /\ [ClusterNext]_clusterVars
        => [Election!Next]_<<Lease, now>>
  <2>1. [ClusterNext]_clusterVars => [SteadyStep]_vars
    BY SteadySteps DEF clusterVars
  <2> QED  BY <2>1, ElectionStep
<1> QED  BY <1>1, <1>2, <1>3, PTL DEF ClusterSpec, ElectionSpec, Election!Spec

---------------------------------------------------------------------------
(* Types, and what each step does to the main process.                     *)

(* The messages in a queue. *)
Messages(q) == {q[k] : k \in 1..Len(q)}

ClusterType ==
  TypeInv /\ main \in [Servers -> Main] /\ rtc \in [Servers -> Seq(Message)]

LEMMA SendMessages ==
  ASSUME NEW q \in Seq(Message), NEW msg \in Message
  PROVE  /\ Send(q, msg) \in Seq(Message)
         /\ Messages(Send(q, msg)) \subseteq Messages(q) \union {msg}
<1>1. CASE Send(q, msg) = q
  BY <1>1
<1>2. CASE Send(q, msg) = Append(q, msg)
  <2>1. Append(q, msg) \in Seq(Message) /\ Len(Append(q, msg)) = Len(q) + 1 /\ Len(q) \in Nat
    OBVIOUS
  <2>2. ASSUME NEW k \in 1..Len(Append(q, msg))
        PROVE  Append(q, msg)[k] \in Messages(q) \union {msg}
    <3>1. CASE k \in 1..Len(q)
      BY <3>1 DEF Messages
    <3>2. CASE k = Len(q) + 1
      BY <3>2
    <3> QED  BY <2>1, <3>1, <3>2
  <2> QED  BY <1>2, <2>1, <2>2 DEF Messages
<1> QED  BY <1>1, <1>2 DEF Send

LEMMA ReceiveMessages ==
  ASSUME NEW q \in Seq(Message), q # <<>>
  PROVE  /\ Head(q) \in Message /\ Head(q) \in Messages(q)
         /\ Tail(q) \in Seq(Message) /\ Messages(Tail(q)) \subseteq Messages(q)
<1>1. Len(q) \in Nat /\ Len(q) > 0 /\ Head(q) = q[1]
  OBVIOUS
<1>2. Tail(q) \in Seq(Message) /\ Len(Tail(q)) = Len(q) - 1
  OBVIOUS
<1>3. ASSUME NEW k \in 1..Len(Tail(q)) PROVE Tail(q)[k] \in Messages(q)
  <2>1. Tail(q)[k] = q[k + 1] /\ k + 1 \in 1..Len(q)
    BY <1>1, <1>2
  <2> QED  BY <2>1 DEF Messages
<1>4. q[1] \in Message /\ q[1] \in Messages(q)
  BY <1>1 DEF Messages
<1> QED  BY <1>1, <1>2, <1>3, <1>4 DEF Messages

LEMMA NoMessages == Messages(<<>>) = {} /\ <<>> \in Seq(Message)
BY DEF Messages

(* What zbx_ha_get_status returns. *)
LEMMA GotStatus ==
  ASSUME ClusterType, NEW s \in Servers, NEW m \in GetStatus(s)
  PROVE  /\ m \in Main /\ m.pc = main[s].pc /\ m.ha_status_old = main[s].ha_status_old
         /\ m.last_hb = main[s].last_hb /\ m.children = main[s].children
         /\ m.polled = main[s].polled
         /\ \/ /\ Answers(s) /\ m.ha_status = info[s].ha_status
               /\ m.ha_failover_delay = info[s].failover_delay
            \/ /\ "timeout" \in Events
               /\ m.ha_status = (IF IsCluster(s) THEN "standby" ELSE "active")
               /\ m.ha_failover_delay = main[s].ha_failover_delay
<1>1. /\ main[s] \in Main /\ info[s].ha_status \in Statuses
      /\ info[s].failover_delay \in Nat
  BY DEF ClusterType, TypeInv, TypeOK, Info
<1>2. CASE /\ Answers(s)
           /\ m = [main[s] EXCEPT !.ha_status = info[s].ha_status,
                                  !.ha_failover_delay = info[s].failover_delay]
  BY <1>1, <1>2 DEF Main
<1>3. CASE /\ "timeout" \in Events
           /\ m = [main[s] EXCEPT !.ha_status = IF IsCluster(s) THEN "standby" ELSE "active"]
  BY <1>1, <1>3 DEF Main, Statuses
<1> QED  BY <1>2, <1>3 DEF GetStatus

(* What zbx_ha_dispatch_message does with a message. *)
LEMMA ReceivedFacts ==
  ASSUME ClusterType, NEW s \in Servers
  PROVE  /\ Received(s) \in Main /\ Received(s).pc = main[s].pc
         /\ Received(s).ha_status_old = main[s].ha_status_old
         /\ Received(s).children = main[s].children
         /\ \/ rtc[s] = <<>> /\ Received(s) = main[s]
            \/ /\ rtc[s] # <<>> /\ Head(rtc[s]) \in Messages(rtc[s])
               /\ \/ /\ Head(rtc[s]) = Heartbeat
                     /\ Received(s).ha_status = main[s].ha_status
                     /\ Received(s).ha_failover_delay = main[s].ha_failover_delay
                     /\ Received(s).last_hb = now
                  \/ /\ Head(rtc[s]) \in [code : {"status"}, status : Statuses, delay : Nat]
                     /\ Received(s).ha_status = Head(rtc[s]).status
                     /\ Received(s).ha_failover_delay = Head(rtc[s]).delay
                     /\ Received(s).last_hb =
                          IF Head(rtc[s]).status \notin {main[s].ha_status, "error"}
                            THEN now ELSE main[s].last_hb
<1>1. main[s] \in Main /\ rtc[s] \in Seq(Message) /\ now \in Nat
  BY DEF ClusterType, TypeInv, TypeOK
<1>2. CASE rtc[s] = <<>>
  BY <1>1, <1>2 DEF Received
<1>3. CASE rtc[s] # <<>>
  <2> DEFINE h == Head(rtc[s])
  <2>1. h \in Message /\ h \in Messages(rtc[s])
    BY <1>1, <1>3, ReceiveMessages
  <2>2. CASE h \in [code : {"heartbeat"}]
    <3>1. h.code = "heartbeat" /\ h = Heartbeat
      BY <2>2 DEF Heartbeat
    <3>2. Received(s) = [main[s] EXCEPT !.last_hb = now]
      BY <1>3, <3>1 DEF Received
    <3> HIDE DEF h
    <3> QED  BY <1>1, <1>3, <2>1, <3>1, <3>2 DEF Main, h
  <2>3. CASE h \in [code : {"status"}, status : Statuses, delay : Nat]
    <3> DEFINE hb == IF h.status \notin {main[s].ha_status, "error"} THEN now
                                                                    ELSE main[s].last_hb
    <3>1. h.code = "status" /\ h.status \in Statuses /\ h.delay \in Nat
      BY <2>3
    <3>2. Received(s) = [main[s] EXCEPT !.ha_status = h.status,
                                        !.ha_failover_delay = h.delay, !.last_hb = hb]
      BY <1>3, <3>1 DEF Received
    <3>3. hb \in Nat
      BY <1>1 DEF Main
    <3> HIDE DEF h, hb
    <3>4. /\ Received(s) \in Main /\ Received(s).pc = main[s].pc
          /\ Received(s).ha_status_old = main[s].ha_status_old
          /\ Received(s).children = main[s].children
          /\ Received(s).ha_status = h.status
          /\ Received(s).ha_failover_delay = h.delay
          /\ Received(s).last_hb = hb
      BY <1>1, <3>1, <3>2, <3>3 DEF Main
    <3> QED  BY <1>3, <2>1, <2>3, <3>4 DEF h, hb
  <2> QED  BY <2>1, <2>2, <2>3 DEF Message
<1> QED  BY <1>2, <1>3

(* The state while a turn of the main loop is not over. *)
TurningMain ==
  [pc : MainPhases, ha_status : Statuses \union {"hatimeout"}, ha_status_old : Statuses,
   ha_failover_delay : Nat, last_hb : Nat, children : BOOLEAN, polled : BOOLEAN,
   command : Nat]

(* What the watchdog makes of the message. *)
LEMMA DispatchedFacts ==
  ASSUME ClusterType, NEW s \in Servers
  PROVE  /\ Dispatched(s) \in TurningMain /\ Dispatched(s).pc = main[s].pc
         /\ Dispatched(s).ha_status_old = main[s].ha_status_old
         /\ Dispatched(s).children = main[s].children
         /\ Dispatched(s).ha_failover_delay = Received(s).ha_failover_delay
         /\ \/ /\ Dispatched(s).ha_status = Received(s).ha_status
               /\ Dispatched(s).last_hb = Received(s).last_hb
               /\ Received(s).ha_status # "error" => ~TimedOut(s, Received(s))
            \/ /\ TimedOut(s, Received(s))
               /\ Dispatched(s).last_hb = 0
               /\ \/ /\ Received(s).ha_status = "active"
                     /\ Dispatched(s).ha_status = "standby"
                  \/ /\ Received(s).ha_status \notin {"active", "error"}
                     /\ Dispatched(s).ha_status = "hatimeout"
<1> DEFINE r == Received(s)
<1>1. /\ r \in Main /\ r.pc = main[s].pc /\ r.ha_status_old = main[s].ha_status_old
      /\ r.children = main[s].children
  BY ReceivedFacts
<1> DEFINE status == IF r.ha_status = "active" THEN "standby" ELSE "hatimeout"
           late == [r EXCEPT !.last_hb = 0, !.ha_status = status]
<1>2. /\ late \in TurningMain /\ late.pc = r.pc /\ late.ha_status_old = r.ha_status_old
      /\ late.children = r.children /\ late.ha_failover_delay = r.ha_failover_delay
      /\ late.last_hb = 0 /\ late.ha_status = status
  <2>1. status \in Statuses \union {"hatimeout"}
    BY DEF Statuses
  <2> HIDE DEF r, status
  <2> QED  BY <1>1, <2>1 DEF Main, TurningMain
<1>3. r \in TurningMain
  <2> HIDE DEF r
  <2> QED  BY <1>1 DEF Main, TurningMain
<1>4. \/ Dispatched(s) = r /\ (r.ha_status # "error" => ~TimedOut(s, r))
      \/ Dispatched(s) = late /\ TimedOut(s, r) /\ r.ha_status # "error"
  BY Zenon DEF Dispatched
<1>5. \/ r.ha_status = "active" /\ status = "standby"
      \/ r.ha_status # "active" /\ status = "hatimeout"
  OBVIOUS
<1> HIDE DEF late, status
<1> QED  BY <1>1, <1>2, <1>3, <1>4, <1>5

(* What a turn of the main loop leaves in the queue, unless the manager is *)
(* started again.                                                          *)
Rest(s) == IF rtc[s] = <<>> THEN <<>> ELSE Tail(rtc[s])

(* The ends of a turn of the main loop. *)
TurnExits(s) ==
  /\ rtc'[s] = Rest(s) /\ UNCHANGED vars
  /\ main'[s].pc = "exit" /\ main'[s].children = main[s].children

TurnRestarts(s) ==
  /\ RestartManager(s) /\ rtc'[s] = <<>>
  /\ TimedOut(s, Received(s)) /\ Received(s).ha_status \notin {"active", "error"}
  /\ main'[s].pc = "loop" /\ main'[s].ha_status = "standby"
  /\ main'[s].ha_status_old = main[s].ha_status_old
  /\ main'[s].children = main[s].children

TurnStays(s) ==
  /\ rtc'[s] = Rest(s) /\ UNCHANGED vars
  /\ main'[s].pc = "loop" /\ main'[s].polled = TRUE
  /\ main'[s].ha_status_old = main[s].ha_status_old
  /\ main'[s].children = main[s].children
  /\ \/ /\ ~TimedOut(s, Received(s)) /\ main'[s].last_hb = Received(s).last_hb
        /\ main'[s].ha_status = Received(s).ha_status
        /\ Received(s).ha_status \in {"unknown", main[s].ha_status_old}
     \/ /\ TimedOut(s, Received(s)) /\ Received(s).ha_status = "active"
        /\ main[s].ha_status_old = "standby"

TurnStarts(s) ==
  /\ rtc'[s] = Rest(s) /\ UNCHANGED vars
  /\ Received(s).ha_status = "active" /\ main[s].ha_status_old # "active"
  /\ main'[s].pc = "startup" /\ main'[s].ha_status = "active"
  /\ main'[s].ha_status_old = "active" /\ main'[s].children = TRUE

TurnTearsDown(s) ==
  /\ RestartManager(s) /\ rtc'[s] = <<>>
  /\ main'[s].pc = "loop" /\ main'[s].ha_status = "standby"
  /\ main'[s].ha_status_old = "standby" /\ main'[s].children = FALSE

LEMMA LoopTurns ==
  ASSUME ClusterType, NEW s \in Servers, MainLoop(s)
  PROVE  /\ main'[s] \in Main /\ rtc'[s] \in Seq(Message)
         /\ Messages(rtc'[s]) \subseteq Messages(rtc[s])
         /\ main'[s].ha_failover_delay = Received(s).ha_failover_delay
         /\ \A t \in Servers \ {s} : main'[t] = main[t] /\ rtc'[t] = rtc[t]
         /\ main' \in [Servers -> Main] /\ rtc' \in [Servers -> Seq(Message)]
         /\ \/ TurnExits(s) \/ TurnRestarts(s) \/ TurnStays(s) \/ TurnStarts(s)
            \/ TurnTearsDown(s)
<1> DEFINE m == [Dispatched(s) EXCEPT !.polled = TRUE, !.command = 0]
           received == IF rtc[s] = <<>> THEN rtc ELSE [rtc EXCEPT ![s] = Tail(@)]
<1>1. /\ main \in [Servers -> Main] /\ rtc \in [Servers -> Seq(Message)]
      /\ rtc[s] \in Seq(Message) /\ main[s].pc = "loop" /\ main[s] \in Main
  BY DEF ClusterType, MainLoop
<1>2. /\ m \in TurningMain /\ m.pc = main[s].pc
      /\ m.ha_status_old = main[s].ha_status_old /\ m.children = main[s].children
      /\ m.ha_failover_delay = Received(s).ha_failover_delay
      /\ m.ha_status = Dispatched(s).ha_status /\ m.last_hb = Dispatched(s).last_hb
      /\ m.polled = TRUE
  BY DispatchedFacts DEF TurningMain
<1>3. ASSUME rtc' = received
      PROVE  /\ rtc' \in [Servers -> Seq(Message)] /\ rtc'[s] = Rest(s)
             /\ Messages(rtc'[s]) \subseteq Messages(rtc[s])
             /\ \A t \in Servers \ {s} : rtc'[t] = rtc[t]
  <2>1. CASE rtc[s] = <<>>
    BY <1>1, <1>3, <2>1 DEF Rest
  <2>2. CASE rtc[s] # <<>>
    BY <1>1, <1>3, <2>2, ReceiveMessages DEF Rest
  <2> QED  BY <2>1, <2>2
<1>4. ASSUME rtc' = [rtc EXCEPT ![s] = <<>>]
      PROVE  /\ rtc' \in [Servers -> Seq(Message)] /\ rtc'[s] = <<>>
             /\ Messages(rtc'[s]) \subseteq Messages(rtc[s])
             /\ \A t \in Servers \ {s} : rtc'[t] = rtc[t]
  BY <1>1, <1>4, NoMessages
<1>5. ASSUME NEW x \in Main, SetMain(s, x)
      PROVE  /\ main'[s] = x /\ main' \in [Servers -> Main]
             /\ \A t \in Servers \ {s} : main'[t] = main[t]
  BY <1>1, <1>5 DEF SetMain
<1> DEFINE d == Dispatched(s)
           exits == [m EXCEPT !.pc = "exit"]
           restarts == [m EXCEPT !.ha_status = "standby", !.polled = TRUE]
           starts == [m EXCEPT !.pc = "startup", !.ha_status_old = "active", !.children = TRUE]
           old == [m EXCEPT !.ha_status_old = "standby"]
           ends == [old EXCEPT !.pc = "loop", !.children = FALSE, !.polled = TRUE]
<1>6. \/ m.ha_status = "error" /\ SetMain(s, exits) /\ rtc' = received /\ UNCHANGED vars
      \/ /\ m.ha_status = "hatimeout" /\ RestartManager(s)
         /\ rtc' = [rtc EXCEPT ![s] = <<>>] /\ SetMain(s, restarts)
      \/ /\ m.ha_status \notin {"error", "hatimeout"}
         /\ m.ha_status \in {"unknown", m.ha_status_old}
         /\ SetMain(s, m) /\ rtc' = received /\ UNCHANGED vars
      \/ /\ m.ha_status = "active" /\ m.ha_status_old # "active"
         /\ SetMain(s, starts) /\ rtc' = received /\ UNCHANGED vars
      \/ /\ m.ha_status = "standby" /\ m.ha_status_old # "standby"
         /\ RestartManager(s) /\ rtc' = [rtc EXCEPT ![s] = <<>>] /\ SetMain(s, ends)
  BY DEF MainLoop, Teardown
<1>7. /\ "exit" \in MainPhases /\ "startup" \in MainPhases /\ "loop" \in MainPhases
      /\ "standby" \in Statuses /\ "active" \in Statuses /\ "error" \in Statuses
  BY DEF MainPhases, Statuses
<1> HIDE DEF m, received
<1>8. CASE m.ha_status = "error" /\ SetMain(s, exits) /\ rtc' = received /\ UNCHANGED vars
  <2>1. /\ exits \in Main /\ exits.pc = "exit"
        /\ exits.ha_failover_delay = m.ha_failover_delay
        /\ exits.children = m.children
    BY <1>2, <1>7, <1>8 DEF Main, TurningMain
  <2> HIDE DEF exits
  <2> QED  BY <1>2, <1>3, <1>5, <1>8, <2>1 DEF TurnExits
<1>9. CASE /\ m.ha_status = "hatimeout" /\ RestartManager(s)
           /\ rtc' = [rtc EXCEPT ![s] = <<>>] /\ SetMain(s, restarts)
  <2>1. /\ restarts \in Main /\ restarts.pc = "loop" /\ restarts.ha_status = "standby"
        /\ restarts.ha_failover_delay = m.ha_failover_delay
        /\ restarts.ha_status_old = m.ha_status_old /\ restarts.children = m.children
    BY <1>1, <1>2, <1>7 DEF Main, TurningMain
  <2>2. TimedOut(s, Received(s)) /\ Received(s).ha_status \notin {"active", "error"}
    <3>1. Received(s).ha_status \in Statuses
      BY ReceivedFacts DEF Main
    <3>2. "hatimeout" \notin Statuses
      BY DEF Statuses
    <3> QED  BY <1>2, <1>9, <3>1, <3>2, DispatchedFacts
  <2> HIDE DEF restarts
  <2> QED  BY <1>2, <1>4, <1>5, <1>9, <2>1, <2>2 DEF TurnRestarts
<1>10. CASE /\ m.ha_status \notin {"error", "hatimeout"}
            /\ m.ha_status \in {"unknown", m.ha_status_old}
            /\ SetMain(s, m) /\ rtc' = received /\ UNCHANGED vars
  <2>1. m \in Main
    BY <1>2, <1>10 DEF Main, TurningMain
  <2>2. main'[s] = m
    BY <1>5, <1>10, <2>1
  <2>3. \/ /\ ~TimedOut(s, Received(s)) /\ m.last_hb = Received(s).last_hb
           /\ m.ha_status = Received(s).ha_status
           /\ Received(s).ha_status \in {"unknown", main[s].ha_status_old}
        \/ /\ TimedOut(s, Received(s)) /\ Received(s).ha_status = "active"
           /\ main[s].ha_status_old = "standby"
    BY <1>2, <1>10, DispatchedFacts
  <2>4. TurnStays(s)
    BY <1>1, <1>2, <1>3, <1>10, <2>2, <2>3 DEF TurnStays
  <2> QED  BY <1>2, <1>3, <1>5, <1>10, <2>1, <2>2, <2>4
<1>11. CASE /\ m.ha_status = "active" /\ m.ha_status_old # "active"
            /\ SetMain(s, starts) /\ rtc' = received /\ UNCHANGED vars
  <2>1. /\ starts \in Main /\ starts.pc = "startup" /\ starts.ha_status = "active"
        /\ starts.ha_status_old = "active" /\ starts.children = TRUE
        /\ starts.ha_failover_delay = m.ha_failover_delay
    BY <1>2, <1>7, <1>11 DEF Main, TurningMain
  <2>2. Received(s).ha_status = "active"
    BY <1>2, <1>11, DispatchedFacts
  <2> HIDE DEF starts
  <2> QED  BY <1>2, <1>3, <1>5, <1>11, <2>1, <2>2 DEF TurnStarts
<1>12. CASE /\ m.ha_status = "standby" /\ m.ha_status_old # "standby"
            /\ RestartManager(s) /\ rtc' = [rtc EXCEPT ![s] = <<>>] /\ SetMain(s, ends)
  <2>1. old \in Main /\ old.ha_status = "standby" /\ old.ha_status_old = "standby"
        /\ old.ha_failover_delay = m.ha_failover_delay
    BY <1>2, <1>7, <1>12 DEF Main, TurningMain
  <2>2. /\ ends \in Main /\ ends.pc = "loop" /\ ends.ha_status = "standby"
        /\ ends.ha_status_old = "standby" /\ ends.children = FALSE
        /\ ends.ha_failover_delay = m.ha_failover_delay
    <3> HIDE DEF old
    <3> QED  BY <1>7, <2>1 DEF Main
  <2> HIDE DEF ends, old
  <2> QED  BY <1>2, <1>4, <1>5, <1>12, <2>2 DEF TurnTearsDown
<1> QED  BY <1>6, <1>8, <1>9, <1>10, <1>11, <1>12

(* The status a main process gets comes from the manager, or it is forced. *)
Told(s, status) ==
  \/ Answers(s) /\ status = info[s].ha_status
  \/ "timeout" \in Events /\ status = IF IsCluster(s) THEN "standby" ELSE "active"

(* The delay that comes with it. *)
ToldDelay(s, delay) == delay \in {main[s].ha_failover_delay, info[s].failover_delay}

LEMMA GetStatusTurns ==
  ASSUME ClusterType, NEW s \in Servers, MainGetStatus(s)
  PROVE  /\ main' \in [Servers -> Main] /\ UNCHANGED <<vars, rtc>>
         /\ \A t \in Servers \ {s} : main'[t] = main[t]
         /\ ToldDelay(s, main'[s].ha_failover_delay)
         /\ \/ main'[s].pc = "exit" /\ main'[s].children = main[s].children
            \/ /\ main'[s].pc = "startup" /\ Told(s, "active")
               /\ main'[s].ha_status = "active" /\ main'[s].ha_status_old = "active"
               /\ main'[s].children = TRUE
            \/ /\ main'[s].pc = "loop" /\ Told(s, main'[s].ha_status)
               /\ main'[s].ha_status \in {"standby", "unknown"}
               /\ main'[s].ha_status_old = main'[s].ha_status
               /\ main'[s].children = main[s].children
<1>1. PICK m \in GetStatus(s) :
        SetMain(s, CASE m.ha_status = "error" -> [m EXCEPT !.pc = "exit"]
                     [] m.ha_status = "active" -> [m EXCEPT !.pc = "startup", !.children = TRUE,
                                                            !.ha_status_old = "active"]
                     [] OTHER -> [m EXCEPT !.pc = "loop", !.ha_status_old = m.ha_status])
  BY DEF MainGetStatus
<1>2. /\ m \in Main /\ Told(s, m.ha_status) /\ ToldDelay(s, m.ha_failover_delay)
      /\ m.children = main[s].children
  BY GotStatus DEF Told, ToldDelay
<1>3. UNCHANGED <<vars, rtc>> /\ main \in [Servers -> Main]
  BY DEF MainGetStatus, ClusterType
<1> DEFINE exits == [m EXCEPT !.pc = "exit"]
           starts == [m EXCEPT !.pc = "startup", !.children = TRUE, !.ha_status_old = "active"]
           waits == [m EXCEPT !.pc = "loop", !.ha_status_old = m.ha_status]
<1>4. /\ exits \in Main /\ exits.pc = "exit"
      /\ exits.ha_failover_delay = m.ha_failover_delay /\ exits.children = m.children
      /\ starts \in Main /\ starts.pc = "startup" /\ starts.children = TRUE
      /\ starts.ha_status_old = "active" /\ starts.ha_status = m.ha_status
      /\ starts.ha_failover_delay = m.ha_failover_delay
      /\ waits \in Main /\ waits.pc = "loop" /\ waits.children = m.children
      /\ waits.ha_status_old = m.ha_status /\ waits.ha_status = m.ha_status
      /\ waits.ha_failover_delay = m.ha_failover_delay
  BY <1>2 DEF Main, MainPhases, Statuses
<1>5. \/ SetMain(s, exits)
      \/ m.ha_status = "active" /\ SetMain(s, starts)
      \/ m.ha_status \in {"standby", "unknown"} /\ SetMain(s, waits)
  <2>1. m.ha_status \in {"unknown", "standby", "active", "error"}
    BY <1>2 DEF Main, Statuses
  <2> QED  BY <1>1, <2>1
<1> HIDE DEF exits, starts, waits
<1>6. ASSUME NEW x \in Main, SetMain(s, x)
      PROVE  /\ main'[s] = x /\ main' \in [Servers -> Main]
             /\ \A t \in Servers \ {s} : main'[t] = main[t]
  BY <1>3, <1>6 DEF SetMain
<1> QED  BY <1>2, <1>3, <1>4, <1>5, <1>6

LEMMA StartedTurns ==
  ASSUME ClusterType, NEW s \in Servers, MainStarted(s)
  PROVE  /\ main' \in [Servers -> Main] /\ rtc' \in [Servers -> Seq(Message)]
         /\ \A t \in Servers \ {s} : main'[t] = main[t] /\ rtc'[t] = rtc[t]
         /\ ToldDelay(s, main'[s].ha_failover_delay)
         /\ \/ main'[s].pc = "exit" /\ UNCHANGED <<vars, rtc>>
            \/ /\ main'[s].pc = "loop" /\ Told(s, "active")
               /\ main'[s].ha_status = "active" /\ main'[s].last_hb = now
               /\ main'[s].ha_status_old = main[s].ha_status_old
               /\ main'[s].children = main[s].children
               /\ main'[s].polled = FALSE
               /\ UNCHANGED <<vars, rtc>>
            \/ /\ RestartManager(s) /\ rtc'[s] = <<>>
               /\ main'[s].pc = "loop" /\ Told(s, main'[s].ha_status)
               /\ main'[s].ha_status \in {"standby", "unknown"}
               /\ main'[s].ha_status_old = main'[s].ha_status
               /\ main'[s].children = FALSE
<1>1. PICK m \in GetStatus(s) :
       \/ /\ m.ha_status = "error"
          /\ SetMain(s, [m EXCEPT !.pc = "exit"])
          /\ UNCHANGED <<vars, rtc>>
       \/ /\ m.ha_status = "active"
          /\ SetMain(s, [m EXCEPT !.pc = "loop", !.last_hb = now, !.polled = FALSE])
          /\ UNCHANGED <<vars, rtc>>
       \/ /\ m.ha_status \in {"standby", "unknown"}
          /\ Teardown(s, [m EXCEPT !.ha_status_old = m.ha_status])
  BY DEF MainStarted
<1>2. /\ m \in Main /\ Told(s, m.ha_status) /\ ToldDelay(s, m.ha_failover_delay)
      /\ m.children = main[s].children /\ m.ha_status_old = main[s].ha_status_old
  BY GotStatus DEF Told, ToldDelay
<1>3. main \in [Servers -> Main] /\ rtc \in [Servers -> Seq(Message)] /\ now \in Nat
  BY DEF ClusterType, TypeInv, TypeOK
<1> DEFINE exits == [m EXCEPT !.pc = "exit"]
           serves == [m EXCEPT !.pc = "loop", !.last_hb = now, !.polled = FALSE]
           old == [m EXCEPT !.ha_status_old = m.ha_status]
           ends == [old EXCEPT !.pc = "loop", !.children = FALSE, !.polled = TRUE]
<1>4. /\ exits \in Main /\ exits.pc = "exit"
      /\ exits.ha_failover_delay = m.ha_failover_delay
      /\ serves \in Main /\ serves.pc = "loop" /\ serves.children = m.children
      /\ serves.last_hb = now /\ serves.polled = FALSE /\ serves.ha_status = m.ha_status
      /\ serves.ha_status_old = m.ha_status_old
      /\ serves.ha_failover_delay = m.ha_failover_delay
      /\ old \in Main /\ old.ha_status = m.ha_status /\ old.ha_status_old = m.ha_status
      /\ old.ha_failover_delay = m.ha_failover_delay
  BY <1>2, <1>3 DEF Main, MainPhases
<1>5. /\ ends \in Main /\ ends.pc = "loop" /\ ends.children = FALSE
      /\ ends.ha_status = m.ha_status /\ ends.ha_status_old = m.ha_status
      /\ ends.ha_failover_delay = m.ha_failover_delay
  <2> HIDE DEF old
  <2> QED  BY <1>4 DEF Main, MainPhases
<1>6. \/ SetMain(s, exits) /\ UNCHANGED <<vars, rtc>>
      \/ m.ha_status = "active" /\ SetMain(s, serves) /\ UNCHANGED <<vars, rtc>>
      \/ /\ m.ha_status \in {"standby", "unknown"} /\ SetMain(s, ends)
         /\ RestartManager(s) /\ rtc' = [rtc EXCEPT ![s] = <<>>]
  BY <1>1 DEF Teardown
<1> HIDE DEF exits, serves, old, ends
<1>7. ASSUME NEW x \in Main, SetMain(s, x)
      PROVE  /\ main'[s] = x /\ main' \in [Servers -> Main]
             /\ \A t \in Servers \ {s} : main'[t] = main[t]
  BY <1>3, <1>7 DEF SetMain
<1>8. ASSUME rtc' = [rtc EXCEPT ![s] = <<>>]
      PROVE  /\ rtc' \in [Servers -> Seq(Message)] /\ rtc'[s] = <<>>
             /\ \A t \in Servers \ {s} : rtc'[t] = rtc[t]
  BY <1>3, <1>8, NoMessages
<1> QED  BY <1>2, <1>3, <1>4, <1>5, <1>6, <1>7, <1>8

(* The other steps of a main process; it is off or exiting after them. *)
LEMMA ExitTurns ==
  ASSUME ClusterType, NEW s \in Servers,
         \/ MainPause(s) \/ MainStop(s) \/ MainSync(s) \/ MainExited(s) \/ MainSignal(s)
         \/ ServerCrash(s)
  PROVE  /\ main' \in [Servers -> Main] /\ rtc' \in [Servers -> Seq(Message)]
         /\ \A t \in Servers \ {s} : main'[t] = main[t] /\ rtc'[t] = rtc[t]
         /\ Messages(rtc'[s]) \subseteq Messages(rtc[s])
         /\ main'[s].pc \in {"off", "exit", "wait", "stop", "sync"}
         /\ main'[s].ha_failover_delay \in {main[s].ha_failover_delay, DefaultDelay}
         /\ main'[s].pc = "off" => info'[s].pc = "off" \/ main[s].pc = "sync"
<1>1. /\ main \in [Servers -> Main] /\ rtc \in [Servers -> Seq(Message)]
      /\ main[s] \in Main /\ info[s] \in Info
      /\ DOMAIN info = Servers
  BY DEF ClusterType, TypeInv, TypeOK
<1>2. /\ OffMain \in Main /\ OffMain.pc = "off" /\ OffMain.ha_failover_delay = DefaultDelay
  BY ConfigAssumption DEF OffMain, Main, MainPhases, Statuses
<1>3. ASSUME NEW x \in Main, SetMain(s, x), x.pc \in {"exit", "wait", "stop", "sync"},
             x.ha_failover_delay = main[s].ha_failover_delay, rtc' = rtc
      PROVE  /\ main' \in [Servers -> Main] /\ rtc' \in [Servers -> Seq(Message)]
             /\ \A t \in Servers \ {s} : main'[t] = main[t] /\ rtc'[t] = rtc[t]
             /\ Messages(rtc'[s]) \subseteq Messages(rtc[s])
             /\ main'[s].pc \in {"exit", "wait", "stop", "sync"}
             /\ main'[s].ha_failover_delay = main[s].ha_failover_delay
  BY <1>1, <1>3 DEF SetMain
<1>4. CASE MainPause(s)
  <2> DEFINE x == [main[s] EXCEPT !.pc = "wait"]
  <2>1. x \in Main /\ x.pc = "wait" /\ x.ha_failover_delay = main[s].ha_failover_delay
    BY <1>1 DEF Main, MainPhases
  <2>2. SetMain(s, x) /\ rtc' = rtc
    BY <1>4 DEF MainPause
  <2> HIDE DEF x
  <2> QED  BY <1>3, <2>1, <2>2
<1>5. CASE MainStop(s)
  <2> DEFINE x == [main[s] EXCEPT !.pc = "stop", !.children = FALSE]
  <2>1. x \in Main /\ x.pc = "stop" /\ x.ha_failover_delay = main[s].ha_failover_delay
    BY <1>1 DEF Main, MainPhases
  <2>2. SetMain(s, x) /\ rtc' = rtc
    BY <1>5 DEF MainStop
  <2> HIDE DEF x
  <2> QED  BY <1>3, <2>1, <2>2
<1>6. CASE MainSignal(s)
  <2> DEFINE x == [main[s] EXCEPT !.pc = "exit", !.command = 0]
  <2>1. x \in Main /\ x.pc = "exit" /\ x.ha_failover_delay = main[s].ha_failover_delay
    BY <1>1 DEF Main, MainPhases
  <2>2. SetMain(s, x) /\ rtc' = rtc
    BY <1>6 DEF MainSignal
  <2> HIDE DEF x
  <2> QED  BY <1>3, <2>1, <2>2
<1>7. CASE MainSync(s)
  <2> DEFINE x == [main[s] EXCEPT !.pc = "sync"]
  <2>1. x \in Main /\ x.pc = "sync" /\ x.ha_failover_delay = main[s].ha_failover_delay
    BY <1>1 DEF Main, MainPhases
  <2>2. /\ SetMain(s, x) \/ SetMain(s, OffMain)
        /\ rtc' = rtc /\ info' = info /\ info[s].pc = "off"
    BY <1>7 DEF MainSync, vars
  <2> HIDE DEF x
  <2>3. CASE SetMain(s, x)
    BY <1>3, <2>1, <2>2, <2>3
  <2>4. CASE SetMain(s, OffMain)
    BY <1>1, <1>2, <2>2, <2>4 DEF SetMain
  <2> QED  BY <2>2, <2>3, <2>4
<1>8. CASE MainExited(s)
  <2>1. main' = [main EXCEPT ![s] = OffMain] /\ rtc' = rtc /\ main[s].pc = "sync"
    BY <1>8 DEF MainExited, SetMain
  <2> QED  BY <1>1, <1>2, <2>1
<1>9. CASE ServerCrash(s)
  <2>1. /\ main' = [main EXCEPT ![s] = OffMain] /\ rtc' = [rtc EXCEPT ![s] = <<>>]
        /\ \/ info' = [info EXCEPT ![s] = OffInfo]
           \/ info[s].pc = "off" /\ info' = info
    BY <1>9 DEF ServerCrash, SetMain, KillManager, vars
  <2>2. OffInfo.pc = "off"
    BY DEF OffInfo, StartedInfo
  <2>3. info'[s].pc = "off"
    BY <1>1, <2>1, <2>2
  <2> QED  BY <1>1, <1>2, <2>1, <2>3, NoMessages
<1> QED  BY <1>4, <1>5, <1>6, <1>7, <1>8, <1>9

---------------------------------------------------------------------------
(* Why two nodes never serve at a time.  A main process that serves trusts *)
(* the last heartbeat of its manager for the failover delay, less a poll   *)
(* period.  The manager sends a heartbeat only within a poll period of the *)
(* last refresh of its row, so a node that serves has refreshed the row    *)
(* within the failover delay, and the lease it holds is safe.              *)

Leads(i) == i.pc = "loop" /\ i.ha_status = "active"
StatusMessage(status) == [code |-> "status", status |-> status, delay |-> DefaultDelay]

Serves(m) == m.pc = "loop" /\ m.children = TRUE
Up(m) == m.pc \in {"getstatus", "startup", "loop"}

(* A main process that may go on to start the server processes. *)
MayStart(m, q) ==
  \/ m.pc \in {"getstatus", "startup"}
  \/ m.pc = "loop" /\ m.children = FALSE /\ StatusMessage("active") \in Messages(q)

(* What a main process and its messages tell of its manager. *)
MainKept(m, i, q) ==
  /\ m.ha_failover_delay = DefaultDelay
  /\ m.pc = "getstatus" => m.children = FALSE
  /\ m.pc = "startup" => m.children = TRUE /\ m.ha_status_old = "active"
  /\ m.pc = "loop" =>
       /\ m.children = TRUE <=> m.ha_status_old = "active"
       /\ m.ha_status = "active" <=> m.ha_status_old = "active"
  /\ Messages(q) \subseteq
       {Heartbeat} \union {StatusMessage(status) : status \in Statuses \ {"unknown"}}
  /\ i.pc # "remove"
  /\ m.pc \in {"off", "sync"} => i.pc = "off"
  /\ Up(m) => i.pc # "stopping" /\ (i.pc = "paused" => i.ha_status = "error")

(* What a main process that serves knows of its row in the registry. *)
ServeKept(m, i, q, row, time) ==
  /\ row.status = "active"
  /\ m.last_hb >= 1
  /\ m.last_hb < row.lastaccess + PollPeriod
  /\ time + PollPeriod <= m.last_hb + DefaultDelay
  /\ m.polled = TRUE => time + PollPeriod < m.last_hb + DefaultDelay
  /\ Heartbeat \in Messages(q) => time < row.lastaccess + PollPeriod
  /\ i.pc \in {"off", "paused"} \/ Leads(i)

LeaseKept(m, i, q, row, time) ==
  /\ MayStart(m, q) /\ Leads(i) => row.status = "active" /\ row.lastaccess = time
  /\ Serves(m) => ServeKept(m, i, q, row, time)
  /\ (MayStart(m, q) \/ Serves(m)) /\ Leads(i) /\ i.nextcheck > 1
       => NextTime(i, time) <= row.lastaccess + PollPeriod

MainInv == \A s \in Servers : MainKept(main[s], info[s], rtc[s])

LeaseInv ==
  \A s \in Servers :
    IsCluster(s) => LeaseKept(main[s], info[s], rtc[s], ha_node[NameOf[s]], now)

(***************************************************************************)
(* What the proof asks of the cluster: the database tells the outcome of   *)
(* each transaction that reads, no operator removes nodes or changes the   *)
(* failover delay, the server processes start within a second, and the     *)
(* nodes of the cluster have names of their own.  Managers may hang, be    *)
(* killed and restarted, fail to answer and lose the database, and servers *)
(* may crash and exit.                                                     *)
(***************************************************************************)
SteadyCluster ==
  /\ Acknowledged
  /\ Events \cap {"delay", "remove", "startup"} = {}
  /\ PollPeriod < DefaultDelay
  /\ \A s, t \in Servers : IsCluster(s) /\ NameOf[s] = NameOf[t] => s = t

LEMMA MessageCodes ==
  ASSUME NEW status
  PROVE  /\ Heartbeat # StatusMessage(status)
         /\ \A other : StatusMessage(status) = StatusMessage(other) => status = other
<1>1. Heartbeat.code = "heartbeat"
  BY DEF Heartbeat
<1>2. \A st : StatusMessage(st).code = "status" /\ StatusMessage(st).status = st
  BY DEF StatusMessage
<1> QED  BY <1>1, <1>2

(* The messages of a step of a manager. *)
LEMMA SentFacts ==
  ASSUME ClusterType, NEW s \in Servers, info'[s] \in Info,
         info'[s].failover_delay = DefaultDelay
  PROVE  /\ Sent(s) \in Seq(Message)
         /\ \A msg \in Messages(Sent(s)) :
              \/ msg \in Messages(rtc[s])
              \/ msg = Heartbeat /\ TickEnds(s) /\ HeartbeatDue(s)
              \/ msg = StatusMessage(info'[s].ha_status) /\ TickEnds(s) /\ StatusChanged(s)
<1> DEFINE told == StatusMessage(info'[s].ha_status)
           updated == IF StatusChanged(s) THEN Send(rtc[s], told) ELSE rtc[s]
<1>1. StatusUpdate(info'[s]) = told
  BY DEF StatusUpdate, StatusMessage
<1>2. rtc[s] \in Seq(Message)
  BY DEF ClusterType
<1>3. told \in Message /\ Heartbeat \in Message
  BY ConfigAssumption DEF StatusMessage, Heartbeat, Message, Info
<1>4. Sent(s) = IF ~TickEnds(s) THEN rtc[s]
                ELSE IF HeartbeatDue(s) THEN Send(updated, Heartbeat) ELSE updated
  BY <1>1 DEF Sent
<1> HIDE DEF told
<1>5. /\ updated \in Seq(Message)
      /\ \A msg \in Messages(updated) :
           msg \in Messages(rtc[s]) \/ (msg = told /\ StatusChanged(s))
  <2>1. /\ Send(rtc[s], told) \in Seq(Message)
        /\ Messages(Send(rtc[s], told)) \subseteq Messages(rtc[s]) \union {told}
    BY <1>2, <1>3, SendMessages
  <2>2. CASE StatusChanged(s)
    BY <2>1, <2>2
  <2>3. CASE ~StatusChanged(s)
    <3>1. updated = rtc[s]
      BY <2>3
    <3> HIDE DEF updated
    <3> QED  BY <1>2, <3>1
  <2> QED  BY <2>2, <2>3
<1> HIDE DEF updated
<1>6. /\ Send(updated, Heartbeat) \in Seq(Message)
      /\ \A msg \in Messages(Send(updated, Heartbeat)) :
           msg \in Messages(updated) \/ msg = Heartbeat
  BY <1>3, <1>5, SendMessages
<1> QED  BY <1>2, <1>4, <1>5, <1>6 DEF told

---------------------------------------------------------------------------
(* A manager of a node with a name of its own knows the identifier of its  *)
(* row, or none, so that it refreshes the row it has compared.             *)

IdHeld(i, row) ==
  /\ i.pc \in {"init_register", "register"} => i.ha_nodeid # 0
  /\ i.ha_nodeid # 0 /\ row.status # "none" => row.nodeid = i.ha_nodeid

IdInv == \A s \in Servers : IsCluster(s) => IdHeld(info[s], ha_node[NameOf[s]])

(* A row that is there after a step was there before, with its identifier. *)
RowId(n) ==
  ha_node'[n].status # "none" =>
    ha_node[n].status # "none" /\ ha_node'[n].nodeid = ha_node[n].nodeid

LEMMA WrittenIds ==
  ASSUME TypeInv, NEW n \in Names, NEW id, NEW status \in RowStatuses \ {"none"},
         NEW session, NEW row,
         \/ row = ha_node[n]
         \/ row = NoRow
         \/ row = Touched(n, status) /\ HasId(n, id)
         \/ row = [Touched(n, status) EXCEPT !.session = session] /\ HasId(n, id)
         \/ row = MarkUnavailable(n) /\ Present(n),
         ha_node'[n] = row
  PROVE  RowId(n)
<1>1. /\ NoRow.status = "none"
      /\ Touched(n, status).nodeid = ha_node[n].nodeid
      /\ [Touched(n, status) EXCEPT !.session = session].nodeid = ha_node[n].nodeid
      /\ MarkUnavailable(n).nodeid = ha_node[n].nodeid
  BY DEF NoRow, Touched, MarkUnavailable, TypeInv, TypeOK, Row
<1>2. HasId(n, id) => ha_node[n].status # "none"
  BY DEF HasId, Present
<1> QED  BY <1>1, <1>2 DEF RowId, Present

LEMMA CheckIdsKept ==
  ASSUME TypeInv, NEW s \in Servers, CheckNodes(s), NEW n \in Names
  PROVE  RowId(n)
<1>1. \A status \in {"active", "standby"} : status \in RowStatuses \ {"none"}
  BY DEF RowStatuses
<1>2. ASSUME ha_node' = ha_node PROVE RowId(n)
  BY <1>2 DEF RowId
<1>3. ASSUME NEW o \in Outcomes, CheckStandalone(s, o) PROVE RowId(n)
  <2> DEFINE i == CheckedInfo(s, o)
  <2>1. i.ha_status \in {"active", "standby"}
    BY <1>3, CheckOwnedType, CheckedInfoType DEF CheckStandalone, TypeInv
  <2>2. \/ ha_node'[n] = ha_node[n]
        \/ ha_node'[n] = Touched(n, i.ha_status) /\ HasId(n, i.ha_nodeid)
    BY <1>3 DEF CheckStandalone
  <2> HIDE DEF i
  <2> QED  BY <1>1, <2>1, <2>2, WrittenIds
<1>4. ASSUME NEW o \in Outcomes, CheckActive(s, o) PROVE RowId(n)
  <2> DEFINE i == CheckedInfo(s, o)
  <2>1. \/ ha_node'[n] = ha_node[n]
        \/ ha_node'[n] = Touched(n, "active") /\ HasId(n, i.ha_nodeid)
        \/ ha_node'[n] = MarkUnavailable(n) /\ Unavailable(n, i.ha_nodeid, settings)
    BY <1>4 DEF CheckActive
  <2>2. Unavailable(n, i.ha_nodeid, settings) => Present(n)
    BY DEF Unavailable, Present
  <2> HIDE DEF i
  <2> QED  BY <1>1, <2>1, <2>2, WrittenIds
<1>5. ASSUME NEW o \in Outcomes, CheckPassive(s, o) PROVE RowId(n)
  <2>1. ASSUME NEW i, NEW status \in {"active", "standby"}, NEW taken,
               EndPassive(s, o, i, status, taken), n \in taken => Present(n)
        PROVE  RowId(n)
    <3>1. \/ ha_node'[n] = ha_node[n]
          \/ ha_node'[n] = Touched(n, status) /\ HasId(n, i.ha_nodeid)
          \/ ha_node'[n] = MarkUnavailable(n) /\ Present(n)
      BY <2>1 DEF EndPassive, Passed
    <3> QED  BY <1>1, <2>1, <3>1, WrittenIds
  <2>2. \/ ha_node' = ha_node
        \/ EndPassive(s, o, CheckedInfo(s, o), "active", {})
        \/ \E a \in Names : \E i :
             /\ ha_node[a].status = "active"
             /\ EndPassive(s, o, i, "active", {a}) \/ EndPassive(s, o, i, "standby", {})
    BY <1>5 DEF CheckPassive
  <2>3. ASSUME NEW a \in Names, ha_node[a].status = "active", n \in {a} PROVE Present(n)
    BY <2>3 DEF Present
  <2> QED  BY <1>2, <2>1, <2>2, <2>3
<1> QED  BY <1>2, <1>3, <1>4, <1>5
         DEF CheckNodes, CheckNoDatabase, CheckError, CheckSplitBrain

LEMMA MoveIdsKept ==
  ASSUME TypeInv, NEW s \in Servers, SteadyMove(s), NEW n \in Names,
         \A o \in Outcomes : ~CreateNode(s, o)
  PROVE  RowId(n)
<1>1. ASSUME ha_node' = ha_node PROVE RowId(n)
  BY <1>1 DEF RowId
<1>2. ASSUME NEW o \in Outcomes, RegisterNode(s, o) PROVE RowId(n)
  <2>1. ASSUME NEW status \in {"active", "standby"}, ha_node' = Registered(s, status)
        PROVE  RowId(n)
    <3>1. status \in RowStatuses \ {"none"}
      BY DEF RowStatuses
    <3>2. \/ ha_node'[n] = NoRow
          \/ /\ ha_node'[n] = [Touched(n, status) EXCEPT !.session = ha_sessionid[s]]
             /\ HasId(n, info[s].ha_nodeid)
          \/ /\ ha_node'[n] = MarkUnavailable(n)
             /\ Unavailable(n, info[s].ha_nodeid, info[s].failover_delay)
          \/ ha_node'[n] = ha_node[n]
      BY <2>1, Zenon DEF Registered
    <3>3. Unavailable(n, info[s].ha_nodeid, info[s].failover_delay) => Present(n)
      BY DEF Unavailable, Present
    <3> QED  BY <3>1, <3>2, <3>3, WrittenIds
  <2>2. \/ ha_node' = ha_node
        \/ \E status \in {"active", "standby"} : ha_node' = Registered(s, status)
    BY <1>2 DEF RegisterNode
  <2> QED  BY <1>1, <2>1, <2>2
<1>3. ASSUME NEW o \in Outcomes,
             \/ UNCHANGED ha_node \/ UpdateLastaccess(s, o) \/ UpdateExitStatus(s, o)
             \/ RemoveNodeDelete(s, o)
      PROVE  RowId(n)
  <2>1. NoRow.status = "none"
    BY DEF NoRow
  <2> QED  BY <1>3, <2>1, RowUpdates DEF RowId
<1>4. CASE StartServer(s)
  BY <1>1, <1>4 DEF StartServer
<1>5. CASE SteadyOrder(s)
  <2>1. \/ ha_node' = ha_node \/ \E o \in Outcomes : UpdateLastaccess(s, o)
    BY <1>5 DEF SteadyOrder, KillManager, RestartManager, Pause, Stop, RemoveNodeCheck, registry
  <2> QED  BY <1>1, <1>3, <2>1
<1>6. CASE ManagerStep(s)
  <2>1. ASSUME ManagerTick(s) \/ RegisterAgain(s) \/ PausedWait(s) PROVE RowId(n)
    BY <1>1, <2>1 DEF ManagerTick, RegisterAgain, PausedWait, registry
  <2>2. ASSUME NEW o \in Outcomes,
               RemoveNodeDelete(s, o) \/ PausedUpdate(s, o) \/ UpdateExitStatus(s, o)
        PROVE  RowId(n)
    BY <1>3, <2>2 DEF PausedUpdate
  <2> QED  BY <1>2, <1>6, <2>1, <2>2, CheckIdsKept DEF ManagerStep
<1> QED  BY <1>4, <1>5, <1>6 DEF SteadyMove

(* What a manager in state i may be once it is done with the database. *)
After(i, j) ==
  /\ j \in Info /\ j.pc = i.pc /\ j.tick = i.tick
  /\ j.ha_status \in {i.ha_status, "active", "standby", "error"}
  /\ j.failover_delay \in {i.failover_delay, settings}

LEMMA AfterFacts ==
  ASSUME NEW i \in Info, NEW j, After(i, j)
  PROVE  /\ After(i, Failed(j)) /\ Failed(j).ha_status = "error"
         /\ \A status \in {"active", "standby"} : After(i, [j EXCEPT !.ha_status = status])
         /\ \A row \in Row : After(i, Watched(j, row))
         /\ \A id \in Nat : After(i, [j EXCEPT !.ha_nodeid = id])
<1>1. j \in Info
  BY DEF After
<1>2. ASSUME NEW row \in Row PROVE After(i, Watched(j, row))
  <2>1. /\ Watched(j, row).pc = j.pc /\ Watched(j, row).tick = j.tick
        /\ Watched(j, row).ha_status = j.ha_status
        /\ Watched(j, row).failover_delay = j.failover_delay
    BY <1>1 DEF Watched, Info
  <2> QED  BY <1>1, <2>1, WatchedType DEF After
<1>3. ASSUME NEW status \in {"active", "standby", "error"}
      PROVE  After(i, [j EXCEPT !.ha_status = status])
  <2>1. status \in Statuses
    BY DEF Statuses
  <2> QED  BY <1>1, <2>1 DEF After, Info
<1>4. ASSUME NEW id \in Nat PROVE After(i, [j EXCEPT !.ha_nodeid = id])
  BY <1>1 DEF After, Info
<1>5. Failed(j).ha_status = "error"
  BY <1>1 DEF Failed, Info
<1> QED  BY <1>2, <1>3, <1>4, <1>5 DEF Failed

(* The states in which a check or a registration ends. *)
LEMMA CheckResumes ==
  ASSUME TypeInv, NEW s \in Servers,
         CheckNodes(s) \/ \E o \in Outcomes : RegisterNode(s, o)
  PROVE  \E j \in Info : Resume(s, j) /\ After(info[s], j)
<1> DEFINE Ends == \E j \in Info : Resume(s, j) /\ After(info[s], j)
           ended(o) == [info[s] EXCEPT !.db_status = DbStatus(o)]
<1>1. info[s] \in Info
  BY DEF TypeInv, TypeOK
<1>2. ASSUME NEW j, After(info[s], j)
      PROVE  /\ Resume(s, j) => Ends
             /\ Resume(s, Failed(j)) => Ends
             /\ \A status \in {"active", "standby"} :
                  Resume(s, [j EXCEPT !.ha_status = status]) => Ends
  <2>1. \A k : Resume(s, k) /\ After(info[s], k) => Ends
    BY DEF After
  <2> HIDE DEF Ends
  <2> QED  BY <1>1, <1>2, <2>1, AfterFacts
<1>3. ASSUME NEW o \in Outcomes
      PROVE  After(info[s], ended(o)) /\ After(info[s], CheckedInfo(s, o))
  <2>1. /\ CheckedInfo(s, o).pc = info[s].pc /\ CheckedInfo(s, o).tick = info[s].tick
        /\ CheckedInfo(s, o).ha_status = info[s].ha_status
        /\ CheckedInfo(s, o).failover_delay = settings
    BY <1>1 DEF CheckedInfo, Info
  <2>2. CheckedInfo(s, o) \in Info
    BY CheckedInfoType DEF TypeInv
  <2> QED  BY <1>1, <2>1, <2>2 DEF After, Info, DbStatus
<1>5. ASSUME NEW o \in Outcomes, RegisterNode(s, o) PROVE Ends
  <2>1. \/ Resume(s, ended(o)) \/ Resume(s, Failed(ended(o)))
        \/ \E status \in {"active", "standby"} :
             Resume(s, [ended(o) EXCEPT !.ha_status = status])
    BY <1>5 DEF RegisterNode
  <2> HIDE DEF ended, Ends
  <2> QED  BY <1>2, <1>3, <2>1
<1>6. CASE CheckNodes(s)
  <2>1. ASSUME "nobegin" \in Outcomes, CheckNoDatabase(s) PROVE Ends
    <3>1. Resume(s, ended("nobegin"))
      BY <2>1 DEF CheckNoDatabase, DbStatus
    <3> HIDE DEF ended, Ends
    <3> QED  BY <1>2, <1>3, <2>1, <3>1
  <2>2. ASSUME NEW o \in Outcomes, CheckError(s, o) PROVE Ends
    <3>1. Resume(s, Failed(ended(o)))
      BY <2>2 DEF CheckError
    <3> HIDE DEF ended, Ends
    <3> QED  BY <1>2, <1>3, <3>1
  <2>3. ASSUME NEW o \in Outcomes,
               CheckStandalone(s, o) \/ CheckSplitBrain(s, o) \/ CheckActive(s, o)
        PROVE  Ends
    <3>1. \/ Resume(s, CheckedInfo(s, o))
          \/ Resume(s, [CheckedInfo(s, o) EXCEPT !.ha_status = "standby"])
      BY <2>3 DEF CheckStandalone, CheckSplitBrain, CheckActive
    <3> HIDE DEF Ends
    <3> QED  BY <1>2, <1>3, <3>1
  <2>4. ASSUME NEW o \in Outcomes, CheckPassive(s, o) PROVE Ends
    <3> DEFINE i == CheckedInfo(s, o)
    <3>1. ASSUME NEW j, After(info[s], j), NEW status \in {"active", "standby"}, NEW taken,
                 EndPassive(s, o, j, status, taken)
          PROVE  Ends
      <4>1. Resume(s, j) \/ Resume(s, [j EXCEPT !.ha_status = status])
        BY <3>1 DEF EndPassive
      <4> HIDE DEF Ends
      <4> QED  BY <1>2, <3>1, <4>1
    <3>2. \/ EndPassive(s, o, i, "active", {})
          \/ Resume(s, Failed(i))
          \/ \E a \in Names : \E taken : \E status \in {"active", "standby"} :
               EndPassive(s, o, Watched(i, ha_node[a]), status, taken)
      BY <2>4 DEF CheckPassive
    <3>3. After(info[s], i)
      BY <1>3
    <3> HIDE DEF i, Ends
    <3>4. \A a \in Names : After(info[s], Watched(i, ha_node[a]))
      BY <1>1, <3>3, AfterFacts DEF TypeInv, TypeOK
    <3>5. Resume(s, Failed(i)) => Ends
      BY <1>2, <3>3
    <3> QED  BY <3>1, <3>2, <3>3, <3>4, <3>5
  <2> QED  BY <1>6, <2>1, <2>2, <2>3, <2>4 DEF CheckNodes
<1> QED  BY <1>5, <1>6

LEMMA CreateResumes ==
  ASSUME TypeInv, NEW s \in Servers, NEW o \in Outcomes, CreateNode(s, o)
  PROVE  \E j \in Info :
           /\ Resume(s, j) \/ (ToRegister(s, j) /\ j.ha_status = info[s].ha_status)
           /\ After(info[s], j)
<1> DEFINE i == [info[s] EXCEPT !.db_status = DbStatus(o), !.failover_delay = settings]
           down == [info[s] EXCEPT !.db_status = "down"]
           with(id) == [i EXCEPT !.ha_nodeid = id]
<1>1. /\ info[s] \in Info /\ settings \in Nat /\ nextid \in Nat
      /\ NameOf[s] \in Names /\ ha_node[NameOf[s]].nodeid \in Nat
  BY ConfigAssumption DEF TypeInv, TypeOK, Row
<1>2. /\ After(info[s], info[s]) /\ After(info[s], i) /\ After(info[s], down)
  BY <1>1 DEF After, Info, DbStatus
<1>3. /\ After(info[s], Failed(info[s])) /\ After(info[s], Failed(i))
      /\ \A id \in Nat : After(info[s], with(id))
  <2> HIDE DEF i
  <2> QED  BY <1>1, <1>2, AfterFacts
<1>4. \/ ToRegister(s, down) \/ Resume(s, Failed(info[s])) \/ Resume(s, Failed(i))
      \/ ToRegister(s, i)
      \/ \E id \in {ha_node[NameOf[s]].nodeid, nextid} : ToRegister(s, with(id))
  BY DEF CreateNode
<1>5. \A j : After(info[s], j) => j \in Info
  BY DEF After
<1>6. i.ha_status = info[s].ha_status /\ down.ha_status = info[s].ha_status
  BY <1>1 DEF Info
<1>7. ASSUME NEW id \in Nat PROVE with(id).ha_status = info[s].ha_status
  <2>1. i \in Info
    BY <1>2, <1>5
  <2> HIDE DEF i
  <2> QED  BY <1>6, <2>1 DEF Info
<1> HIDE DEF i, down, with
<1> QED  BY <1>1, <1>2, <1>3, <1>4, <1>5, <1>6, <1>7

(* The phases of a manager and of the steps main takes with it. *)
LEMMA ManagerPhases ==
  ASSUME TypeInv, NEW s \in Servers, ManagerStep(s)
  PROVE  /\ info[s].pc # "off" /\ info'[s].pc \notin {"remove", "stopping"}
         /\ info'[s].pc = "paused" /\ info[s].pc # "remove" =>
              \/ info'[s].ha_status = "error"
              \/ info[s].pc = "paused" /\ info'[s].ha_status = info[s].ha_status
         /\ (\A o \in Outcomes : ~CreateNode(s, o))
              => info'[s].pc \notin {"init_register", "register"}
<1>1. info[s] \in Info /\ DOMAIN info = Servers
  BY DEF TypeInv, TypeOK
<1>2. ASSUME NEW j \in Info, Resume(s, j)
      PROVE  /\ info'[s].pc \in {"loop", "paused"}
             /\ info'[s].pc = "paused" => info'[s].ha_status = "error"
  <2>1. info'[s] = Resumed(s, j)
    BY <1>1, <1>2 DEF Resume
  <2> QED  BY <2>1, ResumedFields
<1>3. ASSUME NEW j \in Info, ToRegister(s, j), j.ha_nodeid # 0
      PROVE  info'[s].pc \in {"register", "init_register"}
  BY <1>1, <1>3 DEF ToRegister, Info
<1>4. CASE CheckNodes(s) \/ \E o \in Outcomes : RegisterNode(s, o)
  <2>1. info[s].pc # "off"
    BY <1>4 DEF CheckNodes, CheckNoDatabase, CheckError, CheckStandalone, CheckSplitBrain,
       CheckActive, CheckPassive, CheckOwned, CheckStart, CheckDue, RegisterNode
  <2>2. \E j \in Info : Resume(s, j)
    BY <1>4, CheckResumes
  <2> QED  BY <1>2, <2>1, <2>2
<1>5. ASSUME NEW o \in Outcomes, CreateNode(s, o)
      PROVE  /\ info[s].pc # "off" /\ info'[s].pc \notin {"remove", "stopping"}
             /\ info'[s].pc = "paused" => info'[s].ha_status = "error"
  <2>1. info[s].pc # "off"
    BY <1>5 DEF CreateNode
  <2>2. \E j \in Info : Resume(s, j) \/ ToRegister(s, j)
    BY <1>5, CreateResumes
  <2> QED  BY <1>2, <1>3, <2>1, <2>2 DEF ToRegister
<1>6. CASE ManagerTick(s) \/ RegisterAgain(s) \/ PausedWait(s)
  BY <1>1, <1>6 DEF ManagerTick, RegisterAgain, CheckDue, PausedWait, Info
<1>7. ASSUME NEW o \in Outcomes, RemoveNodeDelete(s, o) \/ PausedUpdate(s, o)
      PROVE  /\ info[s].pc \in {"remove", "paused"} /\ info'[s].pc \in {"paused", "loop"}
             /\ info[s].pc = "paused" =>
                  info'[s].ha_status = "error" \/ info'[s].ha_status = info[s].ha_status
  BY <1>1, <1>7 DEF RemoveNodeDelete, PausedUpdate, PausedStatus, Info
<1>8. ASSUME NEW o \in Outcomes, UpdateExitStatus(s, o)
      PROVE  info[s].pc = "stopping" /\ info'[s].pc = "off"
  BY <1>1, <1>8 DEF UpdateExitStatus, OffInfo, StartedInfo
<1> QED  BY <1>4, <1>5, <1>6, <1>7, <1>8 DEF ManagerStep

LEMMA OrderPhases ==
  ASSUME TypeInv, NEW s \in Servers, SteadyOrder(s)
  PROVE  info'[s].pc \in {"off", "loop", "paused", "stopping", "remove"}
<1>1. info[s] \in Info /\ DOMAIN info = Servers
  BY DEF TypeInv, TypeOK
<1>2. CASE KillManager(s) \/ RestartManager(s)
  <2>1. OffInfo.pc = "off" /\ StartedInfo("standby").pc = "loop"
    BY DEF OffInfo, StartedInfo
  <2> QED  BY <1>1, <1>2, <2>1 DEF KillManager, RestartManager
<1>3. CASE Pause(s)
  BY <1>1, <1>3 DEF Pause, Info
<1>4. ASSUME NEW o \in Outcomes, Stop(s, o) PROVE info'[s].pc = "stopping"
  BY <1>1, <1>4 DEF Stop, Info
<1>5. ASSUME NEW n \in Names, NEW o \in Outcomes, RemoveNodeCheck(s, n, o)
      PROVE  info'[s].pc \in {"loop", "paused", "remove"}
  <2> DEFINE i == [info[s] EXCEPT !.db_status = DbStatus(o)]
             failed == [Failed(i) EXCEPT !.pc = "paused"]
             checked == [i EXCEPT !.pc = "remove", !.removing = ha_node[n].nodeid]
  <2>1. \E k \in {i, failed, checked} : info' = [info EXCEPT ![s] = k]
    BY <1>5 DEF RemoveNodeCheck
  <2>2. i \in Info /\ i.pc = "loop"
    BY <1>1, <1>5 DEF RemoveNodeCheck, Receives, DbStatus, Info
  <2>3. failed.pc = "paused" /\ checked.pc = "remove"
    BY <2>2 DEF Failed, Info
  <2> HIDE DEF i, failed, checked
  <2> QED  BY <1>1, <2>1, <2>2, <2>3
<1> QED  BY <1>2, <1>3, <1>4, <1>5 DEF SteadyOrder

(* The identifier a manager knows after a step that creates no row. *)
LEMMA ManagerIds ==
  ASSUME TypeInv, NEW s \in Servers, SteadyMove(s), \A o \in Outcomes : ~CreateNode(s, o)
  PROVE  info'[s].ha_nodeid \in {0, info[s].ha_nodeid, ha_node[NameOf[s]].nodeid}
<1> DEFINE id == info[s].ha_nodeid
           Known(k) == k \in {0, id, ha_node[NameOf[s]].nodeid}
<1>1. info[s] \in Info /\ DOMAIN info = Servers
  BY DEF TypeInv, TypeOK
<1>2. ASSUME NEW j \in Info, Resume(s, j), Known(j.ha_nodeid)
      PROVE  Known(info'[s].ha_nodeid)
  BY <1>2, ResumeIds
<1>3. CASE CheckNodes(s)
  <2> DEFINE down == [info[s] EXCEPT !.db_status = "down"]
             ended(o) == [info[s] EXCEPT !.db_status = DbStatus(o)]
  <2>1. CASE CheckNoDatabase(s)
    <3>1. down \in Info /\ down.ha_nodeid = id
      BY <1>1 DEF Info
    <3> QED  BY <1>2, <2>1, <3>1 DEF CheckNoDatabase
  <2>2. ASSUME NEW o \in Outcomes, CheckError(s, o) PROVE Known(info'[s].ha_nodeid)
    <3>1. ended(o) \in Info /\ ended(o).ha_nodeid = id
      BY <1>1 DEF Info, DbStatus
    <3>2. Failed(ended(o)) \in Info /\ Failed(ended(o)).ha_nodeid = id
      BY <3>1 DEF Failed, Info, Statuses
    <3> QED  BY <1>2, <2>2, <3>2 DEF CheckError
  <2>3. ASSUME NEW o \in Outcomes
        PROVE  /\ CheckedInfo(s, o) \in Info /\ Known(CheckedInfo(s, o).ha_nodeid)
               /\ \A j \in Info : /\ Failed(j) \in Info /\ Failed(j).ha_nodeid = j.ha_nodeid
                                  /\ \A status \in {"active", "standby"} :
                                       LET k == [j EXCEPT !.ha_status = status]
                                       IN  k \in Info /\ k.ha_nodeid = j.ha_nodeid
               /\ \A j \in Info, a \in Names :
                    LET k == Watched(j, ha_node[a])
                    IN  k \in Info /\ k.ha_nodeid = j.ha_nodeid
    <3>1. CheckedInfo(s, o) \in Info
      BY CheckedInfoType DEF TypeInv
    <3>2. Known(CheckedInfo(s, o).ha_nodeid)
      BY <1>1 DEF CheckedInfo, Info
    <3>3. ASSUME NEW j \in Info
          PROVE  /\ Failed(j) \in Info /\ Failed(j).ha_nodeid = j.ha_nodeid
                 /\ \A status \in {"active", "standby"} :
                      LET k == [j EXCEPT !.ha_status = status]
                      IN  k \in Info /\ k.ha_nodeid = j.ha_nodeid
      BY DEF Failed, Info, Statuses
    <3>4. ASSUME NEW j \in Info, NEW a \in Names
          PROVE  LET k == Watched(j, ha_node[a])
                 IN  k \in Info /\ k.ha_nodeid = j.ha_nodeid
      <4>1. ha_node[a] \in Row
        BY DEF TypeInv, TypeOK
      <4>2. Watched(j, ha_node[a]).ha_nodeid = j.ha_nodeid
        BY DEF Watched, Info
      <4> QED  BY <4>1, <4>2, WatchedType
    <3> QED  BY <3>1, <3>2, <3>3, <3>4
  <2> HIDE DEF Known
  <2>4. ASSUME NEW o \in Outcomes, NEW j \in Info, Known(j.ha_nodeid),
               \/ Resume(s, j) \/ Resume(s, Failed(j))
               \/ \E status \in {"active", "standby"} : Resume(s, [j EXCEPT !.ha_status = status])
        PROVE  Known(info'[s].ha_nodeid)
    BY <1>2, <2>3, <2>4
  <2>5. ASSUME NEW o \in Outcomes,
               CheckStandalone(s, o) \/ CheckSplitBrain(s, o) \/ CheckActive(s, o)
        PROVE  Known(info'[s].ha_nodeid)
    <3>1. \/ Resume(s, CheckedInfo(s, o))
          \/ Resume(s, [CheckedInfo(s, o) EXCEPT !.ha_status = "standby"])
      BY <2>5 DEF CheckStandalone, CheckSplitBrain, CheckActive
    <3> QED  BY <2>3, <2>4, <3>1
  <2>6. ASSUME NEW o \in Outcomes, CheckPassive(s, o) PROVE Known(info'[s].ha_nodeid)
    <3> DEFINE i == CheckedInfo(s, o)
    <3>1. ASSUME NEW j \in Info, Known(j.ha_nodeid), NEW status \in {"active", "standby"},
                 NEW taken, EndPassive(s, o, j, status, taken)
          PROVE  Known(info'[s].ha_nodeid)
      BY <2>4, <3>1 DEF EndPassive
    <3>2. \/ EndPassive(s, o, i, "active", {})
          \/ Resume(s, Failed(i))
          \/ \E a \in Names : \E taken : \E status \in {"active", "standby"} :
               EndPassive(s, o, Watched(i, ha_node[a]), status, taken)
      BY <2>6 DEF CheckPassive
    <3>3. i \in Info /\ Known(i.ha_nodeid)
          /\ \A a \in Names : Watched(i, ha_node[a]) \in Info
                              /\ Known(Watched(i, ha_node[a]).ha_nodeid)
      BY <2>3
    <3> HIDE DEF i
    <3> QED  BY <2>4, <3>1, <3>2, <3>3
  <2> QED  BY <1>3, <2>1, <2>2, <2>5, <2>6 DEF CheckNodes, Known
<1>4. ASSUME NEW o \in Outcomes, RegisterNode(s, o) PROVE Known(info'[s].ha_nodeid)
  <2> DEFINE i == [info[s] EXCEPT !.db_status = DbStatus(o)]
             failed == Failed(i)
             given(status) == [i EXCEPT !.ha_status = status]
  <2>1. i \in Info /\ i.ha_nodeid = id
    BY <1>1 DEF DbStatus, Info
  <2>2. failed \in Info /\ failed.ha_nodeid = id
    BY <2>1 DEF Failed, Info, Statuses
  <2>3. \A status \in {"active", "standby"} :
          given(status) \in Info /\ given(status).ha_nodeid = id
    BY <2>1 DEF Info, Statuses
  <2>4. \/ Resume(s, i) \/ Resume(s, failed)
        \/ \E status \in {"active", "standby"} : Resume(s, given(status))
    BY <1>4 DEF RegisterNode
  <2> HIDE DEF i, failed, given
  <2> QED  BY <1>2, <2>1, <2>2, <2>3, <2>4
<1>5. CASE ManagerTick(s) \/ RegisterAgain(s) \/ PausedWait(s)
  BY <1>1, <1>5 DEF ManagerTick, RegisterAgain, PausedWait, Info
<1>6. ASSUME NEW o \in Outcomes, RemoveNodeDelete(s, o) \/ PausedUpdate(s, o)
      PROVE  Known(info'[s].ha_nodeid)
  BY <1>1, <1>6 DEF RemoveNodeDelete, PausedUpdate, Info
<1>7. ASSUME info' = [info EXCEPT ![s] = OffInfo]
             \/ \E status \in Statuses : info' = [info EXCEPT ![s] = StartedInfo(status)]
      PROVE  Known(info'[s].ha_nodeid)
  <2>1. OffInfo.ha_nodeid = 0 /\ \A status \in Statuses : StartedInfo(status).ha_nodeid = 0
    BY DEF OffInfo, StartedInfo
  <2> QED  BY <1>1, <1>7, <2>1
<1>8. CASE SteadyOrder(s)
  <2>1. CASE KillManager(s) \/ RestartManager(s)
    BY <1>7, <2>1 DEF KillManager, RestartManager, Statuses
  <2>2. CASE Pause(s)
    BY <1>1, <2>2 DEF Pause, Info
  <2>3. ASSUME NEW o \in Outcomes, Stop(s, o) PROVE Known(info'[s].ha_nodeid)
    BY <1>1, <2>3 DEF Stop, Info
  <2>4. ASSUME NEW n \in Names, NEW o \in Outcomes, RemoveNodeCheck(s, n, o)
        PROVE  Known(info'[s].ha_nodeid)
    <3> DEFINE i == [info[s] EXCEPT !.db_status = DbStatus(o)]
               failed == [Failed(i) EXCEPT !.pc = "paused"]
               checked == [i EXCEPT !.pc = "remove", !.removing = ha_node[n].nodeid]
    <3>1. \E k \in {i, failed, checked} : info' = [info EXCEPT ![s] = k]
      BY <2>4 DEF RemoveNodeCheck
    <3>2. i \in Info /\ i.ha_nodeid = id
      BY <1>1 DEF DbStatus, Info
    <3>3. failed.ha_nodeid = id /\ checked.ha_nodeid = id
      BY <3>2 DEF Failed, Info
    <3> HIDE DEF i, failed, checked
    <3> QED  BY <1>1, <3>1, <3>2, <3>3
  <2> QED  BY <1>8, <2>1, <2>2, <2>3, <2>4 DEF SteadyOrder
<1>9. CASE StartServer(s)
  BY <1>7, <1>9 DEF StartServer, Statuses
<1>10. ASSUME NEW o \in Outcomes, UpdateExitStatus(s, o) PROVE Known(info'[s].ha_nodeid)
  BY <1>7, <1>10 DEF UpdateExitStatus
<1>11. CASE ManagerStep(s)
  BY <1>3, <1>4, <1>5, <1>6, <1>10, <1>11 DEF ManagerStep
<1> QED  BY <1>8, <1>9, <1>11 DEF SteadyMove

(* The creation of a row, or the identifier of the row that is there. *)
LEMMA CreateIds ==
  ASSUME TypeInv, Acknowledged, NEW s \in Servers, NEW o \in Outcomes, CreateNode(s, o),
         IdHeld(info[s], ha_node[NameOf[s]])
  PROVE  /\ IdHeld(info'[s], ha_node'[NameOf[s]])
         /\ \A n \in Names \ {NameOf[s]} : ha_node'[n] = ha_node[n]
<1> DEFINE me == NameOf[s]
           i == [info[s] EXCEPT !.db_status = DbStatus(o), !.failover_delay = settings]
           down == [info[s] EXCEPT !.db_status = "down"]
           present == [i EXCEPT !.ha_nodeid = ha_node[me].nodeid]
           created == [i EXCEPT !.ha_nodeid = nextid]
<1>1. /\ info[s] \in Info /\ me \in Names /\ ha_node[me] \in Row
      /\ ha_node \in [Names -> Row] /\ settings \in Nat /\ nextid \in Nat
  BY ConfigAssumption DEF TypeInv, TypeOK
<1>2. i \in Info /\ i.ha_nodeid = info[s].ha_nodeid
  BY <1>1 DEF DbStatus, Info
<1>3. down \in Info /\ down.ha_nodeid = info[s].ha_nodeid
  BY <1>1 DEF Info
<1>4. /\ Failed(info[s]) \in Info /\ Failed(info[s]).ha_nodeid = info[s].ha_nodeid
      /\ Failed(i) \in Info /\ Failed(i).ha_nodeid = info[s].ha_nodeid
  <2> HIDE DEF i
  <2> QED  BY <1>1, <1>2 DEF Failed, Info, Statuses
<1>5. /\ present \in Info /\ present.ha_nodeid = ha_node[me].nodeid
      /\ created \in Info /\ created.ha_nodeid = nextid
  <2> HIDE DEF i
  <2> QED  BY <1>1, <1>2 DEF Info, Row
<1>6. o \in {"ok", "nobegin", "fail"}
  BY ConfigAssumption DEF Acknowledged, AllOutcomes
<1>7. ASSUME NEW j \in Info, Resume(s, j) \/ ToRegister(s, j)
      PROVE  /\ info'[s].ha_nodeid = j.ha_nodeid
             /\ info'[s].pc \in {"init_register", "register"} => j.ha_nodeid # 0
  <2>1. Resume(s, j) => info'[s] = Resumed(s, j)
    BY DEF Resume, TypeInv, TypeOK
  <2>2. Resumed(s, j).pc \in {"loop", "paused"}
    BY ResumedFields
  <2> QED  BY <1>7, <2>1, <2>2, ResumeIds DEF ToRegister
<1>8. \/ /\ ha_node' = ha_node
         /\ \E j \in {down, Failed(info[s]), Failed(i)} : Resume(s, j) \/ ToRegister(s, j)
      \/ ha_node' = ha_node /\ ToRegister(s, present)
      \/ ha_node' = [ha_node EXCEPT ![me] = NewRow(nextid)] /\ ToRegister(s, created)
  BY <1>6 DEF CreateNode, registry, Applied
<1> HIDE DEF down, present, created, i
<1>9. CASE /\ ha_node' = ha_node
           /\ \E j \in {down, Failed(info[s]), Failed(i)} : Resume(s, j) \/ ToRegister(s, j)
  <2>1. /\ info'[s].ha_nodeid = info[s].ha_nodeid
        /\ info'[s].pc \in {"init_register", "register"} => info[s].ha_nodeid # 0
    BY <1>3, <1>4, <1>7, <1>9
  <2> QED  BY <1>9, <2>1 DEF IdHeld
<1>10. CASE ha_node' = ha_node /\ ToRegister(s, present)
  BY <1>5, <1>7, <1>10 DEF IdHeld
<1>11. CASE ha_node' = [ha_node EXCEPT ![me] = NewRow(nextid)] /\ ToRegister(s, created)
  BY <1>1, <1>5, <1>7, <1>11 DEF IdHeld, NewRow
<1> QED  BY <1>8, <1>9, <1>10, <1>11

LEMMA IdsHeld ==
  ASSUME Inv, IdInv, SteadyCluster, [SteadyStep]_vars
  PROVE  IdInv'
<1> SUFFICES ASSUME NEW s \in Servers, IsCluster(s)
             PROVE  IdHeld(info'[s], ha_node'[NameOf[s]])
  BY DEF IdInv, IsCluster
<1>1. /\ TypeInv /\ NameOf[s] \in Names /\ IdHeld(info[s], ha_node[NameOf[s]])
  BY ConfigAssumption DEF Inv, IdInv
<1>2. CASE UNCHANGED vars
  BY <1>1, <1>2 DEF vars
<1>3. CASE Tick
  <2>1. /\ ha_node' = ha_node /\ info'[s].ha_nodeid = info[s].ha_nodeid
        /\ info'[s].pc = info[s].pc
    BY <1>1, <1>3 DEF Tick, registry, TypeInv, TypeOK, Info
  <2> QED  BY <1>1, <2>1 DEF IdHeld
<1>4. ASSUME SteadyMove(s) PROVE IdHeld(info'[s], ha_node'[NameOf[s]])
  <2>1. ASSUME NEW o \in Outcomes, CreateNode(s, o)
        PROVE  IdHeld(info'[s], ha_node'[NameOf[s]])
    BY <1>1, <2>1, CreateIds DEF SteadyCluster
  <2>2. ASSUME \A o \in Outcomes : ~CreateNode(s, o)
        PROVE  IdHeld(info'[s], ha_node'[NameOf[s]])
    <3>1. RowId(NameOf[s])
      BY <1>1, <1>4, <2>2, MoveIdsKept
    <3>2. info'[s].ha_nodeid \in {0, info[s].ha_nodeid, ha_node[NameOf[s]].nodeid}
      BY <1>1, <1>4, <2>2, ManagerIds
    <3>3. info'[s].pc \notin {"init_register", "register"}
      <4>1. CASE ManagerStep(s)
        BY <1>1, <2>2, <4>1, ManagerPhases
      <4>2. CASE SteadyOrder(s)
        BY <1>1, <4>2, OrderPhases
      <4>3. CASE StartServer(s)
        BY <1>1, <4>3 DEF StartServer, StartedInfo, TypeInv, TypeOK
      <4> QED  BY <1>4, <4>1, <4>2, <4>3 DEF SteadyMove
    <3> QED  BY <1>1, <3>1, <3>2, <3>3 DEF IdHeld, RowId
  <2> QED  BY <2>1, <2>2
<1>5. ASSUME NEW t \in Servers \ {s}, SteadyMove(t)
      PROVE  IdHeld(info'[s], ha_node'[NameOf[s]])
  <2>1. info'[s] = info[s]
    <3>1. CASE StartServer(t)
      BY <1>1, <1>5, <3>1 DEF StartServer, TypeInv, TypeOK
    <3>2. CASE ManagerStep(t) \/ SteadyOrder(t)
      BY <1>1, <1>5, <3>2, OneManagerMoves DEF SteadyOrder, Ordered
    <3> QED  BY <1>5, <3>1, <3>2 DEF SteadyMove
  <2>2. RowId(NameOf[s])
    <3>1. ASSUME NEW o \in Outcomes, CreateNode(t, o) PROVE RowId(NameOf[s])
      <4>1. NameOf[t] # NameOf[s]
        BY <1>5 DEF SteadyCluster
      <4>2. ha_node' = ha_node \/ ha_node' = [ha_node EXCEPT ![NameOf[t]] = NewRow(nextid)]
        BY <3>1 DEF CreateNode, registry
      <4>3. ha_node'[NameOf[s]] = ha_node[NameOf[s]]
        BY <1>1, <4>1, <4>2 DEF TypeInv, TypeOK
      <4> QED  BY <4>3 DEF RowId
    <3> QED  BY <1>1, <1>5, <3>1, MoveIdsKept
  <2> QED  BY <1>1, <2>1, <2>2 DEF IdHeld, RowId
<1> QED  BY <1>2, <1>3, <1>4, <1>5 DEF SteadyStep

---------------------------------------------------------------------------
(* What a manager does in a step, as far as its main process can tell.     *)

Idles(s) ==
  /\ info[s].pc = "loop" /\ info'[s].pc = "loop"
  /\ info'[s].ha_status = info[s].ha_status
  /\ info[s].tick = TRUE /\ info'[s].tick = FALSE
  /\ info[s].nextcheck > 1 /\ info'[s].nextcheck = info[s].nextcheck - 1
  /\ UNCHANGED ha_node

LosesDatabase(s) ==
  /\ info[s].pc = "loop" /\ info'[s].pc = "loop"
  /\ info'[s].ha_status = info[s].ha_status
  /\ info'[s].db_status = "down" /\ info'[s].nextcheck = 1
  /\ UNCHANGED ha_node

RowActive(s) ==
  ha_node'[NameOf[s]].status = "active" /\ ha_node'[NameOf[s]].lastaccess = now

Refreshes(s) ==
  /\ Leads(info[s]) /\ Leads(info'[s])
  /\ info'[s].nextcheck = PollPeriod /\ RowActive(s)

TakesOver(s) ==
  /\ info[s].ha_status # "active" /\ info[s].pc \notin {"off", "paused"}
  /\ Leads(info'[s])
  /\ info'[s].nextcheck = PollPeriod /\ RowActive(s)

FindsSplitBrain(s) == Leads(info[s]) /\ ha_node[NameOf[s]].status # "active"

GivesUp(s) ==
  /\ info[s].pc # "paused" /\ info'[s].pc = "paused" /\ info'[s].ha_status = "error"
  /\ UNCHANGED ha_node

StaysPassive(s) ==
  /\ info[s].ha_status # "active" /\ info[s].pc \notin {"off", "paused"}
  /\ info'[s].ha_status # "active"

StaysPaused(s) ==
  /\ info[s].pc = "paused" /\ info'[s].pc = "paused"
  /\ info[s].ha_status = "error" => UNCHANGED ha_node

ManagerMove(s) ==
  \/ Idles(s) \/ LosesDatabase(s) \/ Refreshes(s) \/ TakesOver(s) \/ FindsSplitBrain(s)
  \/ GivesUp(s) \/ StaysPassive(s) \/ StaysPaused(s) \/ info[s].pc = "stopping"

(* The state of a manager that has acknowledged its transaction. *)
LEMMA AcknowledgedResumes ==
  ASSUME TypeInv, NEW s \in Servers, NEW i \in Info, Resume(s, i)
  PROVE  /\ info'[s].pc = (IF i.ha_status = "error" THEN "paused" ELSE "loop")
         /\ info'[s].ha_status = i.ha_status /\ info'[s].db_status = i.db_status
         /\ i.ha_status = "active" /\ i.db_status = "ok" => info'[s].nextcheck = PollPeriod
         /\ i.db_status = "down" /\ info[s].pc = "loop" => info'[s].nextcheck = 1
<1>1. info'[s] = Resumed(s, i)
  BY DEF Resume, TypeInv, TypeOK
<1> QED  BY <1>1, ResumedFields

LEMMA ReadOutcomes ==
  ASSUME Acknowledged, NEW o \in Outcomes
  PROVE  o \in {"ok", "nobegin", "fail"} /\ Applied("ok") /\ DbStatus("ok") = "ok"
BY ConfigAssumption DEF Acknowledged, AllOutcomes, Applied, DbStatus

LEMMA CheckMoves ==
  ASSUME Inv, Acknowledged, NEW s \in Servers, IsCluster(s), CheckNodes(s),
         IdHeld(info[s], ha_node[NameOf[s]])
  PROVE  ManagerMove(s)
<1> DEFINE me == NameOf[s]
           row == ha_node[me]
<1>1. /\ TypeInv /\ info[s] \in Info /\ me \in Names /\ row \in Row
  BY ConfigAssumption DEF Inv, TypeInv, TypeOK
<1>2. /\ info[s].pc = "loop" /\ info[s].ha_status \in {"standby", "active"}
  <2>1. info[s].pc = "loop" /\ info[s].ha_status # "unknown"
    BY DEF CheckNodes, CheckNoDatabase, CheckError, CheckStandalone, CheckSplitBrain,
       CheckActive, CheckPassive, CheckOwned, CheckStart, CheckDue
  <2>2. info[s].ha_status # "error"
    BY <1>1, <2>1 DEF TypeInv, Running
  <2> QED  BY <1>1, <2>1, <2>2 DEF Info, Statuses
<1>3. CASE CheckNoDatabase(s)
  <2> DEFINE down == [info[s] EXCEPT !.db_status = "down"]
  <2>1. down \in Info /\ down.db_status = "down" /\ down.ha_status = info[s].ha_status
    BY <1>1 DEF Info
  <2>2. Resume(s, down) /\ UNCHANGED ha_node
    BY <1>3 DEF CheckNoDatabase
  <2> HIDE DEF down
  <2>3. LosesDatabase(s)
    BY <1>1, <1>2, <2>1, <2>2, AcknowledgedResumes DEF LosesDatabase
  <2> QED  BY <2>3 DEF ManagerMove
<1>4. ASSUME NEW o \in Outcomes, CheckError(s, o) PROVE ManagerMove(s)
  <2> DEFINE i == [info[s] EXCEPT !.db_status = DbStatus(o)]
  <2>1. i \in Info
    BY <1>1 DEF Info, DbStatus
  <2>2. Failed(i) \in Info /\ Failed(i).ha_status = "error"
    BY <2>1 DEF Failed, Info, Statuses
  <2>3. Resume(s, Failed(i)) /\ UNCHANGED ha_node
    BY <1>4 DEF CheckError
  <2> HIDE DEF i
  <2>4. GivesUp(s)
    BY <1>1, <1>2, <2>2, <2>3, AcknowledgedResumes DEF GivesUp
  <2> QED  BY <2>4 DEF ManagerMove
<1>5. ASSUME NEW o \in Outcomes, CheckSplitBrain(s, o) PROVE ManagerMove(s)
  BY <1>2, <1>5 DEF CheckSplitBrain, FindsSplitBrain, Leads, ManagerMove
(* the row of a check that found it has the identifier the check uses *)
<1>6. ASSUME NEW o \in Outcomes, CheckOwned(s, o)
      PROVE  /\ o = "ok" /\ CheckedInfo(s, o) \in Info
             /\ CheckedInfo(s, o).ha_status = info[s].ha_status
             /\ CheckedInfo(s, o).db_status = "ok"
             /\ HasId(me, CheckedInfo(s, o).ha_nodeid)
  <2>1. o = "ok" /\ DbStatus(o) = "ok"
    BY <1>6, ReadOutcomes DEF CheckOwned
  <2>2. row.status # "none"
    BY <1>6 DEF CheckOwned, OwnsRow, Present
  <2>3. /\ CheckedInfo(s, o).ha_nodeid = (IF info[s].ha_nodeid = 0 THEN row.nodeid
                                                                 ELSE info[s].ha_nodeid)
        /\ CheckedInfo(s, o).db_status = DbStatus(o)
    BY <1>1 DEF CheckedInfo, Info
  <2>4. row.nodeid = CheckedInfo(s, o).ha_nodeid
    BY <2>2, <2>3 DEF IdHeld
  <2> QED  BY <1>1, <2>1, <2>2, <2>3, <2>4, CheckedInfoType DEF HasId, Present, TypeInv
<1>7. /\ Touched(me, "active").status = "active" /\ Touched(me, "active").lastaccess = now
  BY <1>1 DEF Touched, Row
<1>8. ASSUME NEW o \in Outcomes, CheckActive(s, o) PROVE ManagerMove(s)
  <2> DEFINE i == CheckedInfo(s, o)
  <2>1. /\ o = "ok" /\ i \in Info /\ i.ha_status = info[s].ha_status /\ i.db_status = "ok"
        /\ HasId(me, i.ha_nodeid)
    BY <1>6, <1>8 DEF CheckActive
  <2>2. Resume(s, i) /\ info[s].ha_status = "active"
    BY <1>8 DEF CheckActive
  <2>3. ha_node'[me] = Touched(me, "active")
    BY <1>1, <1>8, <2>1, ReadOutcomes DEF CheckActive, Applied
  <2> HIDE DEF i
  <2>4. Refreshes(s)
    BY <1>1, <1>2, <1>7, <2>1, <2>2, <2>3, AcknowledgedResumes DEF Refreshes, RowActive, Leads
  <2> QED  BY <2>4 DEF ManagerMove
<1>9. ASSUME NEW o \in Outcomes, CheckPassive(s, o) PROVE ManagerMove(s)
  <2> DEFINE i == CheckedInfo(s, o)
             Read(j) == /\ j \in Info /\ j.ha_status = "standby" /\ j.db_status = "ok"
                        /\ HasId(me, j.ha_nodeid)
  <2>1. o = "ok" /\ info[s].ha_status = "standby"
    BY <1>6, <1>9 DEF CheckPassive
  <2>2. Read(i)
    BY <1>6, <1>9 DEF CheckPassive
  <2>3. ASSUME NEW a \in Names PROVE Read(Watched(i, ha_node[a]))
    <3>1. ha_node[a] \in Row
      BY <1>1 DEF TypeInv, TypeOK
    <3> HIDE DEF i
    <3>2. /\ Watched(i, ha_node[a]).ha_status = i.ha_status
          /\ Watched(i, ha_node[a]).db_status = i.db_status
          /\ Watched(i, ha_node[a]).ha_nodeid = i.ha_nodeid
      BY <2>2 DEF Watched, Info
    <3> QED  BY <2>2, <3>1, <3>2, WatchedType
  <2>4. ASSUME NEW j, Read(j), NEW taken, EndPassive(s, o, j, "active", taken)
        PROVE  TakesOver(s)
    <3> DEFINE k == [j EXCEPT !.ha_status = "active"]
    <3>1. k \in Info /\ k.ha_status = "active" /\ k.db_status = "ok"
      BY <2>4 DEF Info, Statuses
    <3>2. Resume(s, k)
      BY <2>1, <2>4 DEF EndPassive
    <3>3. ha_node'[me] = Touched(me, "active")
      BY <1>1, <2>1, <2>4, ReadOutcomes DEF EndPassive, Passed
    <3> HIDE DEF k
    <3>4. /\ info'[s].pc = "loop" /\ info'[s].ha_status = "active"
          /\ info'[s].nextcheck = PollPeriod
      BY <1>1, <3>1, <3>2, AcknowledgedResumes
    <3> QED  BY <1>2, <1>7, <2>1, <3>3, <3>4 DEF TakesOver, RowActive, Leads
  <2>5. ASSUME NEW j, Read(j), NEW taken, EndPassive(s, o, j, "standby", taken)
        PROVE  StaysPassive(s)
    <3> DEFINE k == [j EXCEPT !.ha_status = "standby"]
    <3>1. k \in Info /\ k.ha_status = "standby"
      BY <2>5 DEF Info, Statuses
    <3>2. Resume(s, k)
      BY <2>1, <2>5 DEF EndPassive
    <3> HIDE DEF k
    <3>3. info'[s].ha_status = "standby"
      BY <1>1, <3>1, <3>2, AcknowledgedResumes
    <3> QED  BY <1>2, <2>1, <3>3 DEF StaysPassive
  <2>6. ASSUME Resume(s, Failed(i)), ha_node' = ha_node PROVE GivesUp(s)
    <3> HIDE DEF i
    <3>1. Failed(i) \in Info /\ Failed(i).ha_status = "error"
      BY <2>2 DEF Failed, Info, Statuses
    <3> QED  BY <1>1, <1>2, <2>6, <3>1, AcknowledgedResumes DEF GivesUp
  <2>7. \/ EndPassive(s, o, i, "active", {})
        \/ Resume(s, Failed(i)) /\ ha_node' = ha_node
        \/ \E a \in Names : \E taken : \E status \in {"active", "standby"} :
             EndPassive(s, o, Watched(i, ha_node[a]), status, taken)
    BY <1>9 DEF CheckPassive
  <2> HIDE DEF i, Read
  <2> QED  BY <2>2, <2>3, <2>4, <2>5, <2>6, <2>7 DEF ManagerMove
<1>10. ASSUME NEW o \in Outcomes, CheckStandalone(s, o) PROVE ManagerMove(s)
  BY <1>10 DEF CheckStandalone
<1> QED  BY <1>3, <1>4, <1>5, <1>8, <1>9, <1>10 DEF CheckNodes

LEMMA RegisterMoves ==
  ASSUME Inv, PatientInv, Acknowledged, NEW s \in Servers, NEW o \in Outcomes,
         CreateNode(s, o) \/ RegisterNode(s, o),
         IdHeld(info[s], ha_node[NameOf[s]])
  PROVE  /\ ManagerMove(s)
         /\ CreateNode(s, o) => StaysPassive(s) \/ GivesUp(s)
<1> DEFINE me == NameOf[s]
           i == [info[s] EXCEPT !.db_status = DbStatus(o)]
           read == [info[s] EXCEPT !.db_status = DbStatus(o), !.failover_delay = settings]
           down == [info[s] EXCEPT !.db_status = "down"]
           Unknown(j) == j \in Info /\ j.ha_status = "unknown"
<1>1. /\ TypeInv /\ me \in Names /\ ha_node[me] \in Row /\ settings \in Nat
      /\ nextid \in Nat /\ Unknown(info[s]) /\ info[s].pc \notin {"off", "paused"}
  <2>1. Registers(info[s])
    BY DEF CreateNode, RegisterNode, Registers
  <2>2. info[s].ha_status = "unknown"
    BY <2>1 DEF PatientInv, Patience
  <2> QED  BY <2>1, <2>2, ConfigAssumption DEF Inv, TypeInv, TypeOK, Registers
<1>2. /\ Unknown(i) /\ Unknown(read) /\ Unknown(down) /\ i.db_status = DbStatus(o)
      /\ i.ha_nodeid = info[s].ha_nodeid
  BY <1>1 DEF DbStatus, Info
<1>3. ASSUME NEW j, Unknown(j)
      PROVE  /\ Failed(j) \in Info /\ Failed(j).ha_status = "error"
             /\ \A id \in Nat : Unknown([j EXCEPT !.ha_nodeid = id])
  BY <1>3 DEF Failed, Info, Statuses
<1>4. ASSUME NEW j, Unknown(j), Resume(s, j) \/ ToRegister(s, j) PROVE StaysPassive(s)
  <2>1. CASE Resume(s, j)
    BY <1>1, <1>4, <2>1, AcknowledgedResumes DEF StaysPassive
  <2>2. CASE ToRegister(s, j) /\ ~Resume(s, j)
    <3>1. info'[s] = [j EXCEPT !.pc = IF @ = "create" THEN "register" ELSE "init_register"]
      BY <1>1, <2>2 DEF ToRegister, TypeInv, TypeOK
    <3>2. info'[s].ha_status = "unknown"
      BY <1>4, <3>1 DEF Info
    <3> QED  BY <1>1, <3>2 DEF StaysPassive
  <2> QED  BY <1>4, <2>1, <2>2
<1>5. ASSUME NEW j, Unknown(j), Resume(s, Failed(j)), ha_node' = ha_node
      PROVE  GivesUp(s)
  BY <1>1, <1>3, <1>5, AcknowledgedResumes DEF GivesUp
<1>6. ASSUME CreateNode(s, o) PROVE StaysPassive(s) \/ GivesUp(s)
  <2>1. \/ ToRegister(s, down) \/ ToRegister(s, read)
        \/ Resume(s, Failed(info[s])) /\ ha_node' = ha_node
        \/ Resume(s, Failed(read)) /\ ha_node' = ha_node
        \/ \E id \in {ha_node[me].nodeid, nextid} :
             ToRegister(s, [read EXCEPT !.ha_nodeid = id])
    BY <1>6 DEF CreateNode, registry
  <2>2. ha_node[me].nodeid \in Nat
    BY <1>1 DEF Row
  <2> HIDE DEF read, down, Unknown
  <2> QED  BY <1>1, <1>2, <1>3, <1>4, <1>5, <2>1, <2>2
<1>7. ASSUME RegisterNode(s, o) PROVE ManagerMove(s)
  <2> DEFINE leads == [i EXCEPT !.ha_status = "active"]
             waits == [i EXCEPT !.ha_status = "standby"]
  <2>1. \/ Resume(s, i)
        \/ Resume(s, Failed(i)) /\ ha_node' = ha_node
        \/ Resume(s, waits)
        \/ /\ o = "ok" /\ Present(me) /\ Resume(s, leads)
           /\ ha_node' = Registered(s, "active")
    BY <1>7, ReadOutcomes DEF RegisterNode
  <2>2. /\ leads \in Info /\ leads.ha_status = "active" /\ leads.db_status = DbStatus(o)
        /\ waits \in Info /\ waits.ha_status = "standby"
    <3> HIDE DEF i
    <3> QED  BY <1>2 DEF Info, Statuses
  <2>3. ASSUME o = "ok", Present(me), Resume(s, leads), ha_node' = Registered(s, "active")
        PROVE  TakesOver(s)
    <3> DEFINE row == [Touched(me, "active") EXCEPT !.session = ha_sessionid[s]]
    <3>1. HasId(me, info[s].ha_nodeid)
      BY <1>7, <2>3 DEF RegisterNode, IdHeld, HasId, Present
    <3>2. IsCluster(s) = (me # Standalone)
      BY DEF IsCluster
    <3>3. ha_node'[me] = row
      BY <1>1, <2>3, <3>1, <3>2, Zenon DEF Registered
    <3>4. row.status = "active" /\ row.lastaccess = now
      BY <1>1 DEF Touched, Row
    <3> HIDE DEF leads, row
    <3>5. /\ info'[s].pc = "loop" /\ info'[s].ha_status = "active"
          /\ info'[s].nextcheck = PollPeriod
      BY <1>1, <2>2, <2>3, AcknowledgedResumes, ReadOutcomes
    <3> QED  BY <1>1, <3>3, <3>4, <3>5 DEF TakesOver, RowActive, Leads
  <2>4. ASSUME Resume(s, waits) PROVE StaysPassive(s)
    <3> HIDE DEF waits
    <3> QED  BY <1>1, <2>2, <2>4, AcknowledgedResumes DEF StaysPassive
  <2> HIDE DEF i, leads, waits
  <2> QED  BY <1>2, <1>4, <1>5, <2>1, <2>3, <2>4 DEF ManagerMove
<1> QED  BY <1>6, <1>7 DEF ManagerMove

LEMMA ManagerMoves ==
  ASSUME Inv, PatientInv, Acknowledged, NEW s \in Servers, IsCluster(s), ManagerStep(s),
         IdHeld(info[s], ha_node[NameOf[s]]), info[s].pc # "remove"
  PROVE  ManagerMove(s)
<1>1. info[s] \in Info /\ DOMAIN info = Servers
  BY DEF Inv, TypeInv, TypeOK
<1>2. CASE ManagerTick(s)
  <2>1. Idles(s)
    BY <1>1, <1>2 DEF ManagerTick, registry, Idles, Info
  <2> QED  BY <2>1 DEF ManagerMove
<1>3. CASE RegisterAgain(s)
  <2>1. StaysPassive(s)
    BY <1>1, <1>3 DEF RegisterAgain, CheckDue, StaysPassive, Info
  <2> QED  BY <2>1 DEF ManagerMove
<1>4. CASE PausedWait(s)
  <2>1. StaysPaused(s)
    BY <1>1, <1>4 DEF PausedWait, registry, StaysPaused, Info
  <2> QED  BY <2>1 DEF ManagerMove
<1>5. ASSUME NEW o \in Outcomes, PausedUpdate(s, o) PROVE ManagerMove(s)
  <2>1. StaysPaused(s)
    BY <1>1, <1>5 DEF PausedUpdate, UpdateLastaccess, StaysPaused, Info
  <2> QED  BY <2>1 DEF ManagerMove
<1>6. ASSUME NEW o \in Outcomes, RemoveNodeDelete(s, o) \/ UpdateExitStatus(s, o)
      PROVE  ManagerMove(s)
  BY <1>6 DEF RemoveNodeDelete, UpdateExitStatus, ManagerMove
<1> QED  BY <1>2, <1>3, <1>4, <1>5, <1>6, CheckMoves, RegisterMoves DEF ManagerStep

---------------------------------------------------------------------------
(* The invariant in the steps of one server and for the other servers.     *)

Kept == ClusterType /\ Inv /\ PatientInv /\ IdInv /\ MainInv /\ LeaseInv

(* The state of one server after a step. *)
ServerKept(s) ==
  /\ MainKept(main'[s], info'[s], rtc'[s])
  /\ IsCluster(s) => LeaseKept(main'[s], info'[s], rtc'[s], ha_node'[NameOf[s]], now)

LEMMA KeptFacts ==
  ASSUME Kept, SteadyCluster, NEW s \in Servers
  PROVE  /\ info[s] \in Info /\ main[s] \in Main /\ rtc[s] \in Seq(Message)
         /\ main \in [Servers -> Main] /\ rtc \in [Servers -> Seq(Message)]
         /\ NameOf[s] \in Names /\ ha_node[NameOf[s]] \in Row
         /\ now \in Nat /\ now >= 1 /\ ha_node[NameOf[s]].lastaccess <= now
         /\ PollPeriod \in Nat \ {0} /\ DefaultDelay \in Nat /\ PollPeriod < DefaultDelay
         /\ info[s].failover_delay = DefaultDelay
         /\ MainKept(main[s], info[s], rtc[s])
         /\ IsCluster(s) =>
              LeaseKept(main[s], info[s], rtc[s], ha_node[NameOf[s]], now)
BY ConfigAssumption DEF Kept, ClusterType, Inv, TypeInv, TypeOK, PatientInv, TimeInv, Patience,
   MainInv, LeaseInv, SteadyCluster

(* The row of a server that serves, or may start to, is safe from the others. *)
LEMMA LeasedRow ==
  ASSUME Kept, SteadyCluster, NEW s \in Servers, IsCluster(s),
         NEW t \in Servers \ {s}, SteadyMove(t)
  PROVE  LeaseKept(main[s], info[s], rtc[s], ha_node'[NameOf[s]], now)
<1> DEFINE row == ha_node[NameOf[s]]
           holds == \/ MayStart(main[s], rtc[s]) /\ Leads(info[s])
                    \/ Serves(main[s])
<1>1. LeaseKept(main[s], info[s], rtc[s], row, now)
  BY KeptFacts
<1>2. CASE ~holds
  BY <1>2 DEF LeaseKept
<1>3. CASE holds
  <2>1. /\ now \in Nat /\ row \in Row /\ NameOf[s] \in Names
        /\ PollPeriod \in Nat \ {0} /\ DefaultDelay \in Nat /\ PollPeriod < DefaultDelay
        /\ main[s] \in Main
    BY KeptFacts
  <2>2. row.lastaccess \in Nat /\ main[s].last_hb \in Nat
    BY <2>1 DEF Row, Main
  <2>3. row.status = "active" /\ now < row.lastaccess + DefaultDelay
    BY <1>1, <1>3, <2>1, <2>2 DEF LeaseKept, ServeKept
  <2>4. NameOf[s] # NameOf[t] /\ NameOf[s] # Standalone
    BY DEF SteadyCluster, IsCluster
  <2>5. info[t].pc # "remove"
    BY DEF Kept, MainInv, MainKept
  <2>6. ha_node'[NameOf[s]] = row
    BY <2>1, <2>3, <2>4, <2>5, LeaseSafe DEF Kept
  <2> QED  BY <1>1, <2>6
<1> QED  BY <1>2, <1>3

LEMMA ServerStep ==
  ASSUME Kept, SteadyCluster, NEW s \in Servers,
         SteadyMove(s) \/ UNCHANGED vars,
         \A t \in Servers \ {s} : main'[t] = main[t] /\ rtc'[t] = rtc[t],
         ServerKept(s)
  PROVE  MainInv' /\ LeaseInv'
<1>1. TypeInv
  BY DEF Kept, Inv
<1>2. now' = now
  BY MoveKeepsTime DEF vars
<1>3. ASSUME NEW t \in Servers \ {s} PROVE info'[t] = info[t]
  <2>1. CASE StartServer(s)
    BY <1>1, <2>1 DEF StartServer, TypeInv, TypeOK
  <2>2. CASE ManagerStep(s) \/ SteadyOrder(s)
    BY <1>1, <2>2, OneManagerMoves DEF SteadyOrder, Ordered
  <2>3. CASE UNCHANGED vars
    BY <2>3 DEF vars
  <2> QED  BY <2>1, <2>2, <2>3 DEF SteadyMove
<1>4. ASSUME NEW t \in Servers \ {s}, IsCluster(t)
      PROVE  LeaseKept(main[t], info[t], rtc[t], ha_node'[NameOf[t]], now)
  <2>1. CASE SteadyMove(s)
    BY <1>4, <2>1, LeasedRow
  <2>2. CASE UNCHANGED vars
    BY <1>4, <2>2, KeptFacts DEF vars
  <2> QED  BY <2>1, <2>2
<1>5. ASSUME NEW t \in Servers PROVE MainKept(main'[t], info'[t], rtc'[t])
  BY <1>3, <1>5, KeptFacts DEF ServerKept
<1>6. ASSUME NEW t \in Servers, IsCluster(t)
      PROVE  LeaseKept(main'[t], info'[t], rtc'[t], ha_node'[NameOf[t]], now')
  BY <1>2, <1>3, <1>4, <1>6 DEF ServerKept
<1>7. MainInv'
  BY <1>5 DEF MainInv
<1>8. LeaseInv'
  BY <1>6 DEF LeaseInv, IsCluster
<1> QED  BY <1>7, <1>8

(* A step of a manager. *)
LEMMA ManagerKept ==
  ASSUME Kept, SteadyCluster, PatientInv', TypeInv', NEW s \in Servers, Manager(s)
  PROVE  /\ ServerKept(s) /\ rtc' \in [Servers -> Seq(Message)] /\ main' = main
         /\ \A t \in Servers \ {s} : rtc'[t] = rtc[t]
<1> DEFINE m == main[s]
           i == info[s]
           j == info'[s]
           q == rtc[s]
           row == ha_node[NameOf[s]]
           row1 == ha_node'[NameOf[s]]
<1>1. /\ i \in Info /\ m \in Main /\ NameOf[s] \in Names /\ row \in Row
      /\ now \in Nat /\ row.lastaccess <= now
      /\ PollPeriod \in Nat \ {0} /\ DefaultDelay \in Nat
      /\ MainKept(m, i, q) /\ rtc \in [Servers -> Seq(Message)]
  BY KeptFacts
<1>2. /\ j \in Info /\ j.failover_delay = DefaultDelay /\ row1 \in Row
  BY <1>1 DEF TypeInv, TypeOK, PatientInv, Patience
<1>3. /\ Sent(s) \in Seq(Message) /\ rtc'[s] = Sent(s) /\ main' = main /\ ManagerStep(s)
      /\ rtc' \in [Servers -> Seq(Message)] /\ \A t \in Servers \ {s} : rtc'[t] = rtc[t]
  BY <1>1, <1>2, SentFacts DEF Manager, Kept
<1>4. \A msg \in Messages(rtc'[s]) :
        \/ msg \in Messages(q)
        \/ msg = Heartbeat /\ TickEnds(s) /\ HeartbeatDue(s)
        \/ msg = StatusMessage(j.ha_status) /\ StatusChanged(s)
  BY <1>2, <1>3, SentFacts DEF Kept
<1>5. /\ i.pc # "off" /\ j.pc \notin {"remove", "stopping"} /\ i.pc # "remove"
      /\ j.pc = "paused" => j.ha_status = "error" \/ (i.pc = "paused" /\ j.ha_status = i.ha_status)
  BY <1>1, <1>3, ManagerPhases DEF Kept, Inv, MainKept
<1>6. MainKept(m, j, rtc'[s])
  <2>1. Messages(rtc'[s]) \subseteq
          {Heartbeat} \union {StatusMessage(status) : status \in Statuses \ {"unknown"}}
    <3>1. StatusChanged(s) => j.ha_status \in Statuses \ {"unknown"}
      BY <1>2 DEF StatusChanged, Info
    <3> QED  BY <1>1, <1>4, <3>1 DEF MainKept
  <2> HIDE DEF m, i, j
  <2> QED  BY <1>1, <1>5, <2>1 DEF MainKept, Up
<1>7. ASSUME IsCluster(s) PROVE LeaseKept(m, j, rtc'[s], row1, now)
  <2>1. LeaseKept(m, i, q, row, now) /\ ManagerMove(s)
    <3>1. IdHeld(i, row)
      BY <1>7 DEF Kept, IdInv
    <3> QED  BY <1>3, <1>5, <1>7, <3>1, KeptFacts, ManagerMoves DEF Kept, SteadyCluster
  <2>2. MayStart(m, rtc'[s]) =>
          MayStart(m, q) \/ (j.ha_status = "active" /\ i.ha_status # "active")
    <3>1. StatusMessage("active") \in Messages(rtc'[s]) =>
            \/ StatusMessage("active") \in Messages(q)
            \/ StatusMessage("active") = StatusMessage(j.ha_status) /\ StatusChanged(s)
      BY <1>4, MessageCodes
    <3>2. StatusMessage("active") = StatusMessage(j.ha_status) => j.ha_status = "active"
      BY MessageCodes
    <3> QED  BY <3>1, <3>2 DEF MayStart, StatusChanged
  <2>3. Heartbeat \in Messages(rtc'[s]) =>
          Heartbeat \in Messages(q) \/ (TickEnds(s) /\ HeartbeatDue(s))
    BY <1>4, MessageCodes
  <2>4. /\ TickEnds(s) => i.pc \in {"loop", "create", "register"}
        /\ HeartbeatDue(s) =>
             /\ j.ha_status # "error"
             /\ j.db_status = "ok" \/ j.ha_status # "active"
    BY DEF TickEnds, HeartbeatDue
  <2>5. /\ Serves(m) \/ MayStart(m, q) \/ MayStart(m, rtc'[s]) => Up(m)
        /\ Up(m) => i.pc # "stopping" /\ (i.pc = "paused" => i.ha_status = "error")
    BY <1>1 DEF Serves, MayStart, Up, MainKept
  <2>6. /\ i.nextcheck \in Nat /\ j.nextcheck \in Nat /\ row.lastaccess \in Nat
        /\ row1.lastaccess \in Nat /\ m.last_hb \in Nat
        /\ i.tick \in BOOLEAN /\ j.tick \in BOOLEAN
    BY <1>1, <1>2 DEF Info, Main, Row
  <2>7. i.pc # "off" /\ (Serves(m) => i.pc = "paused" \/ Leads(i))
    BY <1>5, <2>1 DEF LeaseKept, ServeKept
  <2>8. /\ NextTime(i, now) = now + i.nextcheck - (IF i.tick THEN 1 ELSE 0)
        /\ NextTime(j, now) = now + j.nextcheck - (IF j.tick THEN 1 ELSE 0)
    BY DEF NextTime
  <2>9. CASE Idles(s)
    <3>1. /\ row1 = row /\ j.nextcheck = i.nextcheck - 1 /\ i.nextcheck > 1
          /\ i.tick = TRUE /\ j.tick = FALSE /\ j.ha_status = i.ha_status
          /\ i.pc = "loop" /\ j.pc = "loop"
      BY <2>9 DEF Idles
    <3>2. NextTime(j, now) = NextTime(i, now) /\ NextTime(i, now) = now + i.nextcheck - 1
      BY <1>1, <2>6, <2>8, <3>1
    <3>3. MayStart(m, rtc'[s]) => MayStart(m, q)
      BY <2>2, <3>1
    <3>4. Serves(m) => Leads(i) /\ now < row.lastaccess + PollPeriod
      <4>1. Serves(m) => Leads(i)
        BY <2>7, <3>1
      <4>2. Serves(m) => NextTime(i, now) <= row.lastaccess + PollPeriod
        BY <2>1, <3>1, <4>1 DEF LeaseKept
      <4>3. NextTime(i, now) = now + i.nextcheck - 1 /\ i.nextcheck > 1
        BY <3>1, <3>2
      <4>4. i.nextcheck \in Nat /\ row.lastaccess \in Nat /\ now \in Nat /\ PollPeriod \in Nat
        BY <1>1, <2>6, KeptFacts
      <4> HIDE DEF m, i, j, row, row1, q
      <4> QED  BY <4>1, <4>2, <4>3, <4>4
    <3>5. Leads(i) <=> Leads(j)
      BY <3>1 DEF Leads
    <3> HIDE DEF m, i, j, row, row1, q
    <3> QED  BY <2>1, <2>6, <3>1, <3>2, <3>3, <3>4, <3>5 DEF LeaseKept, ServeKept
  <2>10. CASE LosesDatabase(s)
    <3>1. /\ row1 = row /\ j.nextcheck = 1 /\ j.db_status = "down"
          /\ i.pc = "loop" /\ j.pc = "loop" /\ j.ha_status = i.ha_status
      BY <2>10 DEF LosesDatabase
    <3>2. MayStart(m, rtc'[s]) => MayStart(m, q)
      BY <2>2, <3>1
    <3>3. Leads(i) <=> Leads(j)
      BY <3>1 DEF Leads
    <3>4. Serves(m) /\ Heartbeat \in Messages(rtc'[s]) => Heartbeat \in Messages(q)
      BY <2>3, <2>4, <2>7, <3>1 DEF Leads
    <3> HIDE DEF m, i, j, row, row1, q
    <3> QED  BY <2>1, <2>6, <3>1, <3>2, <3>3, <3>4 DEF LeaseKept, ServeKept
  <2>11. CASE Refreshes(s)
    <3>1. /\ row1.status = "active" /\ row1.lastaccess = now /\ j.nextcheck = PollPeriod
          /\ Leads(j)
      BY <2>11 DEF Refreshes, RowActive
    <3>2. NextTime(j, now) <= now + PollPeriod
      BY <1>1, <2>6, <2>8, <3>1
    <3> HIDE DEF m, i, j, row, row1, q
    <3> QED  BY <1>1, <2>1, <2>6, <3>1, <3>2 DEF LeaseKept, ServeKept
  <2>12. CASE TakesOver(s)
    <3>1. /\ row1.status = "active" /\ row1.lastaccess = now /\ j.nextcheck = PollPeriod
          /\ ~Leads(i) /\ i.pc # "paused"
      BY <2>12 DEF TakesOver, RowActive, Leads
    <3>2. NextTime(j, now) <= now + PollPeriod
      BY <1>1, <2>6, <2>8, <3>1
    <3> HIDE DEF m, i, j, row, row1, q
    <3> QED  BY <1>1, <2>7, <3>1, <3>2 DEF LeaseKept
  <2>13. CASE FindsSplitBrain(s)
    <3>1. i.ha_status = "active" /\ ~MayStart(m, q) /\ ~Serves(m)
      BY <2>1, <2>13 DEF FindsSplitBrain, LeaseKept, ServeKept, Leads
    <3> HIDE DEF m, i, j, row, row1, q
    <3> QED  BY <2>2, <3>1 DEF LeaseKept
  <2>14. CASE GivesUp(s)
    <3>1. row1 = row /\ j.pc = "paused" /\ j.ha_status = "error"
      BY <2>14 DEF GivesUp
    <3>2. ~Leads(j) /\ (Heartbeat \in Messages(rtc'[s]) => Heartbeat \in Messages(q))
      BY <2>3, <2>4, <3>1 DEF Leads
    <3> HIDE DEF m, i, j, row, row1, q
    <3> QED  BY <2>1, <3>1, <3>2 DEF LeaseKept, ServeKept
  <2>15. CASE StaysPassive(s)
    <3>1. ~Leads(j) /\ ~Leads(i) /\ i.pc # "paused"
      BY <2>15 DEF StaysPassive, Leads
    <3> HIDE DEF m, i, j, row, row1, q
    <3> QED  BY <2>7, <3>1 DEF LeaseKept
  <2>16. CASE StaysPaused(s)
    <3>1. /\ ~Leads(j) /\ i.pc = "paused" /\ j.pc = "paused"
          /\ i.ha_status = "error" => row1 = row
      BY <2>16 DEF StaysPaused, Leads
    <3>2. Heartbeat \in Messages(rtc'[s]) => Heartbeat \in Messages(q)
      BY <2>3, <2>4, <3>1
    <3>3. Serves(m) => row1 = row
      BY <2>5, <3>1
    <3> HIDE DEF m, i, j, row, row1, q
    <3> QED  BY <2>1, <3>1, <3>2, <3>3 DEF LeaseKept, ServeKept
  <2>17. CASE i.pc = "stopping"
    <3>1. ~Serves(m) /\ ~MayStart(m, rtc'[s])
      BY <2>5, <2>17
    <3> HIDE DEF m, i, j, row, row1, q
    <3> QED  BY <3>1 DEF LeaseKept
  <2> QED  BY <2>1, <2>9, <2>10, <2>11, <2>12, <2>13, <2>14, <2>15, <2>16, <2>17
           DEF ManagerMove
<1> QED  BY <1>3, <1>6, <1>7 DEF ServerKept

(* The message a main process in steady service received, if any. *)
LEMMA ReceivedKept ==
  ASSUME Kept, SteadyCluster, NEW s \in Servers
  PROVE  /\ Received(s).ha_failover_delay = DefaultDelay
         /\ Received(s).last_hb \in Nat
         /\ \/ /\ Received(s).ha_status = main[s].ha_status
               /\ \/ Received(s).last_hb = main[s].last_hb
                  \/ Received(s).last_hb = now /\ Heartbeat \in Messages(rtc[s])
            \/ /\ Received(s).ha_status # main[s].ha_status
               /\ Received(s).ha_status # "unknown"
               /\ StatusMessage(Received(s).ha_status) \in Messages(rtc[s])
               /\ Received(s).ha_status # "error" => ~TimedOut(s, Received(s))
<1> DEFINE r == Received(s)
           m == main[s]
           h == Head(rtc[s])
<1>1. /\ m \in Main /\ now \in Nat /\ PollPeriod \in Nat /\ DefaultDelay \in Nat
      /\ PollPeriod < DefaultDelay /\ MainKept(m, info[s], rtc[s])
  BY KeptFacts
<1>2. r \in Main
  BY ReceivedFacts DEF Kept
<1>3. CASE r = m
  BY <1>1, <1>2, <1>3 DEF MainKept, Main
<1>4. CASE /\ h \in Messages(rtc[s]) /\ h = Heartbeat /\ r.ha_status = m.ha_status
           /\ r.ha_failover_delay = m.ha_failover_delay /\ r.last_hb = now
  BY <1>1, <1>2, <1>4 DEF MainKept, Main
<1>5. CASE /\ h \in Messages(rtc[s])
           /\ h \in [code : {"status"}, status : Statuses, delay : Nat]
           /\ r.ha_status = h.status /\ r.ha_failover_delay = h.delay
           /\ r.last_hb = IF h.status \notin {m.ha_status, "error"} THEN now ELSE m.last_hb
  <2>1. h.code = "status"
    BY <1>5
  <2>2. Heartbeat.code = "heartbeat"
    BY DEF Heartbeat
  <2>3. PICK status \in Statuses \ {"unknown"} : h = StatusMessage(status)
    <3>1. h # Heartbeat
      BY <2>1, <2>2
    <3> HIDE DEF h, m
    <3> QED  BY <1>1, <1>5, <3>1 DEF MainKept
  <2>4. h.status = status /\ h.delay = DefaultDelay
    BY <2>3 DEF StatusMessage
  <2>5. r.ha_failover_delay = DefaultDelay /\ r.ha_status = status
    BY <1>5, <2>4
  <2>6. StatusMessage(status) \in Messages(rtc[s]) /\ status # "unknown"
    BY <1>5, <2>3
  <2>7. CASE status = m.ha_status
    BY <1>1, <1>2, <1>5, <2>4, <2>5, <2>7 DEF Main
  <2>8. CASE status # m.ha_status
    <3>1. status # "error" => r.last_hb = now
      BY <1>5, <2>4, <2>8
    <3>2. status # "error" => ~TimedOut(s, r)
      <4> HIDE DEF r
      <4> QED  BY <1>1, <2>5, <3>1 DEF TimedOut
    <3>3. r.last_hb \in Nat
      BY <1>2 DEF Main
    <3> HIDE DEF r
    <3> QED  BY <2>5, <2>6, <2>8, <3>2, <3>3 DEF r
  <2> QED  BY <2>7, <2>8
<1> HIDE DEF r, m, h
<1> QED  BY <1>3, <1>4, <1>5, ReceivedFacts DEF r, m, h, Kept

LEMMA StartedManager ==
  /\ StartedInfo("standby").pc = "loop" /\ StartedInfo("standby").ha_status = "standby"
  /\ StartedInfo("unknown").pc = "init_create" /\ OffInfo.pc = "off"
BY DEF StartedInfo, OffInfo

(* A manager that is started again tells its main process nothing yet. *)
LEMMA RestartedKept ==
  ASSUME Kept, SteadyCluster, NEW s \in Servers, RestartManager(s), rtc'[s] = <<>>,
         main'[s] \in Main, main'[s].pc = "loop", main'[s].children = FALSE,
         main'[s].ha_failover_delay = DefaultDelay,
         main'[s].ha_status # "active", main'[s].ha_status_old # "active"
  PROVE  ServerKept(s)
<1>1. info'[s].pc = "loop"
  BY KeptFacts, StartedManager DEF RestartManager, Kept, ClusterType, TypeInv, TypeOK
<1>2. Messages(rtc'[s]) = {}
  BY NoMessages
<1>3. MainKept(main'[s], info'[s], rtc'[s])
  BY <1>1, <1>2 DEF MainKept, Up
<1>4. ~MayStart(main'[s], rtc'[s]) /\ ~Serves(main'[s])
  BY <1>2 DEF MayStart, Serves
<1> QED  BY <1>3, <1>4 DEF ServerKept, LeaseKept

(* A turn of the main loop. *)
LEMMA LoopKept ==
  ASSUME Kept, SteadyCluster, NEW s \in Servers, MainLoop(s)
  PROVE  ServerKept(s) /\ (RestartManager(s) \/ UNCHANGED vars)
<1> DEFINE m == main[s]
           m1 == main'[s]
           i == info[s]
           q == rtc[s]
           q1 == rtc'[s]
           r == Received(s)
           row == ha_node[NameOf[s]]
<1>1. /\ m \in Main /\ i \in Info /\ m.pc = "loop" /\ now \in Nat /\ now >= 1
      /\ PollPeriod \in Nat \ {0} /\ DefaultDelay \in Nat /\ PollPeriod < DefaultDelay
      /\ MainKept(m, i, q)
      /\ IsCluster(s) => LeaseKept(m, i, q, row, now)
  BY KeptFacts DEF MainLoop
<1>2. /\ m1 \in Main /\ Messages(q1) \subseteq Messages(q)
      /\ m1.ha_failover_delay = DefaultDelay
      /\ \/ TurnExits(s) \/ TurnRestarts(s) \/ TurnStays(s) \/ TurnStarts(s)
         \/ TurnTearsDown(s)
  <2>1. r.ha_failover_delay = DefaultDelay
    BY ReceivedKept
  <2>2. ClusterType
    BY DEF Kept
  <2> HIDE DEF r
  <2> QED  BY <2>1, <2>2, LoopTurns DEF r
<1>3. /\ m.children = TRUE <=> m.ha_status_old = "active"
      /\ m.ha_status = "active" <=> m.ha_status_old = "active"
      /\ m.children \in BOOLEAN
  BY <1>1 DEF MainKept, Main
<1>4. CASE TurnExits(s)
  <2>1. m1.pc = "exit" /\ info' = info /\ ha_node' = ha_node
    BY <1>4 DEF TurnExits, vars
  <2>2. MainKept(m1, info'[s], q1)
    <3> HIDE DEF m, m1
    <3> QED  BY <1>1, <1>2, <2>1 DEF MainKept, Up
  <2>3. ~MayStart(m1, q1) /\ ~Serves(m1)
    BY <2>1 DEF MayStart, Serves
  <2> QED  BY <1>4, <2>2, <2>3 DEF ServerKept, LeaseKept, TurnExits
<1>5. CASE TurnTearsDown(s)
  BY <1>2, <1>5, RestartedKept DEF TurnTearsDown
<1>6. CASE TurnRestarts(s)
  <2>1. TimedOut(s, r) /\ r.ha_status \notin {"active", "error"}
    BY <1>6 DEF TurnRestarts
  <2>2. r.ha_status = m.ha_status
    BY <2>1, ReceivedKept
  <2>3. m.ha_status_old # "active" /\ m.children = FALSE
    BY <1>3, <2>1, <2>2
  <2> QED  BY <1>2, <1>6, <2>3, RestartedKept DEF TurnRestarts
<1>7. CASE TurnStarts(s)
  <2>1. /\ info' = info /\ ha_node' = ha_node /\ r.ha_status = "active"
        /\ m.ha_status_old # "active" /\ m1.pc = "startup" /\ m1.ha_status = "active"
        /\ m1.ha_status_old = "active" /\ m1.children = TRUE
    BY <1>7 DEF TurnStarts, vars
  <2>2. StatusMessage("active") \in Messages(q)
    <3>1. StatusMessage(r.ha_status) \in Messages(q)
      BY <1>3, <2>1, ReceivedKept
    <3> QED  BY <2>1, <3>1
  <2>3. m.children = FALSE
    BY <1>3, <2>1
  <2>4. MayStart(m, q) /\ ~Serves(m1)
    BY <1>1, <2>1, <2>2, <2>3 DEF MayStart, Serves
  <2>5. MainKept(m1, i, q1)
    <3> HIDE DEF m, m1, i
    <3> QED  BY <1>1, <1>2, <2>1 DEF MainKept, Up
  <2>6. IsCluster(s) => LeaseKept(m1, i, q1, row, now)
    <3> HIDE DEF m, m1, i, q, q1, row
    <3> QED  BY <1>1, <2>4 DEF LeaseKept
  <2> QED  BY <1>7, <2>1, <2>5, <2>6 DEF ServerKept, TurnStarts
<1>8. CASE TurnStays(s)
  <2>1. /\ info' = info /\ ha_node' = ha_node /\ m1.pc = "loop" /\ m1.polled = TRUE
        /\ m1.ha_status_old = m.ha_status_old /\ m1.children = m.children
    BY <1>8 DEF TurnStays, vars
  <2>2. /\ ~TimedOut(s, r) /\ m1.last_hb = r.last_hb /\ m1.ha_status = r.ha_status
        /\ r.ha_status \in {"unknown", m.ha_status_old}
    <3>1. ASSUME TimedOut(s, r), r.ha_status = "active", m.ha_status_old = "standby"
          PROVE  FALSE
      BY <1>3, <3>1, ReceivedKept
    <3> QED  BY <1>8, <3>1 DEF TurnStays
  <2>3. m1.ha_status = "active" <=> m.ha_status_old = "active"
    <3>1. r.ha_status = "unknown" => m.ha_status = "unknown"
      BY ReceivedKept
    <3> QED  BY <1>3, <2>2, <3>1
  <2>4. MainKept(m1, i, q1)
    <3>1. m1.children = TRUE <=> m1.ha_status_old = "active"
      BY <1>3, <2>1
    <3>2. m1.ha_status = "active" <=> m1.ha_status_old = "active"
      BY <2>1, <2>3
    <3> HIDE DEF m, m1, i
    <3> QED  BY <1>1, <1>2, <2>1, <3>1, <3>2 DEF MainKept, Up
  <2>5. ASSUME IsCluster(s), Serves(m1) PROVE ServeKept(m1, i, q1, row, now)
    <3>1. Serves(m) /\ m.ha_status = "active"
      BY <1>1, <1>3, <2>1, <2>5 DEF Serves
    <3>2. ServeKept(m, i, q, row, now) /\ row \in Row
      BY <1>1, <2>5, <3>1, KeptFacts DEF LeaseKept
    <3>3. \/ m1.last_hb = m.last_hb
          \/ m1.last_hb = now /\ Heartbeat \in Messages(q)
      <4>1. CASE r.ha_status = m.ha_status
        BY <2>2, <4>1, ReceivedKept
      <4>2. CASE r.ha_status # m.ha_status
        BY <1>3, <2>2, <3>1, <4>2, ReceivedKept
      <4> QED  BY <4>1, <4>2
    <3>4. r.ha_failover_delay = DefaultDelay /\ r.last_hb \in Nat
      BY ReceivedKept
    <3>5. r.last_hb # 0 => now + PollPeriod < r.last_hb + DefaultDelay
      <4> HIDE DEF r
      <4> QED  BY <1>1, <2>2, <2>5, <3>4 DEF TimedOut
    <3>6. m.last_hb \in Nat /\ m1.last_hb \in Nat /\ row.lastaccess \in Nat
      BY <1>1, <1>2, <3>2 DEF Main, Row
    <3>7. now + PollPeriod < m1.last_hb + DefaultDelay
      <4>1. r.last_hb # 0
        BY <1>1, <2>2, <3>2, <3>3, <3>6 DEF ServeKept
      <4> QED  BY <2>2, <3>5, <4>1
    <3>8. m1.last_hb >= 1 /\ m1.last_hb < row.lastaccess + PollPeriod
      <4> HIDE DEF m, m1, q, row, i
      <4> QED  BY <1>1, <3>2, <3>3, <3>6 DEF ServeKept
    <3> HIDE DEF m, m1, q, q1, row, i
    <3> QED  BY <1>1, <1>2, <3>2, <3>6, <3>7, <3>8 DEF ServeKept
  <2>6. MayStart(m1, q1) => MayStart(m, q)
    BY <1>1, <1>2, <2>1 DEF MayStart
  <2>7. Serves(m1) => Serves(m)
    BY <1>1, <2>1 DEF Serves
  <2>8. IsCluster(s) => LeaseKept(m1, i, q1, row, now)
    <3> HIDE DEF m, m1, q, q1, row, i
    <3> QED  BY <1>1, <2>5, <2>6, <2>7 DEF LeaseKept
  <2> QED  BY <1>8, <2>1, <2>4, <2>8 DEF ServerKept, TurnStays
<1> QED  BY <1>2, <1>4, <1>5, <1>6, <1>7, <1>8 DEF TurnRestarts, TurnTearsDown

(* The step of a server keeps its own part of the invariant, and the types. *)
ServerMoves(s) ==
  /\ ServerKept(s)
  /\ SteadyMove(s) \/ UNCHANGED vars
  /\ main' \in [Servers -> Main] /\ rtc' \in [Servers -> Seq(Message)]
  /\ \A t \in Servers \ {s} : main'[t] = main[t] /\ rtc'[t] = rtc[t]

(* A server starts. *)
LEMMA StartKept ==
  ASSUME Kept, SteadyCluster, NEW s \in Servers, MainStart(s)
  PROVE  ServerMoves(s)
<1> DEFINE started == [OffMain EXCEPT !.pc = "getstatus"]
<1>1. /\ started \in Main /\ started.pc = "getstatus" /\ started.children = FALSE
      /\ started.ha_failover_delay = DefaultDelay
  BY ConfigAssumption DEF OffMain, Main, MainPhases, Statuses
<1>2. main \in [Servers -> Main] /\ rtc \in [Servers -> Seq(Message)] /\ DOMAIN info = Servers
  BY KeptFacts DEF Kept, ClusterType, TypeInv, TypeOK
<1>3. /\ main' = [main EXCEPT ![s] = started] /\ rtc' = [rtc EXCEPT ![s] = <<>>]
      /\ info' = [info EXCEPT ![s] = StartedInfo("unknown")]
      /\ StartServer(s)
  BY DEF MainStart, SetMain, StartServer
<1> HIDE DEF started
<1>4. /\ main'[s] = started /\ rtc'[s] = <<>> /\ info'[s].pc = "init_create"
      /\ main' \in [Servers -> Main] /\ rtc' \in [Servers -> Seq(Message)]
      /\ \A t \in Servers \ {s} : main'[t] = main[t] /\ rtc'[t] = rtc[t]
  BY <1>1, <1>2, <1>3, NoMessages, StartedManager
<1>5. Messages(rtc'[s]) = {}
  BY <1>4, NoMessages
<1>6. MainKept(main'[s], info'[s], rtc'[s])
  BY <1>1, <1>4, <1>5 DEF MainKept, Up
<1>7. ~Leads(info'[s]) /\ ~Serves(main'[s])
  BY <1>1, <1>4 DEF Leads, Serves
<1> QED  BY <1>3, <1>4, <1>6, <1>7 DEF ServerMoves, ServerKept, LeaseKept, SteadyMove

(* It learns its first status. *)
LEMMA GetStatusKept ==
  ASSUME Kept, SteadyCluster, NEW s \in Servers, MainGetStatus(s)
  PROVE  ServerMoves(s)
<1> DEFINE m == main[s]
           m1 == main'[s]
           i == info[s]
           q == rtc[s]
           row == ha_node[NameOf[s]]
<1>1. /\ m.pc = "getstatus" /\ m.children = FALSE /\ MainKept(m, i, q)
      /\ IsCluster(s) => LeaseKept(m, i, q, row, now)
      /\ i.failover_delay = DefaultDelay /\ m.ha_failover_delay = DefaultDelay
      /\ rtc \in [Servers -> Seq(Message)]
  BY KeptFacts DEF MainGetStatus, MainKept
<1>2. /\ main' \in [Servers -> Main] /\ UNCHANGED <<vars, rtc>>
      /\ \A t \in Servers \ {s} : main'[t] = main[t]
      /\ ToldDelay(s, m1.ha_failover_delay)
      /\ \/ m1.pc = "exit"
         \/ m1.pc = "startup" /\ m1.ha_status_old = "active" /\ m1.children = TRUE
         \/ /\ m1.pc = "loop" /\ m1.ha_status \in {"standby", "unknown"}
            /\ m1.ha_status_old = m1.ha_status /\ m1.children = m.children
  BY GetStatusTurns DEF Kept
<1>3. info' = info /\ ha_node' = ha_node /\ rtc' = rtc
  BY <1>2 DEF vars
<1>4. m1.ha_failover_delay = DefaultDelay
  BY <1>1, <1>2 DEF ToldDelay
<1>5. MainKept(m1, i, q)
  <2> HIDE DEF m, m1, i, q
  <2> QED  BY <1>1, <1>2, <1>4 DEF MainKept, Up
<1>6. ~Serves(m1) /\ MayStart(m, q)
  BY <1>1, <1>2 DEF Serves, MayStart
<1>7. IsCluster(s) => LeaseKept(m1, i, q, row, now)
  <2> HIDE DEF m, m1, i, q, row
  <2> QED  BY <1>1, <1>6 DEF LeaseKept
<1> QED  BY <1>1, <1>2, <1>3, <1>5, <1>7 DEF ServerMoves, ServerKept

(* It has started its processes: it serves if it is still active then. *)
LEMMA StartedKept ==
  ASSUME Kept, SteadyCluster, NEW s \in Servers, MainStarted(s)
  PROVE  ServerMoves(s)
<1> DEFINE m == main[s]
           m1 == main'[s]
           i == info[s]
           q == rtc[s]
           row == ha_node[NameOf[s]]
<1>1. /\ m.pc = "startup" /\ m.children = TRUE /\ m.ha_status_old = "active"
      /\ MainKept(m, i, q) /\ (IsCluster(s) => LeaseKept(m, i, q, row, now))
      /\ i.failover_delay = DefaultDelay /\ m.ha_failover_delay = DefaultDelay
      /\ now \in Nat /\ now >= 1
      /\ PollPeriod \in Nat \ {0} /\ DefaultDelay \in Nat /\ PollPeriod < DefaultDelay
  BY KeptFacts DEF MainStarted, MainKept
<1>2. /\ main' \in [Servers -> Main] /\ rtc' \in [Servers -> Seq(Message)]
      /\ \A t \in Servers \ {s} : main'[t] = main[t] /\ rtc'[t] = rtc[t]
      /\ ToldDelay(s, m1.ha_failover_delay)
      /\ \/ m1.pc = "exit" /\ UNCHANGED <<vars, rtc>>
         \/ /\ m1.pc = "loop" /\ Told(s, "active")
            /\ m1.ha_status = "active" /\ m1.last_hb = now
            /\ m1.ha_status_old = m.ha_status_old
            /\ m1.children = m.children
            /\ m1.polled = FALSE
            /\ UNCHANGED <<vars, rtc>>
         \/ /\ RestartManager(s) /\ rtc'[s] = <<>>
            /\ m1.pc = "loop" /\ m1.ha_status \in {"standby", "unknown"}
            /\ m1.ha_status_old = m1.ha_status
            /\ m1.children = FALSE
  BY StartedTurns DEF Kept
<1>3. m1.ha_failover_delay = DefaultDelay /\ m1 \in Main
  BY <1>1, <1>2 DEF ToldDelay
<1>4. ServerKept(s) /\ (RestartManager(s) \/ UNCHANGED vars)
  <2>1. CASE m1.pc = "exit" /\ UNCHANGED <<vars, rtc>>
    <3>1. info' = info /\ rtc' = rtc
      BY <2>1 DEF vars
    <3>2. MainKept(m1, i, q)
      <4> HIDE DEF m, m1, i, q
      <4> QED  BY <1>1, <1>3, <2>1 DEF MainKept, Up
    <3>3. ~Serves(m1) /\ ~MayStart(m1, q)
      BY <2>1 DEF Serves, MayStart
    <3> QED  BY <2>1, <3>1, <3>2, <3>3 DEF ServerKept, LeaseKept
  <2>2. CASE /\ m1.pc = "loop" /\ Told(s, "active")
             /\ m1.ha_status = "active" /\ m1.last_hb = now
             /\ m1.ha_status_old = m.ha_status_old
             /\ m1.children = m.children
             /\ m1.polled = FALSE
             /\ UNCHANGED <<vars, rtc>>
    <3>1. info' = info /\ rtc' = rtc /\ ha_node' = ha_node
      BY <2>2 DEF vars
    <3>2. MainKept(m1, i, q)
      <4> HIDE DEF m, m1, i, q
      <4> QED  BY <1>1, <1>3, <2>2 DEF MainKept, Up
    <3>3. ASSUME IsCluster(s) PROVE LeaseKept(m1, i, q, row, now)
      <4>1. Answers(s) /\ i.ha_status = "active"
        BY <2>2, <3>3 DEF Told
      <4>2. Leads(i)
        BY <1>1, <4>1 DEF Answers, Receives, MainKept, Up, Leads
      <4>3. MayStart(m, q)
        BY <1>1 DEF MayStart
      <4>4. LeaseKept(m, i, q, row, now) /\ row.status = "active" /\ row.lastaccess = now
        BY <1>1, <3>3, <4>2, <4>3 DEF LeaseKept
      <4>5. ServeKept(m1, i, q, row, now)
        <5> HIDE DEF m, m1, i, q, row
        <5> QED  BY <1>1, <2>2, <4>2, <4>4 DEF ServeKept
      <4> HIDE DEF m, m1, i, q, row
      <4> QED  BY <4>2, <4>3, <4>4, <4>5 DEF LeaseKept
    <3> QED  BY <2>2, <3>1, <3>2, <3>3 DEF ServerKept
  <2>3. CASE /\ RestartManager(s) /\ rtc'[s] = <<>>
             /\ m1.pc = "loop" /\ m1.ha_status \in {"standby", "unknown"}
             /\ m1.ha_status_old = m1.ha_status
             /\ m1.children = FALSE
    BY <1>3, <2>3, RestartedKept
  <2> QED  BY <1>2, <2>1, <2>2, <2>3
<1> QED  BY <1>2, <1>4 DEF ServerMoves, SteadyMove, SteadyOrder

(* What an exit makes of the manager. *)
LEMMA ExitManager ==
  ASSUME Kept, SteadyCluster, NEW s \in Servers,
         \/ MainPause(s) \/ MainStop(s) \/ MainSync(s) \/ MainExited(s) \/ MainSignal(s)
         \/ ServerCrash(s)
  PROVE  /\ SteadyOrder(s) \/ UNCHANGED vars
         /\ info'[s].pc # "remove"
         /\ main'[s].pc \in {"off", "sync"} => info'[s].pc = "off"
<1>1. /\ main \in [Servers -> Main] /\ main[s] \in Main /\ DOMAIN info = Servers
      /\ info[s] \in Info /\ info[s].pc # "remove"
      /\ main[s].pc \in {"off", "sync"} => info[s].pc = "off"
  BY KeptFacts DEF Kept, ClusterType, TypeInv, TypeOK, MainKept
<1>2. CASE MainPause(s) \/ MainStop(s)
  <2> DEFINE m == IF main[s].pc = "exit" THEN [main[s] EXCEPT !.pc = "wait"]
                  ELSE [main[s] EXCEPT !.pc = "stop", !.children = FALSE]
  <2>1. m.pc \in {"wait", "stop"}
    BY <1>1 DEF Main
  <2>2. SetMain(s, m)
    BY <1>2 DEF MainPause, MainStop
  <2> HIDE DEF m
  <2>3. main'[s].pc \in {"wait", "stop"}
    BY <1>1, <2>1, <2>2 DEF SetMain
  <2>4. \/ Pause(s) \/ KillManager(s) \/ (\E o \in Outcomes : Stop(s, o)) \/ UNCHANGED vars
    BY <1>2 DEF MainPause, MainStop
  <2>5. info'[s].pc # "remove"
    <3>1. CASE Pause(s)
      BY <1>1, <3>1 DEF Pause, Info
    <3>2. CASE KillManager(s)
      BY <1>1, <3>2, StartedManager DEF KillManager
    <3>3. ASSUME NEW o \in Outcomes, Stop(s, o) PROVE info'[s].pc # "remove"
      BY <1>1, <3>3 DEF Stop, Info
    <3>4. CASE UNCHANGED vars
      BY <1>1, <3>4 DEF vars
    <3> QED  BY <2>4, <3>1, <3>2, <3>3, <3>4
  <2> QED  BY <2>3, <2>4, <2>5 DEF SteadyOrder
<1>3. CASE MainSync(s) \/ MainExited(s)
  BY <1>1, <1>3 DEF MainSync, MainExited, vars
<1>4. CASE MainSignal(s)
  <2>1. main'[s].pc = "exit" /\ UNCHANGED vars
    BY <1>1, <1>4 DEF MainSignal, SetMain, Main
  <2> QED  BY <1>1, <2>1 DEF vars
<1>5. CASE ServerCrash(s)
  <2>1. KillManager(s) \/ (info[s].pc = "off" /\ UNCHANGED vars)
    BY <1>5 DEF ServerCrash
  <2> QED  BY <1>1, <2>1, StartedManager DEF KillManager, vars, SteadyOrder
<1> QED  BY <1>2, <1>3, <1>4, <1>5

LEMMA ExitKept ==
  ASSUME Kept, SteadyCluster, NEW s \in Servers,
         \/ MainPause(s) \/ MainStop(s) \/ MainSync(s) \/ MainExited(s) \/ MainSignal(s)
         \/ ServerCrash(s)
  PROVE  ServerMoves(s)
<1>1. /\ main[s].ha_failover_delay = DefaultDelay /\ main[s] \in Main
      /\ Messages(rtc[s]) \subseteq
           {Heartbeat} \union {StatusMessage(status) : status \in Statuses \ {"unknown"}}
  BY KeptFacts DEF MainKept
<1>2. /\ main' \in [Servers -> Main] /\ rtc' \in [Servers -> Seq(Message)]
      /\ \A t \in Servers \ {s} : main'[t] = main[t] /\ rtc'[t] = rtc[t]
      /\ Messages(rtc'[s]) \subseteq Messages(rtc[s])
      /\ main'[s].pc \in {"off", "exit", "wait", "stop", "sync"}
      /\ main'[s].ha_failover_delay \in {main[s].ha_failover_delay, DefaultDelay}
  BY ExitTurns DEF Kept
<1>3. /\ SteadyOrder(s) \/ UNCHANGED vars
      /\ info'[s].pc # "remove"
      /\ main'[s].pc \in {"off", "sync"} => info'[s].pc = "off"
  BY ExitManager
<1>4. MainKept(main'[s], info'[s], rtc'[s])
  BY <1>1, <1>2, <1>3 DEF MainKept, Up
<1>5. ~MayStart(main'[s], rtc'[s]) /\ ~Serves(main'[s])
  BY <1>2 DEF MayStart, Serves
<1> QED  BY <1>2, <1>3, <1>4, <1>5 DEF ServerMoves, ServerKept, LeaseKept, SteadyMove

(* The manager dies. *)
LEMMA CrashKept ==
  ASSUME Kept, SteadyCluster, NEW s \in Servers, ManagerCrash(s)
  PROVE  ServerMoves(s)
<1> DEFINE m == main[s]
           q == rtc[s]
           row == ha_node[NameOf[s]]
<1>1. /\ MainKept(m, info[s], q) /\ (IsCluster(s) => LeaseKept(m, info[s], q, row, now))
      /\ main \in [Servers -> Main] /\ rtc \in [Servers -> Seq(Message)]
      /\ DOMAIN info = Servers
  BY KeptFacts DEF Kept, ClusterType, TypeInv, TypeOK
<1>2. KillManager(s) /\ main' = main /\ rtc' = rtc /\ ha_node' = ha_node
  BY DEF ManagerCrash, KillManager, registry
<1>3. info'[s].pc = "off"
  BY <1>1, <1>2, StartedManager DEF KillManager
<1>4. MainKept(m, info'[s], q)
  <2> HIDE DEF m, q
  <2> QED  BY <1>1, <1>3 DEF MainKept
<1>5. ~Leads(info'[s])
  BY <1>3 DEF Leads
<1>6. IsCluster(s) => LeaseKept(m, info'[s], q, row, now)
  <2> HIDE DEF m, q, row
  <2> QED  BY <1>1, <1>3, <1>5 DEF LeaseKept, ServeKept
<1> QED  BY <1>1, <1>2, <1>4, <1>6 DEF ServerMoves, ServerKept, SteadyMove, SteadyOrder

---------------------------------------------------------------------------
(* A second passes. *)

LEMMA TickServes ==
  ASSUME Kept, SteadyCluster, ClusterTick, NEW s \in Servers
  PROVE  /\ main'[s] \in Main /\ MainKept(main'[s], info'[s], rtc'[s])
         /\ IsCluster(s) => LeaseKept(main'[s], info'[s], rtc'[s], ha_node'[NameOf[s]], now')
<1> DEFINE m == main[s]
           m1 == main'[s]
           i == info[s]
           j == info'[s]
           q == rtc[s]
           row == ha_node[NameOf[s]]
<1>1. /\ m \in Main /\ i \in Info /\ row \in Row /\ now \in Nat
      /\ PollPeriod \in Nat \ {0} /\ DefaultDelay \in Nat
      /\ MainKept(m, i, q) /\ (IsCluster(s) => LeaseKept(m, i, q, row, now))
      /\ i.pc # "remove"
  BY KeptFacts DEF MainKept
<1>2. /\ m.last_hb \in Nat /\ row.lastaccess \in Nat /\ i.nextcheck \in Nat
      /\ i.tick \in BOOLEAN
  BY <1>1 DEF Main, Row, Info
<1>3. /\ m1 = [m EXCEPT !.polled = FALSE] /\ rtc' = rtc /\ ha_node' = ha_node
      /\ now' = now + 1
      /\ j = IF i.pc = "off" THEN i ELSE [i EXCEPT !.tick = TRUE]
  BY DEF ClusterTick, Tick, registry
<1>4. /\ m1 \in Main /\ m1.pc = m.pc /\ m1.children = m.children
      /\ m1.ha_status = m.ha_status /\ m1.ha_status_old = m.ha_status_old
      /\ m1.last_hb = m.last_hb /\ m1.ha_failover_delay = m.ha_failover_delay
      /\ m1.polled = FALSE
  <2> HIDE DEF m, m1
  <2> QED  BY <1>1, <1>3 DEF Main
<1>5. /\ j \in Info /\ j.pc = i.pc /\ j.ha_status = i.ha_status
      /\ j.nextcheck = i.nextcheck /\ (i.pc = "loop" => j.tick = TRUE)
  <2> HIDE DEF i, j
  <2> QED  BY <1>1, <1>3 DEF Info
<1>6. MainInTime(s) /\ ManagerInTime(s)
  BY DEF ClusterTick
<1>7. /\ m.pc = "loop" => m.polled = TRUE /\ q = <<>>
      /\ m.pc # "startup" /\ ~(m.pc = "getstatus" /\ i.pc = "loop")
  <2>1. "startup" \notin Events
    BY DEF SteadyCluster
  <2>2. m.pc = "loop" => m.polled /\ q = <<>>
    BY <1>1, <1>6 DEF MainInTime, Waits
  <2>3. m.polled \in BOOLEAN
    BY <1>1 DEF Main
  <2> QED  BY <1>6, <2>1, <2>2, <2>3 DEF MainInTime
<1>8. i.pc = "loop" /\ i.nextcheck > 1 => i.tick = FALSE
  BY <1>2, <1>6 DEF ManagerInTime
<1>9. MainKept(m1, j, q)
  <2> HIDE DEF m, m1, i, j, q
  <2> QED  BY <1>1, <1>4, <1>5 DEF MainKept, Up
<1>10. Leads(j) <=> Leads(i)
  BY <1>5 DEF Leads
<1>11. MayStart(m1, q) => ~Leads(j)
  <2>1. q = <<>> => StatusMessage("active") \notin Messages(q)
    BY NoMessages
  <2> HIDE DEF m, m1, i, j, q
  <2> QED  BY <1>4, <1>5, <1>7, <2>1 DEF MayStart, Leads
<1>12. Serves(m1) => /\ Serves(m) /\ m.polled = TRUE /\ Messages(q) = {}
  BY <1>4, <1>7, NoMessages DEF Serves
<1>13. ASSUME IsCluster(s), Serves(m1) PROVE ServeKept(m1, j, q, row, now + 1)
  <2>1. ServeKept(m, i, q, row, now)
    BY <1>1, <1>12, <1>13 DEF LeaseKept
  <2>2. now + PollPeriod < m.last_hb + DefaultDelay
    BY <1>12, <1>13, <2>1 DEF ServeKept
  <2> HIDE DEF m, m1, i, j, q, row
  <2> QED  BY <1>1, <1>2, <1>4, <1>5, <1>10, <1>12, <1>13, <2>1, <2>2 DEF ServeKept
<1>14. ASSUME IsCluster(s), Serves(m1), Leads(j), j.nextcheck > 1
       PROVE  NextTime(j, now + 1) <= row.lastaccess + PollPeriod
  <2>1. Serves(m) /\ Leads(i) /\ i.nextcheck > 1 /\ i.tick = FALSE /\ j.tick = TRUE
    BY <1>5, <1>8, <1>10, <1>12, <1>14 DEF Leads
  <2>2. NextTime(i, now) <= row.lastaccess + PollPeriod
    BY <1>1, <1>14, <2>1 DEF LeaseKept
  <2>3. NextTime(i, now) = now + i.nextcheck /\ NextTime(j, now + 1) = now + 1 + j.nextcheck - 1
    BY <1>1, <1>2, <1>5, <2>1 DEF NextTime
  <2> HIDE DEF m, m1, i, j, q, row
  <2> QED  BY <1>1, <1>2, <1>5, <2>2, <2>3
<1>15. IsCluster(s) => LeaseKept(m1, j, q, row, now + 1)
  <2> HIDE DEF m, m1, i, j, q, row
  <2> QED  BY <1>11, <1>13, <1>14 DEF LeaseKept
<1> QED  BY <1>3, <1>4, <1>9, <1>15

LEMMA TickKept ==
  ASSUME Kept, SteadyCluster, ClusterTick
  PROVE  /\ MainInv' /\ LeaseInv' /\ main' \in [Servers -> Main]
         /\ rtc' \in [Servers -> Seq(Message)]
<1>1. MainInv'
  BY TickServes DEF MainInv
<1>2. LeaseInv'
  BY TickServes DEF LeaseInv, IsCluster
<1>3. main' \in [Servers -> Main]
  <2>1. main' = [s \in Servers |-> [main[s] EXCEPT !.polled = FALSE]]
    BY DEF ClusterTick
  <2>2. \A s \in Servers : main'[s] \in Main
    BY TickServes
  <2>3. \A s \in Servers : [main[s] EXCEPT !.polled = FALSE] \in Main
    BY <2>1, <2>2, Zenon
  <2> QED  BY <2>1, <2>3, Zenon
<1>4. rtc' = rtc /\ rtc \in [Servers -> Seq(Message)]
  BY DEF ClusterTick, Kept, ClusterType
<1> QED  BY <1>1, <1>2, <1>3, <1>4

(* What every step of a server does. *)
LEMMA ServersMove ==
  ASSUME Kept, SteadyCluster, PatientInv', TypeInv', NEW s \in Servers,
         Manager(s) \/ MainStep(s) \/ Interference(s)
  PROVE  ServerMoves(s)
<1>1. CASE Manager(s)
  <2>1. ManagerStep(s)
    BY <1>1 DEF Manager
  <2> QED  BY <1>1, <2>1, ManagerKept DEF ServerMoves, SteadyMove, Kept, ClusterType
<1>2. CASE MainStep(s)
  <2>1. CASE MainLoop(s)
    BY <2>1, LoopKept, LoopTurns DEF ServerMoves, SteadyMove, SteadyOrder, Kept
  <2> QED  BY <1>2, <2>1, StartKept, GetStatusKept, StartedKept, ExitKept DEF MainStep
<1>3. CASE Interference(s)
  BY <1>3, ExitKept, CrashKept DEF Interference, SteadyCluster
<1> QED  BY <1>1, <1>2, <1>3

---------------------------------------------------------------------------
(* The theorems about the main processes. *)

LEMMA KeptStep ==
  ASSUME Kept, SteadyCluster, [ClusterNext]_clusterVars
  PROVE  Kept'
<1>1. "delay" \notin Events /\ "remove" \notin Events /\ Acknowledged
  BY DEF SteadyCluster
<1>2. Inv' /\ PatientInv'
  BY <1>1, ClusterInv, ClusterPatient DEF Kept
<1>3. IdInv'
  <2>1. [SteadyStep]_vars
    BY <1>1, SteadySteps DEF clusterVars
  <2> QED  BY <2>1, IdsHeld DEF Kept
<1>4. TypeInv'
  BY <1>2 DEF Inv
<1>5. ASSUME NEW s \in Servers, ServerMoves(s)
      PROVE  MainInv' /\ LeaseInv' /\ ClusterType'
  BY <1>4, <1>5, ServerStep DEF ServerMoves, ClusterType
<1>6. CASE UNCHANGED clusterVars
  <2>1. UNCHANGED <<ha_node, now, info, main, rtc>>
    BY <1>6 DEF clusterVars, vars
  <2>2. MainInv' /\ LeaseInv'
    BY <2>1 DEF Kept, MainInv, LeaseInv, IsCluster
  <2>3. ClusterType'
    BY <1>4, <2>1 DEF Kept, ClusterType
  <2> QED  BY <1>2, <1>3, <2>2, <2>3 DEF Kept
<1>7. ASSUME NEW s \in Servers, Manager(s) \/ MainStep(s) \/ Interference(s)
      PROVE  ServerMoves(s)
  BY <1>2, <1>4, <1>7, ServersMove
<1>8. CASE ClusterTick
  <2>1. MainInv' /\ LeaseInv' /\ ClusterType'
    BY <1>4, <1>8, TickKept DEF ClusterType
  <2> QED  BY <1>2, <1>3, <2>1 DEF Kept
<1>9. ASSUME NEW s \in Servers, ServerMoves(s) PROVE Kept'
  BY <1>2, <1>3, <1>5, <1>9 DEF Kept
<1> QED  BY <1>6, <1>7, <1>8, <1>9 DEF ClusterNext

LEMMA KeptInit == ClusterInit => Kept
<1> SUFFICES ASSUME ClusterInit PROVE Kept
  OBVIOUS
<1>1. Inv /\ PatientInv
  BY InitInv, InitPatient DEF ClusterInit
<1>2. /\ OffMain \in Main /\ OffMain.pc = "off" /\ OffMain.ha_failover_delay = DefaultDelay
  BY ConfigAssumption DEF OffMain, Main, MainPhases, Statuses
<1>3. ClusterType
  BY <1>1, <1>2, NoMessages DEF ClusterInit, ClusterType, Inv
<1>4. /\ OffInfo.pc = "off" /\ OffInfo.ha_nodeid = 0
  BY DEF OffInfo, StartedInfo
<1>5. ASSUME NEW s \in Servers
      PROVE  main[s] = OffMain /\ rtc[s] = <<>> /\ info[s] = OffInfo
  BY DEF ClusterInit, Init
<1>6. IdInv
  BY <1>4, <1>5, ConfigAssumption DEF IdInv, IdHeld, ClusterInit, Init
<1>7. MainInv
  BY <1>2, <1>4, <1>5, NoMessages DEF MainInv, MainKept, Up
<1>8. LeaseInv
  BY <1>2, <1>5 DEF LeaseInv, LeaseKept, MayStart, Serves
<1> QED  BY <1>1, <1>3, <1>6, <1>7, <1>8 DEF Kept

LEMMA ClusterKept ==
  ASSUME SteadyCluster
  PROVE  ClusterSpec => []Kept
<1>1. Kept /\ [ClusterNext]_clusterVars => Kept'
  BY KeptStep
<1> QED  BY <1>1, KeptInit, PTL DEF ClusterSpec

(***************************************************************************)
(* zbx_ha_dispatch_message and server_teardown: two cluster nodes never    *)
(* serve at a time, although the old active node learns of a takeover from *)
(* its clock alone.                                                        *)
(***************************************************************************)
THEOREM OneServes ==
  ASSUME SteadyCluster
  PROVE  ClusterSpec => []NoSplitBrain
<1>1. Kept => NoSplitBrain
  <2> SUFFICES ASSUME Kept, NEW s \in Servers, NEW t \in Servers,
                      IsCluster(s), IsCluster(t), Serving(s), Serving(t)
               PROVE  s = t
    BY DEF NoSplitBrain
  <2>1. ASSUME NEW u \in Servers, IsCluster(u), Serving(u)
        PROVE  ha_node[NameOf[u]].status = "active" /\ NameOf[u] \in Names
    <3>1. Serves(main[u])
      BY <2>1, KeptFacts DEF Serving, Serves, Main
    <3> QED  BY <2>1, <3>1, KeptFacts DEF LeaseKept, ServeKept
  <2>2. NameOf[s] = NameOf[t]
    BY <2>1 DEF Kept, Inv, ActiveInv, SingleActive
  <2> QED  BY <2>2 DEF SteadyCluster
<1> QED  BY <1>1, ClusterKept, PTL

(***************************************************************************)
(* What the watchdog of the main process is for: a node that serves and    *)
(* has turned its loop this second has refreshed its row within the        *)
(* failover delay.                                                         *)
(***************************************************************************)
THEOREM ServedByLease ==
  ASSUME SteadyCluster
  PROVE  ClusterSpec => []ServingLease
<1>1. Kept => ServingLease
  <2> SUFFICES ASSUME Kept, NEW s \in Servers, IsCluster(s), Serving(s), main[s].polled
               PROVE  now < ha_node[NameOf[s]].lastaccess + main[s].ha_failover_delay
    BY DEF ServingLease
  <2> DEFINE m == main[s]
             row == ha_node[NameOf[s]]
  <2>1. /\ m \in Main /\ row \in Row /\ now \in Nat /\ PollPeriod \in Nat /\ DefaultDelay \in Nat
        /\ m.ha_failover_delay = DefaultDelay
    BY KeptFacts DEF MainKept
  <2>2. /\ m.last_hb \in Nat /\ row.lastaccess \in Nat /\ m.polled = TRUE /\ Serves(m)
    BY <2>1 DEF Main, Row, Serves, Serving
  <2>3. m.last_hb < row.lastaccess + PollPeriod /\ now + PollPeriod < m.last_hb + DefaultDelay
    BY <2>2, KeptFacts DEF LeaseKept, ServeKept
  <2> HIDE DEF m, row
  <2>4. now < row.lastaccess + DefaultDelay
    BY <2>1, <2>2, <2>3
  <2> QED  BY <2>1, <2>4 DEF m, row
<1> QED  BY <1>1, ClusterKept, PTL

---------------------------------------------------------------------------
(* Why main and manager agree.  The manager sends its status in the step   *)
(* that changes it, unless it registers for the first time; then the main  *)
(* process asks for it.  So the last status that was sent is the manager's *)
(* as long as it polls, whatever the database and the operators do.        *)

Polling(i) == i.pc \in {"loop", "create", "register", "remove"}
Starting(i) == i.pc \in {"init_create", "init_register"}

(* A queue without a status, and one in which the last status is the given *)
Silent(q) == \A k \in 1..Len(q) : q[k].code # "status"

LastTold(q, status) ==
  \E k \in 1..Len(q) :
    /\ q[k].code = "status" /\ q[k].status = status
    /\ \A l \in (k + 1)..Len(q) : q[l].code # "status"

(* A process that was told a status has the other one when it has received *)
(* the messages.                                                           *)
Tells(q, told, status) == LastTold(q, status) \/ (Silent(q) /\ told = status)

(* The delays that come with a status leave time for the next message. *)
PatientMessages(q) ==
  \A k \in 1..Len(q) :
    q[k].code = "status" => PollPeriod < q[k].delay /\ q[k].status # "unknown"

LEMMA NothingTold ==
  /\ Silent(<<>>) /\ PatientMessages(<<>>)
  /\ \A status : Tells(<<>>, status, status)
BY DEF Silent, PatientMessages, Tells

(* What a message adds to a queue. *)
LEMMA SendTells ==
  ASSUME NEW q \in Seq(Message), NEW msg \in Message
  PROVE  /\ msg.code = "heartbeat" =>
              \A told, status : Tells(q, told, status) => Tells(Send(q, msg), told, status)
         /\ msg.code = "status" => \A told : Tells(Send(q, msg), told, msg.status)
         /\ (msg.code = "status" => PollPeriod < msg.delay /\ msg.status # "unknown")
              /\ PatientMessages(q)
              => PatientMessages(Send(q, msg))
<1> DEFINE p == Append(q, msg)
<1>1. /\ p \in Seq(Message) /\ Len(q) \in Nat /\ Len(p) = Len(q) + 1
      /\ p[Len(q) + 1] = msg /\ \A k \in 1..Len(q) : p[k] = q[k]
  OBVIOUS
<1>2. Send(q, msg) = p \/ (Send(q, msg) = q /\ msg.code = "heartbeat")
  BY DEF Send
<1>3. \A k \in 1..Len(p) : k \in 1..Len(q) \/ k = Len(q) + 1
  BY <1>1
<1> HIDE DEF p
<1>4. ASSUME msg.code = "heartbeat", NEW told, NEW status, Tells(q, told, status)
      PROVE  Tells(p, told, status)
  <2>1. CASE Silent(q) /\ told = status
    <3>1. Silent(p)
      BY <1>1, <1>3, <1>4, <2>1 DEF Silent
    <3> QED  BY <2>1, <3>1 DEF Tells
  <2>2. CASE LastTold(q, status)
    <3>1. PICK k \in 1..Len(q) :
            /\ q[k].code = "status" /\ q[k].status = status
            /\ \A l \in (k + 1)..Len(q) : q[l].code # "status"
      BY <2>2 DEF LastTold
    <3>2. p[k].code = "status" /\ p[k].status = status /\ k \in 1..Len(p)
      BY <1>1, <3>1
    <3>3. ASSUME NEW l \in (k + 1)..Len(p) PROVE p[l].code # "status"
      <4>1. CASE l = Len(q) + 1
        BY <1>1, <1>4, <4>1
      <4>2. CASE l # Len(q) + 1
        <5>1. l \in (k + 1)..Len(q) /\ l \in 1..Len(q)
          BY <1>1, <3>1, <4>2
        <5> QED  BY <1>1, <3>1, <5>1
      <4> QED  BY <4>1, <4>2
    <3>4. LastTold(p, status)
      BY <3>2, <3>3 DEF LastTold
    <3> QED  BY <3>4 DEF Tells
  <2> QED  BY <1>4, <2>1, <2>2 DEF Tells
<1>5. ASSUME msg.code = "status" PROVE LastTold(p, msg.status)
  <2>1. Len(q) + 1 \in 1..Len(p) /\ (Len(q) + 1 + 1)..Len(p) = {}
    BY <1>1
  <2> QED  BY <1>1, <1>5, <2>1 DEF LastTold
<1>6. ASSUME msg.code = "status" => PollPeriod < msg.delay /\ msg.status # "unknown",
             PatientMessages(q)
      PROVE  PatientMessages(p)
  BY <1>1, <1>3, <1>6 DEF PatientMessages
<1> QED  BY <1>2, <1>4, <1>5, <1>6 DEF Tells

(* What a process has been told once it has received a message. *)
LEMMA ReceiveTells ==
  ASSUME NEW q \in Seq(Message), q # <<>>, NEW told, NEW status, Tells(q, told, status)
  PROVE  Tells(Tail(q), IF Head(q).code = "status" THEN Head(q).status ELSE told, status)
<1> DEFINE p == Tail(q)
           h == Head(q)
<1>1. /\ Len(q) \in Nat /\ Len(q) > 0 /\ h = q[1]
      /\ p \in Seq(Message) /\ Len(p) = Len(q) - 1
      /\ \A k \in 1..Len(p) : p[k] = q[k + 1]
  OBVIOUS
<1> HIDE DEF p, h
<1>2. CASE Silent(q) /\ told = status
  <2>1. h.code # "status"
    BY <1>1, <1>2 DEF Silent
  <2>2. Silent(p)
    <3>1. \A k \in 1..Len(p) : k + 1 \in 1..Len(q)
      BY <1>1
    <3> QED  BY <1>1, <1>2, <3>1 DEF Silent
  <2> QED  BY <1>2, <2>1, <2>2 DEF Tells, p, h
<1>3. CASE LastTold(q, status)
  <2>1. PICK k \in 1..Len(q) :
          /\ q[k].code = "status" /\ q[k].status = status
          /\ \A l \in (k + 1)..Len(q) : q[l].code # "status"
    BY <1>3 DEF LastTold
  <2>2. CASE k = 1
    <3>1. \A l \in 1..Len(p) : l + 1 \in (k + 1)..Len(q)
      BY <1>1, <2>2
    <3>2. Silent(p) /\ h.code = "status" /\ h.status = status
      BY <1>1, <2>1, <2>2, <3>1 DEF Silent
    <3> QED  BY <3>2 DEF Tells, p, h
  <2>3. CASE k # 1
    <3>1. /\ k - 1 \in 1..Len(p) /\ p[k - 1] = q[k]
      BY <1>1, <2>1, <2>3
    <3>2. ASSUME NEW l \in (k - 1 + 1)..Len(p) PROVE p[l].code # "status"
      <4>1. l + 1 \in (k + 1)..Len(q) /\ l \in 1..Len(p)
        BY <1>1, <2>1, <2>3
      <4> QED  BY <1>1, <2>1, <4>1
    <3>3. LastTold(p, status)
      BY <2>1, <3>1, <3>2 DEF LastTold
    <3> QED  BY <3>3 DEF Tells, p, h
  <2> QED  BY <2>2, <2>3
<1> QED  BY <1>2, <1>3 DEF Tells

(* A queue is heard from its head on. *)
LEMMA TailPatient ==
  ASSUME NEW q \in Seq(Message), q # <<>>, PatientMessages(q)
  PROVE  /\ PatientMessages(Tail(q))
         /\ Head(q).code = "status" => PollPeriod < Head(q).delay /\ Head(q).status # "unknown"
<1>1. /\ Len(q) \in Nat /\ Len(q) > 0 /\ Head(q) = q[1]
      /\ Len(Tail(q)) = Len(q) - 1 /\ \A k \in 1..Len(Tail(q)) : Tail(q)[k] = q[k + 1]
  OBVIOUS
<1>2. 1 \in 1..Len(q) /\ \A k \in 1..Len(Tail(q)) : k + 1 \in 1..Len(q)
  BY <1>1
<1> QED  BY <1>1, <1>2 DEF PatientMessages

(* A status that was told is not unknown. *)
LEMMA KnownTold ==
  ASSUME NEW q, PatientMessages(q), NEW told, NEW status, Tells(q, told, status),
         told # "unknown"
  PROVE  status # "unknown"
BY DEF Tells, LastTold, PatientMessages

(* What a step of a manager makes of its phase and status. *)
Turned(s, i, j) ==
  /\ j.failover_delay \in {i.failover_delay, settings, DefaultDelay}
  /\ \/ Starting(i) /\ j.pc \in {"init_register", "loop"}
     \/ /\ Starting(i) \/ Polling(i)
        /\ j.pc = "paused" /\ j.ha_status = "error"
     \/ /\ Polling(i) /\ Polling(j)
        /\ j.pc \in {"create", "register"} => j.tick = TRUE
        /\ \/ j.ha_status = i.ha_status
           \/ j.ha_status \in {"active", "standby"} /\ TickEnds(s)
     \/ /\ i.pc = "paused" /\ j.pc = "paused"
        /\ i.ha_status = "error" => j.ha_status = "error"
     \/ i.pc = "stopping" /\ j.pc = "off"

LEMMA ManagerTurns ==
  ASSUME TypeInv, NEW s \in Servers, ManagerStep(s),
         info[s].pc \in {"create", "register"} => info[s].tick = TRUE
  PROVE  settings' = settings /\ info[s].pc # "off" /\ Turned(s, info[s], info'[s])
<1> DEFINE i == info[s]
           j == info'[s]
<1>1. i \in Info /\ DOMAIN info = Servers
  BY DEF TypeInv, TypeOK
<1>2. ASSUME NEW k, Resume(s, k), After(i, k),
             Starting(i) \/ (i.pc \in {"loop", "create", "register"} /\ i.tick = TRUE)
      PROVE  Turned(s, i, j)
  <2>1. j = Resumed(s, k) /\ k \in Info
    BY <1>1, <1>2 DEF Resume, After
  <2>2. /\ j.pc = (IF k.ha_status = "error" THEN "paused" ELSE "loop")
        /\ j.tick = (i.pc \in {"init_create", "init_register"})
        /\ j.ha_status = k.ha_status /\ j.failover_delay = k.failover_delay
    BY <2>1, ResumedFields
  <2>3. /\ j.failover_delay \in {i.failover_delay, settings}
        /\ j.ha_status \in {i.ha_status, "active", "standby", "error"}
    BY <1>2, <2>2 DEF After
  <2>4. CASE Starting(i)
    <3> HIDE DEF i, j
    <3> QED  BY <2>2, <2>3, <2>4 DEF Turned, Starting
  <2>5. CASE i.pc \in {"loop", "create", "register"} /\ i.tick = TRUE
    <3>1. Polling(i) /\ j.tick = FALSE
      <4>1. (i.pc \in {"init_create", "init_register"}) = FALSE
        BY <2>5
      <4> QED  BY <2>2, <2>5, <4>1 DEF Polling
    <3>2. j.pc # "off" => TickEnds(s)
      BY <2>5, <3>1 DEF TickEnds
    <3> HIDE DEF i, j
    <3> QED  BY <2>2, <2>3, <3>1, <3>2 DEF Turned, Polling
  <2> QED  BY <1>2, <2>4, <2>5
<1>3. ASSUME CheckNodes(s) \/ \E o \in Outcomes : CreateNode(s, o) \/ RegisterNode(s, o)
      PROVE  Starting(i) \/ (i.pc \in {"loop", "create", "register"} /\ i.tick = TRUE)
  <2>1. CheckNodes(s) => CheckDue(s)
    BY DEF CheckNodes, CheckNoDatabase, CheckError, CheckStandalone, CheckSplitBrain,
       CheckActive, CheckPassive, CheckOwned, CheckStart
  <2>2. i.tick \in BOOLEAN
    BY <1>1 DEF Info
  <2> QED  BY <1>3, <2>1, <2>2 DEF CheckDue, CreateNode, RegisterNode, Starting
<1>4. CASE CheckNodes(s) \/ \E o \in Outcomes : RegisterNode(s, o)
  <2>1. \E k : Resume(s, k) /\ After(i, k)
    BY <1>4, CheckResumes
  <2>2. settings' = settings
    BY <1>4 DEF CheckNodes, CheckNoDatabase, CheckError, CheckStandalone, CheckSplitBrain,
       CheckActive, CheckPassive, CheckOwned, CheckStart, RegisterNode
  <2>3. Turned(s, i, j) /\ i.pc # "off"
    <3> HIDE DEF i, j
    <3> QED  BY <1>2, <1>3, <1>4, <2>1 DEF Starting
  <2> QED  BY <2>2, <2>3
<1>5. ASSUME NEW o \in Outcomes, CreateNode(s, o)
      PROVE  settings' = settings /\ i.pc # "off" /\ Turned(s, i, j)
  <2>1. PICK k \in Info :
          /\ Resume(s, k) \/ (ToRegister(s, k) /\ k.ha_status = i.ha_status)
          /\ After(i, k)
    BY <1>5, CreateResumes
  <2>2. settings' = settings /\ i.pc \in {"init_create", "create"}
    BY <1>5 DEF CreateNode, registry
  <2>3. CASE Resume(s, k)
    BY <1>2, <1>3, <1>5, <2>1, <2>2, <2>3
  <2>4. CASE k.ha_nodeid # 0 /\ ToRegister(s, k) /\ k.ha_status = i.ha_status
    <3>1. j = [k EXCEPT !.pc = IF @ = "create" THEN "register" ELSE "init_register"]
      BY <1>1, <2>4 DEF ToRegister
    <3>2. /\ k.pc = i.pc /\ k.tick = i.tick /\ k \in Info
          /\ k.failover_delay \in {i.failover_delay, settings}
      BY <2>1 DEF After
    <3> HIDE DEF j
    <3>3. /\ j.pc = (IF i.pc = "create" THEN "register" ELSE "init_register")
          /\ j.tick = i.tick /\ j.failover_delay = k.failover_delay
          /\ j.ha_status = i.ha_status
      BY <2>4, <3>1, <3>2 DEF Info
    <3>4. i.pc = "create" => i.tick = TRUE
      BY <1>3, <1>5 DEF Starting
    <3> HIDE DEF i
    <3>5. Turned(s, i, j)
      BY <2>2, <3>2, <3>3, <3>4 DEF Polling, Starting, Turned
    <3> QED  BY <2>2, <3>5 DEF i, j
  <2>5. ToRegister(s, k) => Resume(s, k) \/ k.ha_nodeid # 0
    BY DEF ToRegister
  <2> HIDE DEF i, j
  <2> QED  BY <2>1, <2>3, <2>4, <2>5 DEF i, j
<1>6. CASE ManagerTick(s) \/ RegisterAgain(s) \/ PausedWait(s)
  <2>1. /\ settings' = settings /\ i.pc \in {"loop", "paused"}
        /\ j.failover_delay = i.failover_delay /\ j.ha_status = i.ha_status
    BY <1>1, <1>6 DEF ManagerTick, RegisterAgain, CheckDue, PausedWait, registry, Info
  <2>2. /\ i.pc = "loop" => j.pc = "loop" \/ (j.pc = "create" /\ j.tick = i.tick /\ i.tick)
        /\ i.pc = "paused" => j.pc = "paused"
    BY <1>1, <1>6 DEF ManagerTick, RegisterAgain, CheckDue, PausedWait, Info
  <2>3. i.tick \in BOOLEAN
    BY <1>1 DEF Info
  <2>4. Turned(s, i, j)
    <3> HIDE DEF i, j
    <3> QED  BY <2>1, <2>2, <2>3 DEF Polling, Turned
  <2> QED  BY <2>1, <2>4
<1>7. ASSUME NEW o \in Outcomes, RemoveNodeDelete(s, o) \/ PausedUpdate(s, o)
      PROVE  settings' = settings /\ i.pc # "off" /\ Turned(s, i, j)
  <2>1. /\ settings' = settings /\ j.failover_delay = i.failover_delay
        /\ \/ i.pc = "remove" /\ j.pc = "loop" /\ j.ha_status = i.ha_status
           \/ i.pc = "remove" /\ j.pc = "paused" /\ j.ha_status = "error"
           \/ /\ i.pc = "paused" /\ j.pc = "paused"
              /\ i.ha_status = "error" => j.ha_status = "error"
    BY <1>1, <1>7 DEF RemoveNodeDelete, PausedUpdate, PausedStatus, Info
  <2> HIDE DEF i, j
  <2> QED  BY <2>1 DEF Turned, Polling
<1>8. ASSUME NEW o \in Outcomes, UpdateExitStatus(s, o)
      PROVE  settings' = settings /\ i.pc # "off" /\ Turned(s, i, j)
  <2>1. /\ settings' = settings /\ j.failover_delay = DefaultDelay
        /\ i.pc = "stopping" /\ j.pc = "off"
    BY <1>1, <1>8 DEF UpdateExitStatus, OffInfo, StartedInfo
  <2> HIDE DEF i, j
  <2> QED  BY <2>1 DEF Turned
<1> QED  BY <1>4, <1>5, <1>6, <1>7, <1>8 DEF ManagerStep

(* What a manager tells in a step. *)
LEMMA SentTells ==
  ASSUME ClusterType, NEW s \in Servers, info'[s] \in Info, PatientMessages(rtc[s]),
         PollPeriod < info'[s].failover_delay
  PROVE  /\ Sent(s) \in Seq(Message) /\ PatientMessages(Sent(s))
         /\ ~TickEnds(s) => Sent(s) = rtc[s]
         /\ info'[s].ha_status = info[s].ha_status =>
              \A told, status : Tells(rtc[s], told, status) => Tells(Sent(s), told, status)
         /\ TickEnds(s) /\ StatusChanged(s) =>
              \A told : Tells(Sent(s), told, info'[s].ha_status)
<1> DEFINE told == StatusUpdate(info'[s])
           updated == IF StatusChanged(s) THEN Send(rtc[s], told) ELSE rtc[s]
<1>1. rtc[s] \in Seq(Message)
  BY DEF ClusterType
<1>2. /\ told \in Message /\ told.code = "status" /\ told.status = info'[s].ha_status
      /\ told.delay = info'[s].failover_delay
      /\ Heartbeat \in Message /\ Heartbeat.code = "heartbeat"
  BY DEF StatusUpdate, Heartbeat, Message, Info
<1>3. Sent(s) = IF ~TickEnds(s) THEN rtc[s]
                ELSE IF HeartbeatDue(s) THEN Send(updated, Heartbeat) ELSE updated
  BY DEF Sent
<1> HIDE DEF told
<1>4. /\ Send(rtc[s], told) \in Seq(Message)
      /\ StatusChanged(s) => PatientMessages(Send(rtc[s], told))
      /\ \A known : Tells(Send(rtc[s], told), known, info'[s].ha_status)
  <2>1. Send(rtc[s], told) \in Seq(Message)
    BY <1>1, <1>2, SendMessages
  <2>2. StatusChanged(s) => told.status # "unknown"
    BY <1>2 DEF StatusChanged
  <2> QED  BY <1>1, <1>2, <2>1, <2>2, SendTells
<1>5. /\ updated \in Seq(Message) /\ PatientMessages(updated)
      /\ ~StatusChanged(s) => updated = rtc[s]
      /\ StatusChanged(s) => \A known : Tells(updated, known, info'[s].ha_status)
  BY <1>1, <1>4
<1> HIDE DEF updated
<1>6. /\ Send(updated, Heartbeat) \in Seq(Message)
      /\ PatientMessages(Send(updated, Heartbeat))
      /\ \A known, status :
           Tells(updated, known, status) => Tells(Send(updated, Heartbeat), known, status)
  <2>1. Send(updated, Heartbeat) \in Seq(Message)
    BY <1>2, <1>5, SendMessages
  <2> QED  BY <1>2, <1>5, <2>1, SendTells
<1>7. info'[s].ha_status = info[s].ha_status => ~StatusChanged(s)
  BY DEF StatusChanged
<1> QED  BY <1>1, <1>3, <1>5, <1>6, <1>7

(***************************************************************************)
(* What the agreement rests on, for one server: the manager is in error or *)
(* ends when it no longer polls, the messages that are on their way tell   *)
(* its status, and no message comes with a delay within which the main     *)
(* process would take it for late at once.                                 *)
(***************************************************************************)
MainAgrees(m, i, q) ==
  /\ PollPeriod < m.ha_failover_delay /\ PollPeriod < i.failover_delay
  /\ PatientMessages(q)
  /\ i.pc \in {"create", "register"} => i.tick = TRUE
  /\ Starting(i) => Silent(q) /\ m.pc \notin {"startup", "loop"}
  /\ Up(m) => i.pc # "stopping" /\ (i.pc = "paused" => i.ha_status = "error")
  /\ m.pc = "getstatus" /\ Polling(i) => Tells(q, i.ha_status, i.ha_status)
  /\ m.pc \in {"startup", "loop"} /\ Polling(i) => Tells(q, m.ha_status, i.ha_status)
  /\ m.pc = "startup" => m.ha_status_old = "active"
  /\ m.pc = "startup" /\ Polling(i) => i.ha_status # "unknown"
  /\ m.pc = "loop" /\ m.ha_status = "active" => m.ha_status_old = "active"
  /\ m.pc \in {"off", "sync"} => i.pc = "off"

AgreeInv ==
  /\ PollPeriod < settings
  /\ \A s \in Servers : MainAgrees(main[s], info[s], rtc[s])

Agreeing == ClusterType /\ Inv /\ AgreeInv

(***************************************************************************)
(* What the proof asks: managers that run tell their status in time, and   *)
(* every failover delay is longer than a poll period: rtc_server.c takes   *)
(* one from 10 to 900 seconds, the period is 5.  Transactions may end in   *)
(* any way, managers and servers die.                                      *)
(***************************************************************************)
AnsweringCluster ==
  /\ "timeout" \notin Events
  /\ PollPeriod < DefaultDelay
  /\ \A d \in Delays : PollPeriod < d

LEMMA AgreeFacts ==
  ASSUME Agreeing, AnsweringCluster, NEW s \in Servers
  PROVE  /\ info[s] \in Info /\ main[s] \in Main /\ rtc[s] \in Seq(Message)
         /\ main \in [Servers -> Main] /\ rtc \in [Servers -> Seq(Message)]
         /\ info \in [Servers -> Info] /\ DOMAIN info = Servers
         /\ now \in Nat /\ settings \in Nat /\ PollPeriod \in Nat \ {0} /\ DefaultDelay \in Nat
         /\ PollPeriod < settings /\ MainAgrees(main[s], info[s], rtc[s])
         /\ TypeInv
BY ConfigAssumption DEF Agreeing, AgreeInv, ClusterType, Inv, TypeInv, TypeOK

(* The state of one server after a step, the others being left alone. *)
AgreeMoves(s) ==
  /\ main' \in [Servers -> Main] /\ rtc' \in [Servers -> Seq(Message)]
  /\ \A t \in Servers \ {s} : main'[t] = main[t] /\ rtc'[t] = rtc[t] /\ info'[t] = info[t]
  /\ PollPeriod < settings'
  /\ MainAgrees(main'[s], info'[s], rtc'[s])

LEMMA ManagerAgrees ==
  ASSUME Agreeing, AnsweringCluster, TypeInv', NEW s \in Servers, Manager(s)
  PROVE  AgreeMoves(s)
<1> DEFINE m == main[s]
           i == info[s]
           j == info'[s]
           q == rtc[s]
           p == Sent(s)
<1>1. /\ i \in Info /\ MainAgrees(m, i, q) /\ q \in Seq(Message) /\ TypeInv
      /\ rtc \in [Servers -> Seq(Message)] /\ main \in [Servers -> Main]
      /\ PollPeriod < settings /\ PollPeriod < DefaultDelay
  BY AgreeFacts DEF AnsweringCluster
<1>2. /\ ManagerStep(s) /\ main' = main /\ rtc' = [rtc EXCEPT ![s] = p]
  BY DEF Manager
<1>3. j \in Info
  BY DEF TypeInv, TypeOK
<1>4. settings' = settings /\ i.pc # "off" /\ Turned(s, i, j)
  <2>1. i.pc \in {"create", "register"} => i.tick = TRUE
    BY <1>1 DEF MainAgrees
  <2> QED  BY <1>1, <1>2, <2>1, ManagerTurns
<1>5. PollPeriod < j.failover_delay
  <2>1. PollPeriod < i.failover_delay
    BY <1>1 DEF MainAgrees
  <2> QED  BY <1>1, <1>4, <2>1 DEF Turned
<1>6. /\ p \in Seq(Message) /\ PatientMessages(p) /\ (~TickEnds(s) => p = q)
      /\ j.ha_status = i.ha_status =>
           \A told, status : Tells(q, told, status) => Tells(p, told, status)
      /\ TickEnds(s) /\ StatusChanged(s) => \A told : Tells(p, told, j.ha_status)
  <2>1. PatientMessages(q) /\ ClusterType
    BY <1>1 DEF MainAgrees, Agreeing
  <2> QED  BY <1>3, <1>5, <2>1, SentTells
<1>7. /\ rtc'[s] = p /\ rtc' \in [Servers -> Seq(Message)]
      /\ \A t \in Servers \ {s} : rtc'[t] = rtc[t]
  BY <1>1, <1>2, <1>6
<1>8. \A t \in Servers \ {s} : info'[t] = info[t]
  BY <1>1, <1>2, OneManagerMoves
<1>9. i.pc \in {"init_create", "init_register"} => ~TickEnds(s)
  BY DEF TickEnds
<1>10. j.ha_status \in {"active", "standby"} /\ j.ha_status # i.ha_status => StatusChanged(s)
  BY DEF StatusChanged
<1>11. MainAgrees(m, j, p)
  <2> HIDE DEF m, i, j, q, p
  <2>1. CASE Starting(i) /\ j.pc = "init_register"
    BY <1>1, <1>5, <1>6, <1>9, <2>1 DEF MainAgrees, Starting, Polling, Up
  <2>2. CASE Starting(i) /\ j.pc = "loop"
    <3>1. p = q /\ Silent(q) /\ m.pc \notin {"startup", "loop", "off", "sync"}
      BY <1>1, <1>4, <1>6, <1>9, <2>2 DEF MainAgrees, Starting
    <3>2. Tells(p, j.ha_status, j.ha_status)
      BY <3>1 DEF Tells
    <3> QED  BY <1>1, <1>5, <1>6, <2>2, <3>1, <3>2 DEF MainAgrees, Starting, Polling, Up
  <2>3. CASE j.pc = "paused" /\ j.ha_status = "error"
    BY <1>1, <1>4, <1>5, <1>6, <2>3 DEF MainAgrees, Starting, Polling, Up
  <2>4. CASE /\ Polling(i) /\ Polling(j)
             /\ j.pc \in {"create", "register"} => j.tick = TRUE
             /\ \/ j.ha_status = i.ha_status
                \/ j.ha_status \in {"active", "standby"} /\ TickEnds(s)
    <3>1. /\ m.pc = "getstatus" => Tells(q, i.ha_status, i.ha_status)
          /\ m.pc \in {"startup", "loop"} => Tells(q, m.ha_status, i.ha_status)
          /\ m.pc = "startup" => i.ha_status # "unknown" /\ m.ha_status_old = "active"
      BY <1>1, <2>4 DEF MainAgrees
    <3>2. /\ m.pc = "getstatus" => Tells(p, j.ha_status, j.ha_status)
          /\ m.pc \in {"startup", "loop"} => Tells(p, m.ha_status, j.ha_status)
      <4>1. CASE j.ha_status = i.ha_status
        BY <1>6, <3>1, <4>1
      <4>2. CASE j.ha_status # i.ha_status
        BY <1>6, <1>10, <2>4, <4>2
      <4> QED  BY <4>1, <4>2
    <3>3. m.pc = "startup" => j.ha_status # "unknown"
      BY <2>4, <3>1
    <3>4. ~Starting(j) /\ j.pc \notin {"stopping", "paused", "off"}
      BY <2>4 DEF Polling, Starting
    <3> QED  BY <1>1, <1>4, <1>5, <1>6, <2>4, <3>1, <3>2, <3>3, <3>4 DEF MainAgrees
  <2>5. CASE /\ i.pc = "paused" /\ j.pc = "paused"
             /\ i.ha_status = "error" => j.ha_status = "error"
    BY <1>1, <1>4, <1>5, <1>6, <2>5 DEF MainAgrees, Starting, Polling, Up
  <2>6. CASE i.pc = "stopping" /\ j.pc = "off"
    BY <1>1, <1>5, <1>6, <2>6 DEF MainAgrees, Starting, Polling, Up
  <2> QED  BY <1>4, <2>1, <2>2, <2>3, <2>4, <2>5, <2>6 DEF Turned
<1> QED  BY <1>1, <1>2, <1>4, <1>7, <1>8, <1>11 DEF AgreeMoves

(* A manager that is started in standby status agrees with a main process  *)
(* that takes it for standby.                                              *)
LEMMA RestartedAgrees ==
  ASSUME Agreeing, AnsweringCluster, NEW s \in Servers, RestartManager(s), rtc'[s] = <<>>,
         main'[s].pc = "loop", main'[s].ha_status = "standby",
         PollPeriod < main'[s].ha_failover_delay
  PROVE  /\ settings' = settings /\ \A t \in Servers \ {s} : info'[t] = info[t]
         /\ MainAgrees(main'[s], info'[s], rtc'[s])
<1> DEFINE j == StartedInfo("standby")
<1>1. /\ DOMAIN info = Servers /\ PollPeriod < DefaultDelay
      /\ info' = [info EXCEPT ![s] = j] /\ settings' = settings
  BY AgreeFacts DEF AnsweringCluster, RestartManager, registry
<1>2. j.pc = "loop" /\ j.ha_status = "standby" /\ j.failover_delay = DefaultDelay
  BY DEF StartedInfo
<1> HIDE DEF j
<1>3. info'[s] = j /\ \A t \in Servers \ {s} : info'[t] = info[t]
  BY <1>1
<1>4. MainAgrees(main'[s], j, <<>>)
  BY <1>1, <1>2, NothingTold DEF MainAgrees, Polling, Starting, Up
<1> QED  BY <1>1, <1>3, <1>4

(* A server starts. *)
LEMMA StartAgrees ==
  ASSUME Agreeing, AnsweringCluster, NEW s \in Servers, MainStart(s)
  PROVE  AgreeMoves(s)
<1> DEFINE started == [OffMain EXCEPT !.pc = "getstatus"]
           j == StartedInfo("unknown")
<1>1. /\ started \in Main /\ started.pc = "getstatus"
      /\ started.ha_failover_delay = DefaultDelay
  BY ConfigAssumption DEF OffMain, Main, MainPhases, Statuses
<1>2. j.pc = "init_create" /\ j.failover_delay = DefaultDelay
  BY DEF StartedInfo
<1>3. /\ main' = [main EXCEPT ![s] = started] /\ rtc' = [rtc EXCEPT ![s] = <<>>]
      /\ info' = [info EXCEPT ![s] = j] /\ settings' = settings
  BY DEF MainStart, SetMain, StartServer
<1>4. /\ main \in [Servers -> Main] /\ rtc \in [Servers -> Seq(Message)]
      /\ DOMAIN info = Servers /\ PollPeriod < settings /\ PollPeriod < DefaultDelay
  BY AgreeFacts DEF AnsweringCluster
<1> HIDE DEF started, j
<1>5. /\ main'[s] = started /\ rtc'[s] = <<>> /\ info'[s] = j
      /\ main' \in [Servers -> Main] /\ rtc' \in [Servers -> Seq(Message)]
      /\ \A t \in Servers \ {s} : main'[t] = main[t] /\ rtc'[t] = rtc[t] /\ info'[t] = info[t]
  BY <1>1, <1>3, <1>4, NoMessages
<1>6. MainAgrees(started, j, <<>>)
  BY <1>1, <1>2, <1>4, NothingTold DEF MainAgrees, Polling, Starting, Up
<1> QED  BY <1>3, <1>4, <1>5, <1>6 DEF AgreeMoves

(* The answer of a manager to a request of its main process. *)
LEMMA ToldAgrees ==
  ASSUME Agreeing, AnsweringCluster, NEW s \in Servers, Up(main[s]), NEW status, Told(s, status)
  PROVE  /\ status = info[s].ha_status
         /\ status # "error" => Polling(info[s])
<1>1. Answers(s) /\ status = info[s].ha_status
  BY DEF Told, AnsweringCluster
<1>2. info[s].pc = "loop" \/ (info[s].pc = "paused" /\ info[s].ha_status = "error")
  BY <1>1, AgreeFacts DEF Answers, Receives, MainAgrees
<1> QED  BY <1>1, <1>2 DEF Polling

(* The main process asks for the first status. *)
LEMMA GetStatusAgrees ==
  ASSUME Agreeing, AnsweringCluster, NEW s \in Servers, MainGetStatus(s)
  PROVE  AgreeMoves(s)
<1> DEFINE m == main[s]
           m1 == main'[s]
           i == info[s]
           q == rtc[s]
<1>1. /\ m.pc = "getstatus" /\ MainAgrees(m, i, q) /\ Up(m) /\ ClusterType
      /\ rtc \in [Servers -> Seq(Message)] /\ PollPeriod < settings
  BY AgreeFacts DEF MainGetStatus, Up, Agreeing
<1>2. /\ main' \in [Servers -> Main] /\ UNCHANGED <<vars, rtc>>
      /\ \A t \in Servers \ {s} : main'[t] = main[t]
      /\ ToldDelay(s, m1.ha_failover_delay)
      /\ \/ m1.pc = "exit"
         \/ /\ m1.pc = "startup" /\ Told(s, "active")
            /\ m1.ha_status = "active" /\ m1.ha_status_old = "active"
         \/ /\ m1.pc = "loop" /\ Told(s, m1.ha_status)
            /\ m1.ha_status \in {"standby", "unknown"}
  BY <1>1, GetStatusTurns
<1>3. info' = info /\ rtc' = rtc /\ settings' = settings
  BY <1>2 DEF vars
<1>4. PollPeriod < m1.ha_failover_delay
  BY <1>1, <1>2 DEF ToldDelay, MainAgrees
<1>5. m1.pc \in {"startup", "loop"} =>
        /\ m1.ha_status = i.ha_status /\ Polling(i)
        /\ m1.ha_status = "active" => m1.pc = "startup" /\ m1.ha_status_old = "active"
        /\ m1.pc = "startup" => m1.ha_status = "active"
  BY <1>1, <1>2, ToldAgrees
<1>6. MainAgrees(m1, i, q)
  <2> HIDE DEF m, m1, i, q
  <2>1. CASE m1.pc = "exit"
    BY <1>1, <1>4, <2>1 DEF MainAgrees, Starting, Polling, Up
  <2>2. CASE m1.pc \in {"startup", "loop"}
    <3>1. Tells(q, m1.ha_status, i.ha_status) /\ ~Starting(i)
      BY <1>1, <1>5, <2>2 DEF MainAgrees, Polling, Starting
    <3> QED  BY <1>1, <1>4, <1>5, <2>2, <3>1 DEF MainAgrees, Up
  <2> QED  BY <1>2, <2>1, <2>2
<1> QED  BY <1>1, <1>2, <1>3, <1>6 DEF AgreeMoves

(* It has started its processes. *)
LEMMA StartedAgrees ==
  ASSUME Agreeing, AnsweringCluster, NEW s \in Servers, MainStarted(s)
  PROVE  AgreeMoves(s)
<1> DEFINE m == main[s]
           m1 == main'[s]
           i == info[s]
           q == rtc[s]
<1>1. /\ m.pc = "startup" /\ MainAgrees(m, i, q) /\ Up(m) /\ ClusterType
      /\ PollPeriod < settings
  BY AgreeFacts DEF MainStarted, Up, Agreeing
<1>2. /\ main' \in [Servers -> Main] /\ rtc' \in [Servers -> Seq(Message)]
      /\ \A t \in Servers \ {s} : main'[t] = main[t] /\ rtc'[t] = rtc[t]
      /\ ToldDelay(s, m1.ha_failover_delay)
      /\ \/ m1.pc = "exit" /\ UNCHANGED <<vars, rtc>>
         \/ /\ m1.pc = "loop" /\ Told(s, "active")
            /\ m1.ha_status = "active" /\ m1.ha_status_old = m.ha_status_old
            /\ UNCHANGED <<vars, rtc>>
         \/ /\ RestartManager(s) /\ rtc'[s] = <<>>
            /\ m1.pc = "loop" /\ Told(s, m1.ha_status)
            /\ m1.ha_status \in {"standby", "unknown"}
  BY <1>1, StartedTurns
<1>3. PollPeriod < m1.ha_failover_delay
  BY <1>1, <1>2 DEF ToldDelay, MainAgrees
<1>4. CASE m1.pc = "exit" /\ UNCHANGED <<vars, rtc>>
  <2>1. info' = info /\ rtc' = rtc /\ settings' = settings
    BY <1>4 DEF vars
  <2>2. MainAgrees(m1, i, q)
    <3> HIDE DEF m, m1, i, q
    <3> QED  BY <1>1, <1>3, <1>4 DEF MainAgrees, Starting, Polling, Up
  <2> QED  BY <1>1, <1>2, <2>1, <2>2 DEF AgreeMoves
<1>5. CASE /\ m1.pc = "loop" /\ Told(s, "active")
           /\ m1.ha_status = "active" /\ m1.ha_status_old = m.ha_status_old
           /\ UNCHANGED <<vars, rtc>>
  <2>1. info' = info /\ rtc' = rtc /\ settings' = settings
    BY <1>5 DEF vars
  <2>2. i.ha_status = "active" /\ Polling(i)
    BY <1>1, <1>5, ToldAgrees
  <2>3. MainAgrees(m1, i, q)
    <3> HIDE DEF m, m1, i, q
    <3>1. Tells(q, m1.ha_status, i.ha_status) /\ ~Starting(i)
      BY <1>1, <1>5, <2>2 DEF MainAgrees, Polling, Starting, Tells
    <3> QED  BY <1>1, <1>3, <1>5, <2>2, <3>1 DEF MainAgrees, Up
  <2> QED  BY <1>1, <1>2, <2>1, <2>3 DEF AgreeMoves
<1>6. CASE /\ RestartManager(s) /\ rtc'[s] = <<>>
           /\ m1.pc = "loop" /\ Told(s, m1.ha_status)
           /\ m1.ha_status \in {"standby", "unknown"}
  <2>1. m1.ha_status = i.ha_status /\ Polling(i)
    BY <1>1, <1>6, ToldAgrees
  <2>2. m1.ha_status = "standby"
    BY <1>1, <1>6, <2>1 DEF MainAgrees
  <2>3. /\ settings' = settings /\ \A t \in Servers \ {s} : info'[t] = info[t]
        /\ MainAgrees(m1, info'[s], rtc'[s])
    BY <1>3, <1>6, <2>2, RestartedAgrees
  <2> QED  BY <1>1, <1>2, <2>3 DEF AgreeMoves
<1> QED  BY <1>2, <1>4, <1>5, <1>6

(* One turn of the main loop. *)
LEMMA LoopAgrees ==
  ASSUME Agreeing, AnsweringCluster, NEW s \in Servers, MainLoop(s)
  PROVE  AgreeMoves(s)
<1> DEFINE m == main[s]
           m1 == main'[s]
           i == info[s]
           q == rtc[s]
           q1 == rtc'[s]
           r == Received(s)
<1>1. /\ m.pc = "loop" /\ MainAgrees(m, i, q) /\ Up(m) /\ ClusterType
      /\ PollPeriod < settings /\ q \in Seq(Message)
      /\ now \in Nat /\ PollPeriod \in Nat \ {0}
  BY AgreeFacts DEF MainLoop, Up, Agreeing
<1>2. /\ main' \in [Servers -> Main] /\ rtc' \in [Servers -> Seq(Message)]
      /\ \A t \in Servers \ {s} : main'[t] = main[t] /\ rtc'[t] = rtc[t]
      /\ m1.ha_failover_delay = r.ha_failover_delay
      /\ \/ TurnExits(s) \/ TurnRestarts(s) \/ TurnStays(s) \/ TurnStarts(s)
         \/ TurnTearsDown(s)
  BY <1>1, LoopTurns
<1>3. /\ PollPeriod < r.ha_failover_delay /\ r.ha_failover_delay \in Nat
      /\ \/ q = <<>> /\ r.ha_status = m.ha_status
         \/ /\ q # <<>>
            /\ r.ha_status = (IF Head(q).code = "status" THEN Head(q).status ELSE m.ha_status)
      /\ r.ha_status = "active" =>
           r.ha_status = m.ha_status \/ (r.last_hb = now /\ ~TimedOut(s, r))
  <2>1. /\ r \in Main
        /\ \/ q = <<>> /\ r = m
           \/ /\ q # <<>>
              /\ \/ /\ Head(q) = Heartbeat /\ r.ha_status = m.ha_status
                    /\ r.ha_failover_delay = m.ha_failover_delay
                 \/ /\ Head(q) \in [code : {"status"}, status : Statuses, delay : Nat]
                    /\ r.ha_status = Head(q).status /\ r.ha_failover_delay = Head(q).delay
                    /\ r.last_hb = IF Head(q).status \notin {m.ha_status, "error"}
                                     THEN now ELSE m.last_hb
    BY <1>1, ReceivedFacts
  <2>2. Heartbeat.code # "status" /\ PollPeriod < m.ha_failover_delay
    BY <1>1 DEF Heartbeat, MainAgrees
  <2>3. ASSUME q # <<>> PROVE Head(q).code = "status" => PollPeriod < Head(q).delay
    BY <1>1, <2>3, TailPatient DEF MainAgrees
  <2> HIDE DEF r, m, q
  <2>4. PollPeriod < r.ha_failover_delay /\ r.ha_failover_delay \in Nat
    BY <2>1, <2>2, <2>3 DEF Main
  <2>5. r.last_hb = now => ~TimedOut(s, r)
    BY <1>1, <2>4 DEF TimedOut
  <2> QED  BY <2>1, <2>2, <2>4, <2>5
<1>4. TurnExits(s) \/ TurnStays(s) \/ TurnStarts(s) =>
        /\ info' = info /\ settings' = settings /\ PatientMessages(q1)
        /\ Polling(i) => Tells(q1, r.ha_status, i.ha_status)
  <2> SUFFICES ASSUME TurnExits(s) \/ TurnStays(s) \/ TurnStarts(s)
               PROVE  /\ info' = info /\ settings' = settings /\ PatientMessages(q1)
                      /\ Polling(i) => Tells(q1, r.ha_status, i.ha_status)
    OBVIOUS
  <2>1. info' = info /\ settings' = settings
    BY DEF TurnExits, TurnStays, TurnStarts, vars
  <2>2. q1 = IF q = <<>> THEN <<>> ELSE Tail(q)
    BY DEF TurnExits, TurnStays, TurnStarts, Rest
  <2>3. PatientMessages(q) /\ (Polling(i) => Tells(q, m.ha_status, i.ha_status))
    BY <1>1 DEF MainAgrees
  <2> HIDE DEF m, i, q, q1, r
  <2>4. CASE q = <<>>
    BY <1>3, <2>1, <2>2, <2>3, <2>4
  <2>5. CASE q # <<>>
    BY <1>1, <1>3, <2>1, <2>2, <2>3, <2>5, ReceiveTells, TailPatient
  <2> QED  BY <2>4, <2>5
<1>5. r.ha_status = "active" /\ m.ha_status_old # "active" => ~TimedOut(s, r)
  <2>1. m.ha_status = "active" => m.ha_status_old = "active"
    BY <1>1 DEF MainAgrees
  <2> HIDE DEF r, m
  <2> QED  BY <1>3, <2>1
<1>6. PollPeriod < m1.ha_failover_delay /\ ~Starting(i)
  BY <1>1, <1>2, <1>3 DEF MainAgrees
<1>7. CASE TurnExits(s)
  <2>1. m1.pc = "exit"
    BY <1>7 DEF TurnExits
  <2>2. MainAgrees(m1, i, q1)
    <3> HIDE DEF m, m1, i, q1, q
    <3> QED  BY <1>1, <1>4, <1>6, <1>7, <2>1 DEF MainAgrees, Up
  <2> QED  BY <1>1, <1>2, <1>4, <1>7, <2>2 DEF AgreeMoves
<1>8. CASE TurnStays(s)
  <2>1. m1.pc = "loop" /\ m1.ha_status_old = m.ha_status_old
    BY <1>8 DEF TurnStays
  <2>2. m1.ha_status = r.ha_status /\ r.ha_status \in {"unknown", m.ha_status_old}
    BY <1>5, <1>8 DEF TurnStays
  <2>3. MainAgrees(m1, i, q1)
    <3> HIDE DEF m, m1, i, q1, q, r
    <3> QED  BY <1>1, <1>4, <1>6, <1>8, <2>1, <2>2 DEF MainAgrees, Up
  <2> QED  BY <1>1, <1>2, <1>4, <1>8, <2>3 DEF AgreeMoves
<1>9. CASE TurnStarts(s)
  <2>1. /\ m1.pc = "startup" /\ m1.ha_status = "active" /\ m1.ha_status_old = "active"
        /\ r.ha_status = "active"
    BY <1>9 DEF TurnStarts
  <2>2. Polling(i) => i.ha_status # "unknown"
    BY <1>4, <1>9, <2>1, KnownTold
  <2>3. MainAgrees(m1, i, q1)
    <3> HIDE DEF m, m1, i, q1, q, r
    <3> QED  BY <1>1, <1>4, <1>6, <1>9, <2>1, <2>2 DEF MainAgrees, Up
  <2> QED  BY <1>1, <1>2, <1>4, <1>9, <2>3 DEF AgreeMoves
<1>10. CASE TurnRestarts(s) \/ TurnTearsDown(s)
  <2>1. /\ RestartManager(s) /\ q1 = <<>> /\ m1.pc = "loop" /\ m1.ha_status = "standby"
    BY <1>10 DEF TurnRestarts, TurnTearsDown
  <2>2. /\ settings' = settings /\ \A t \in Servers \ {s} : info'[t] = info[t]
        /\ MainAgrees(m1, info'[s], q1)
    BY <1>6, <2>1, RestartedAgrees
  <2> QED  BY <1>1, <1>2, <2>2 DEF AgreeMoves
<1> QED  BY <1>2, <1>7, <1>8, <1>9, <1>10

(* What an exit makes of the manager and of its messages. *)
LEMMA ExitEnds ==
  ASSUME Agreeing, NEW s \in Servers,
         \/ MainPause(s) \/ MainStop(s) \/ MainSync(s) \/ MainExited(s) \/ MainSignal(s)
         \/ ServerCrash(s)
  PROVE  /\ settings' = settings /\ rtc'[s] \in {rtc[s], <<>>}
         /\ \A t \in Servers \ {s} : info'[t] = info[t]
         /\ \/ info'[s] = info[s]
            \/ /\ info'[s].pc \in {"paused", "stopping", "off"}
               /\ info'[s].failover_delay \in {info[s].failover_delay, DefaultDelay}
         /\ main'[s].pc = "sync" => info'[s].pc = "off"
         /\ main[s].pc = "sync" => info'[s] = info[s] \/ info'[s].pc = "off"
<1>1. /\ main \in [Servers -> Main] /\ main[s] \in Main /\ DOMAIN info = Servers
      /\ info[s] \in Info /\ rtc \in [Servers -> Seq(Message)]
  BY DEF Agreeing, ClusterType, TypeInv, TypeOK
<1>2. OffInfo.pc = "off" /\ OffInfo.failover_delay = DefaultDelay
  BY DEF OffInfo, StartedInfo
<1>3. ASSUME NEW o \in Outcomes, Stop(s, o)
      PROVE  /\ settings' = settings /\ \A t \in Servers \ {s} : info'[t] = info[t]
             /\ info'[s].pc = "stopping" /\ info'[s].failover_delay = info[s].failover_delay
  BY <1>1, <1>3 DEF Stop, Info
<1>4. ASSUME Pause(s)
      PROVE  /\ settings' = settings /\ \A t \in Servers \ {s} : info'[t] = info[t]
             /\ info'[s].pc = "paused" /\ info'[s].failover_delay = info[s].failover_delay
  BY <1>1, <1>4 DEF Pause, Info, registry
<1>5. ASSUME KillManager(s)
      PROVE  /\ settings' = settings /\ \A t \in Servers \ {s} : info'[t] = info[t]
             /\ info'[s] = OffInfo
  BY <1>1, <1>5 DEF KillManager, registry
<1>6. UNCHANGED vars => settings' = settings /\ info' = info
  BY DEF vars
<1>7. CASE MainPause(s) \/ MainStop(s)
  <2>1. /\ Pause(s) \/ KillManager(s) \/ (\E o \in Outcomes : Stop(s, o)) \/ UNCHANGED vars
        /\ rtc' = rtc
    BY <1>7 DEF MainPause, MainStop
  <2>2. main'[s].pc # "sync" /\ main[s].pc # "sync"
    <3> DEFINE m == IF main[s].pc = "exit" THEN [main[s] EXCEPT !.pc = "wait"]
                    ELSE [main[s] EXCEPT !.pc = "stop", !.children = FALSE]
    <3>1. m.pc \in {"wait", "stop"}
      BY <1>1 DEF Main
    <3>2. SetMain(s, m) /\ main[s].pc # "sync"
      BY <1>7 DEF MainPause, MainStop
    <3> HIDE DEF m
    <3> QED  BY <1>1, <3>1, <3>2 DEF SetMain
  <2> QED  BY <1>2, <1>3, <1>4, <1>5, <1>6, <2>1, <2>2
<1>8. CASE MainSync(s)
  BY <1>6, <1>8 DEF MainSync
<1>9. CASE MainExited(s) \/ MainSignal(s)
  <2>1. UNCHANGED vars /\ rtc' = rtc
    BY <1>9 DEF MainExited, MainSignal
  <2>2. main'[s].pc # "sync"
    <3>1. OffMain.pc = "off" /\ [main[s] EXCEPT !.pc = "exit", !.command = 0].pc = "exit"
      BY <1>1 DEF OffMain, Main
    <3> QED  BY <1>1, <1>9, <3>1 DEF MainExited, MainSignal, SetMain
  <2> QED  BY <1>6, <2>1, <2>2
<1>10. CASE ServerCrash(s)
  <2>1. /\ rtc' = [rtc EXCEPT ![s] = <<>>] /\ main' = [main EXCEPT ![s] = OffMain]
        /\ KillManager(s) \/ UNCHANGED vars
    BY <1>10 DEF ServerCrash, SetMain
  <2>2. OffMain.pc = "off"
    BY DEF OffMain
  <2> QED  BY <1>1, <1>2, <1>5, <1>6, <2>1, <2>2
<1> QED  BY <1>7, <1>8, <1>9, <1>10

(* An exit; what main and manager think of each other no longer matters. *)
LEMMA ExitAgrees ==
  ASSUME Agreeing, AnsweringCluster, NEW s \in Servers,
         \/ MainPause(s) \/ MainStop(s) \/ MainSync(s) \/ MainExited(s) \/ MainSignal(s)
         \/ ServerCrash(s)
  PROVE  AgreeMoves(s)
<1> DEFINE m == main[s]
           m1 == main'[s]
           i == info[s]
           j == info'[s]
           q == rtc[s]
           q1 == rtc'[s]
<1>1. /\ MainAgrees(m, i, q) /\ ClusterType
      /\ PollPeriod < settings /\ PollPeriod < DefaultDelay
  BY AgreeFacts DEF Agreeing, AnsweringCluster
<1>2. /\ main' \in [Servers -> Main] /\ rtc' \in [Servers -> Seq(Message)]
      /\ \A t \in Servers \ {s} : main'[t] = main[t] /\ rtc'[t] = rtc[t]
      /\ m1.pc \in {"off", "exit", "wait", "stop", "sync"}
      /\ m1.ha_failover_delay \in {m.ha_failover_delay, DefaultDelay}
      /\ m1.pc = "off" => j.pc = "off" \/ m.pc = "sync"
  BY <1>1, ExitTurns
<1>3. /\ settings' = settings /\ q1 \in {q, <<>>}
      /\ \A t \in Servers \ {s} : info'[t] = info[t]
      /\ \/ j = i
         \/ /\ j.pc \in {"paused", "stopping", "off"}
            /\ j.failover_delay \in {i.failover_delay, DefaultDelay}
      /\ m1.pc = "sync" => j.pc = "off"
      /\ m.pc = "sync" => j = i \/ j.pc = "off"
  BY ExitEnds
<1>4. MainAgrees(m1, j, q1)
  <2> HIDE DEF m, m1, i, j, q, q1
  <2>1. /\ PollPeriod < m1.ha_failover_delay /\ PollPeriod < j.failover_delay
        /\ PatientMessages(q1) /\ (Silent(q) => Silent(q1))
    BY <1>1, <1>2, <1>3, NothingTold DEF MainAgrees
  <2>2. /\ j.pc \in {"create", "register"} => j.tick = TRUE
        /\ Starting(j) => Silent(q)
    BY <1>1, <1>3 DEF MainAgrees, Starting
  <2>3. m1.pc \in {"off", "sync"} => j.pc = "off"
    BY <1>1, <1>2, <1>3 DEF MainAgrees
  <2> QED  BY <1>2, <2>1, <2>2, <2>3 DEF MainAgrees, Up
<1> QED  BY <1>1, <1>2, <1>3, <1>4 DEF AgreeMoves

(* The manager dies. *)
LEMMA CrashAgrees ==
  ASSUME Agreeing, AnsweringCluster, NEW s \in Servers, ManagerCrash(s)
  PROVE  AgreeMoves(s)
<1> DEFINE m == main[s]
           q == rtc[s]
<1>1. /\ MainAgrees(m, info[s], q) /\ DOMAIN info = Servers
      /\ main \in [Servers -> Main] /\ rtc \in [Servers -> Seq(Message)]
      /\ PollPeriod < settings /\ PollPeriod < DefaultDelay
  BY AgreeFacts DEF AnsweringCluster
<1>2. /\ info' = [info EXCEPT ![s] = OffInfo] /\ settings' = settings
      /\ main' = main /\ rtc' = rtc
  BY DEF ManagerCrash, KillManager, registry
<1>3. OffInfo.pc = "off" /\ OffInfo.failover_delay = DefaultDelay
  BY DEF OffInfo, StartedInfo
<1>4. info'[s] = OffInfo /\ \A t \in Servers \ {s} : info'[t] = info[t]
  BY <1>1, <1>2
<1>5. MainAgrees(m, OffInfo, q)
  <2> HIDE DEF m, q
  <2> QED  BY <1>1, <1>3 DEF MainAgrees, Polling, Starting
<1> QED  BY <1>1, <1>2, <1>4, <1>5 DEF AgreeMoves

(* The operator asks for the removal of a node. *)
LEMMA RemoveAgrees ==
  ASSUME Agreeing, AnsweringCluster, NEW s \in Servers, MainRemoveNode(s)
  PROVE  AgreeMoves(s)
<1> DEFINE m == main[s]
           i == info[s]
           j == info'[s]
           q == rtc[s]
           m1 == [m EXCEPT !.command = now]
<1>1. /\ MainAgrees(m, i, q) /\ m.pc = "loop" /\ m \in Main /\ i \in Info /\ now \in Nat
      /\ DOMAIN info = Servers /\ main \in [Servers -> Main]
      /\ rtc \in [Servers -> Seq(Message)] /\ PollPeriod < settings
  BY AgreeFacts DEF MainRemoveNode
<1>2. PICK n \in Names, o \in Outcomes : RemoveNodeCheck(s, n, o)
  BY DEF MainRemoveNode
<1>3. /\ SetMain(s, m1) /\ rtc' = rtc /\ settings' = settings
  BY <1>2 DEF MainRemoveNode, RemoveNodeCheck, registry
<1>4. /\ i.pc = "loop" /\ \A t \in Servers \ {s} : info'[t] = info[t]
      /\ j.failover_delay = i.failover_delay
      /\ \/ j.pc \in {"loop", "remove"} /\ j.ha_status = i.ha_status
         \/ j.pc = "paused" /\ j.ha_status = "error"
  <2> DEFINE k == [i EXCEPT !.db_status = DbStatus(o)]
             asked == [k EXCEPT !.pc = "remove", !.removing = ha_node[n].nodeid]
             ends == [Failed(k) EXCEPT !.pc = "paused"]
  <2>1. Receives(s) /\ i.pc = "loop"
    BY <1>2 DEF RemoveNodeCheck, Receives
  <2>2. /\ k.pc = "loop" /\ k.ha_status = i.ha_status /\ k.failover_delay = i.failover_delay
        /\ asked.pc = "remove" /\ asked.ha_status = i.ha_status
        /\ asked.failover_delay = i.failover_delay
        /\ ends.pc = "paused" /\ ends.ha_status = "error"
        /\ ends.failover_delay = i.failover_delay
    BY <1>1, <2>1 DEF Info, Failed
  <2>3. \/ info' = [info EXCEPT ![s] = k]
        \/ info' = [info EXCEPT ![s] = asked]
        \/ info' = [info EXCEPT ![s] = ends]
    BY <1>2 DEF RemoveNodeCheck
  <2> HIDE DEF k, asked, ends
  <2> QED  BY <1>1, <2>1, <2>2, <2>3
<1>5. /\ m1 \in Main /\ m1.pc = m.pc /\ m1.ha_status = m.ha_status
      /\ m1.ha_status_old = m.ha_status_old /\ m1.ha_failover_delay = m.ha_failover_delay
  BY <1>1 DEF Main
<1> HIDE DEF m1
<1>6. main'[s] = m1 /\ main' \in [Servers -> Main] /\ \A t \in Servers \ {s} : main'[t] = main[t]
  BY <1>1, <1>3, <1>5 DEF SetMain
<1>7. MainAgrees(m1, j, q)
  <2> HIDE DEF m, i, j, q
  <2>1. Up(m) <=> Up(m1)
    BY <1>5 DEF Up
  <2> QED  BY <1>1, <1>4, <1>5, <2>1 DEF MainAgrees, Polling, Starting
<1> QED  BY <1>1, <1>3, <1>4, <1>6, <1>7 DEF AgreeMoves

(* The operator changes the failover delay. *)
LEMMA DelayAgrees ==
  ASSUME Agreeing, AnsweringCluster, TypeInv', NEW s \in Servers, MainSetFailoverDelay(s)
  PROVE  AgreeMoves(s)
<1> DEFINE m == main[s]
           i == info[s]
           j == info'[s]
           q == rtc[s]
           told == StatusUpdate(j)
           p == Send(q, told)
<1>1. /\ MainAgrees(m, i, q) /\ m.pc = "loop" /\ m.ha_status = "active" /\ i \in Info
      /\ DOMAIN info = Servers /\ main \in [Servers -> Main] /\ q \in Seq(Message)
      /\ rtc \in [Servers -> Seq(Message)] /\ PollPeriod < settings
  BY AgreeFacts DEF MainSetFailoverDelay
<1>2. PICK d \in Delays \ {settings}, o \in Outcomes : SetFailoverDelay(s, d, o)
  BY DEF MainSetFailoverDelay
<1>3. main' = main /\ rtc' = [rtc EXCEPT ![s] = p] /\ PollPeriod < d
  BY DEF MainSetFailoverDelay, AnsweringCluster
<1>4. /\ settings' \in {settings, d} /\ i.pc = "loop"
      /\ \A t \in Servers \ {s} : info'[t] = info[t]
      /\ j.failover_delay \in {i.failover_delay, d}
      /\ j.pc = "loop" /\ j.ha_status = i.ha_status
  BY <1>1, <1>2 DEF SetFailoverDelay, Receives, Info
<1>5. j \in Info
  BY DEF TypeInv, TypeOK
<1>6. /\ told \in Message /\ told.code = "status" /\ told.status = j.ha_status
      /\ told.delay = j.failover_delay
  BY <1>5 DEF StatusUpdate, Message, Info
<1>7. Polling(i) /\ Polling(j) /\ ~Starting(j)
  BY <1>4 DEF Polling, Starting
<1>8. PollPeriod < j.failover_delay
  BY <1>1, <1>3, <1>4 DEF MainAgrees
<1>9. i.ha_status # "unknown"
  BY <1>1, <1>7, KnownTold DEF MainAgrees
<1> HIDE DEF told
<1>10. /\ p \in Seq(Message) /\ PatientMessages(p) /\ Tells(p, m.ha_status, j.ha_status)
  <2>1. p \in Seq(Message)
    BY <1>1, <1>6, SendMessages
  <2>2. PatientMessages(q)
    BY <1>1 DEF MainAgrees
  <2> QED  BY <1>1, <1>4, <1>6, <1>8, <1>9, <2>1, <2>2, SendTells
<1> HIDE DEF p
<1>11. /\ rtc'[s] = p /\ rtc' \in [Servers -> Seq(Message)]
       /\ \A t \in Servers \ {s} : rtc'[t] = rtc[t]
  BY <1>1, <1>3, <1>10
<1>12. MainAgrees(m, j, p)
  <2> HIDE DEF m, i, j, q
  <2> QED  BY <1>1, <1>4, <1>7, <1>8, <1>10 DEF MainAgrees, Up
<1> QED  BY <1>1, <1>3, <1>4, <1>11, <1>12 DEF AgreeMoves

(* A second passes. *)
LEMMA TickAgrees ==
  ASSUME Agreeing, AnsweringCluster, ClusterTick
  PROVE  AgreeInv' /\ main' \in [Servers -> Main] /\ rtc' = rtc
<1>1. /\ main' = [s \in Servers |-> [main[s] EXCEPT !.polled = FALSE]]
      /\ rtc' = rtc /\ settings' = settings
      /\ info' = [s \in Servers |->
                    IF info[s].pc = "off" THEN info[s] ELSE [info[s] EXCEPT !.tick = TRUE]]
  BY DEF ClusterTick, Tick, registry
<1>2. ASSUME NEW s \in Servers
      PROVE  main'[s] \in Main /\ MainAgrees(main'[s], info'[s], rtc'[s])
  <2> DEFINE m == main[s]
             m1 == [m EXCEPT !.polled = FALSE]
             i == info[s]
             j == IF i.pc = "off" THEN i ELSE [i EXCEPT !.tick = TRUE]
             q == rtc[s]
  <2>1. m \in Main /\ i \in Info /\ MainAgrees(m, i, q)
    BY AgreeFacts
  <2>2. /\ m1 \in Main /\ m1.pc = m.pc /\ m1.ha_status = m.ha_status
        /\ m1.ha_status_old = m.ha_status_old /\ m1.ha_failover_delay = m.ha_failover_delay
    BY <2>1 DEF Main
  <2>3. /\ j.pc = i.pc /\ j.ha_status = i.ha_status /\ j.failover_delay = i.failover_delay
        /\ i.pc # "off" => j.tick = TRUE
    BY <2>1 DEF Info
  <2>4. main'[s] = m1 /\ info'[s] = j /\ rtc'[s] = q
    BY <1>1
  <2> HIDE DEF m, m1, i, j, q
  <2>5. MainAgrees(m1, j, q)
    <3>1. (Up(m) <=> Up(m1)) /\ (Polling(i) <=> Polling(j)) /\ (Starting(i) <=> Starting(j))
      BY <2>2, <2>3 DEF Up, Polling, Starting
    <3> QED  BY <2>1, <2>2, <2>3, <3>1 DEF MainAgrees
  <2> QED  BY <2>2, <2>4, <2>5
<1>3. main' \in [Servers -> Main]
  <2>1. \A s \in Servers : [main[s] EXCEPT !.polled = FALSE] \in Main
    BY <1>1, <1>2, Zenon
  <2> QED  BY <1>1, <2>1, Zenon
<1>4. PollPeriod < settings'
  BY <1>1 DEF Agreeing, AgreeInv
<1> QED  BY <1>1, <1>2, <1>3, <1>4 DEF AgreeInv

---------------------------------------------------------------------------
(* The theorem about main and manager. *)

LEMMA AgreeStep ==
  ASSUME Agreeing, AnsweringCluster, [ClusterNext]_clusterVars
  PROVE  Agreeing'
<1>1. Inv' /\ TypeInv'
  BY ClusterInv DEF Agreeing, Inv
<1>2. ASSUME NEW s \in Servers, AgreeMoves(s) PROVE Agreeing'
  <2>1. ASSUME NEW t \in Servers PROVE MainAgrees(main'[t], info'[t], rtc'[t])
    <3>1. CASE t = s
      BY <1>2, <3>1 DEF AgreeMoves
    <3>2. CASE t # s
      <4>1. main'[t] = main[t] /\ rtc'[t] = rtc[t] /\ info'[t] = info[t]
        BY <1>2, <3>2 DEF AgreeMoves
      <4> QED  BY <4>1, AgreeFacts
    <3> QED  BY <3>1, <3>2
  <2>2. AgreeInv'
    BY <1>2, <2>1 DEF AgreeInv, AgreeMoves
  <2> QED  BY <1>1, <1>2, <2>2 DEF Agreeing, ClusterType, AgreeMoves
<1>3. CASE UNCHANGED clusterVars
  <2>1. UNCHANGED <<settings, info, main, rtc>>
    BY <1>3 DEF clusterVars, vars
  <2> QED  BY <1>1, <2>1 DEF Agreeing, ClusterType, AgreeInv
<1>4. CASE ClusterTick
  <2>1. AgreeInv' /\ main' \in [Servers -> Main] /\ rtc' = rtc
    BY <1>4, TickAgrees
  <2> QED  BY <1>1, <2>1 DEF Agreeing, ClusterType
<1>5. ASSUME NEW s \in Servers, Manager(s) PROVE AgreeMoves(s)
  BY <1>1, <1>5, ManagerAgrees
<1>6. ASSUME NEW s \in Servers, MainStep(s) PROVE AgreeMoves(s)
  BY <1>6, StartAgrees, GetStatusAgrees, StartedAgrees, LoopAgrees, ExitAgrees DEF MainStep
<1>7. ASSUME NEW s \in Servers, Interference(s) PROVE AgreeMoves(s)
  BY <1>1, <1>7, ExitAgrees, CrashAgrees, RemoveAgrees, DelayAgrees DEF Interference
<1> QED  BY <1>2, <1>3, <1>4, <1>5, <1>6, <1>7 DEF ClusterNext

LEMMA AgreeInit ==
  ASSUME AnsweringCluster
  PROVE  ClusterInit => Agreeing
<1> SUFFICES ASSUME ClusterInit PROVE Agreeing
  OBVIOUS
<1>1. Inv /\ settings = DefaultDelay
  BY InitInv DEF ClusterInit, Init
<1>2. /\ OffMain \in Main /\ OffMain.pc = "off" /\ OffMain.ha_failover_delay = DefaultDelay
  BY ConfigAssumption DEF OffMain, Main, MainPhases, Statuses
<1>3. ClusterType
  BY <1>1, <1>2, NoMessages DEF ClusterInit, ClusterType, Inv
<1>4. OffInfo.pc = "off" /\ OffInfo.failover_delay = DefaultDelay
  BY DEF OffInfo, StartedInfo
<1>5. PollPeriod < DefaultDelay
  BY DEF AnsweringCluster
<1>6. MainAgrees(OffMain, OffInfo, <<>>)
  BY <1>2, <1>4, <1>5, NothingTold DEF MainAgrees, Polling, Starting, Up
<1>7. ASSUME NEW s \in Servers
      PROVE  main[s] = OffMain /\ rtc[s] = <<>> /\ info[s] = OffInfo
  BY DEF ClusterInit, Init
<1> QED  BY <1>1, <1>3, <1>5, <1>6, <1>7 DEF Agreeing, AgreeInv

(***************************************************************************)
(* ha_update_parent and zbx_ha_dispatch_message: a main process that has   *)
(* received all messages in its loop takes its node for what the manager   *)
(* takes it for, whatever the database, the operators and the watchdog do. *)
(* The status crosses on two ways, as an answer and as a message, and a    *)
(* message that is received may be older than an answer received before.   *)
(***************************************************************************)
THEOREM StatusesAgree ==
  ASSUME AnsweringCluster
  PROVE  ClusterSpec => []StatusAgreement
<1>1. Agreeing => StatusAgreement
  <2> SUFFICES ASSUME Agreeing, NEW s \in Servers,
                      main[s].pc = "loop", info[s].pc = "loop", rtc[s] = <<>>
               PROVE  main[s].ha_status = info[s].ha_status
    BY DEF StatusAgreement
  <2>1. Tells(rtc[s], main[s].ha_status, info[s].ha_status)
    BY AgreeFacts DEF MainAgrees, Polling
  <2>2. ~LastTold(<<>>, info[s].ha_status)
    BY DEF LastTold
  <2> QED  BY <2>1, <2>2 DEF Tells
<1>2. Agreeing /\ [ClusterNext]_clusterVars => Agreeing'
  BY AgreeStep
<1> QED  BY <1>1, <1>2, AgreeInit, PTL DEF ClusterSpec

---------------------------------------------------------------------------
(* Why no other node serves while a server exits.  The row of an active    *)
(* node has the session of its server, so that a check of the manager      *)
(* never fails as long as the database works; and a manager that polls or  *)
(* is paused refreshes its row in time.                                    *)

SessionHeld(i, row, session) ==
  i.ha_status = "active" => row.session = session /\ i.ha_nodeid # 0

SessionInv ==
  \A s \in Servers : SessionHeld(info[s], ha_node[NameOf[s]], ha_sessionid[s])

(* A step leaves the session of a row as it is. *)
RowSession(n) == ha_node'[n].session = ha_node[n].session

LEMMA WrittenSession ==
  ASSUME TypeInv, NEW n \in Names, NEW status, NEW row,
         row \in {ha_node[n], Touched(n, status), MarkUnavailable(n)}, ha_node'[n] = row
  PROVE  RowSession(n)
<1>1. /\ Touched(n, status).session = ha_node[n].session
      /\ MarkUnavailable(n).session = ha_node[n].session
  BY DEF Touched, MarkUnavailable, TypeInv, TypeOK, Row
<1> QED  BY <1>1 DEF RowSession

LEMMA CheckSessions ==
  ASSUME TypeInv, NEW s \in Servers, CheckNodes(s), NEW n \in Names
  PROVE  RowSession(n)
<1>1. ASSUME ha_node' = ha_node PROVE RowSession(n)
  BY <1>1 DEF RowSession
<1>2. ASSUME NEW o \in Outcomes, CheckStandalone(s, o) PROVE RowSession(n)
  <2> DEFINE i == CheckedInfo(s, o)
  <2>1. ha_node'[n] \in {ha_node[n], Touched(n, i.ha_status)}
    BY <1>2 DEF CheckStandalone
  <2> HIDE DEF i
  <2> QED  BY <2>1, WrittenSession
<1>3. ASSUME NEW o \in Outcomes, CheckActive(s, o) PROVE RowSession(n)
  <2>1. ha_node'[n] \in {ha_node[n], Touched(n, "active"), MarkUnavailable(n)}
    BY <1>3 DEF CheckActive
  <2> QED  BY <2>1, WrittenSession
<1>4. ASSUME NEW o \in Outcomes, CheckPassive(s, o) PROVE RowSession(n)
  <2>1. ASSUME NEW i, NEW status, NEW taken, EndPassive(s, o, i, status, taken)
        PROVE  RowSession(n)
    <3>1. ha_node'[n] \in {ha_node[n], Touched(n, status), MarkUnavailable(n)}
      BY <2>1 DEF EndPassive, Passed
    <3> QED  BY <3>1, WrittenSession
  <2>2. ha_node' = ha_node \/ \E i, status, taken : EndPassive(s, o, i, status, taken)
    BY <1>4 DEF CheckPassive
  <2> QED  BY <1>1, <2>1, <2>2
<1> QED  BY <1>1, <1>2, <1>3, <1>4
         DEF CheckNodes, CheckNoDatabase, CheckError, CheckSplitBrain

LEMMA MoveSessions ==
  ASSUME Inv, NEW s \in Servers, IsCluster(s), SteadyMove(s), info[s].pc # "remove",
         NEW n \in Names \ {Standalone},
         n = NameOf[s] => \A o \in Outcomes : ~CreateNode(s, o) /\ ~RegisterNode(s, o)
  PROVE  RowSession(n)
<1>1. TypeInv /\ ha_node \in [Names -> Row]
  BY DEF Inv, TypeInv, TypeOK
<1>2. ASSUME ha_node' = ha_node PROVE RowSession(n)
  BY <1>2 DEF RowSession
<1>3. ASSUME NEW o \in Outcomes, CreateNode(s, o), n # NameOf[s] PROVE RowSession(n)
  <2>1. ha_node' = ha_node \/ ha_node' = [ha_node EXCEPT ![NameOf[s]] = NewRow(nextid)]
    BY <1>3 DEF CreateNode, registry
  <2> QED  BY <1>1, <1>3, <2>1 DEF RowSession
<1>4. ASSUME NEW o \in Outcomes, RegisterNode(s, o), n # NameOf[s] PROVE RowSession(n)
  <2>1. ~HasId(n, info[s].ha_nodeid)
    BY <1>4 DEF Inv, IdsInv, NodeidOwned
  <2>2. IsCluster(s) = (n # Standalone)
    OBVIOUS
  <2>3. ASSUME NEW status, ha_node' = Registered(s, status) PROVE RowSession(n)
    <3>1. ha_node'[n] \in {ha_node[n], MarkUnavailable(n)}
      BY <2>1, <2>2, <2>3, Zenon DEF Registered
    <3> QED  BY <1>1, <3>1, WrittenSession
  <2>4. ha_node' = ha_node \/ \E status : ha_node' = Registered(s, status)
    BY <1>4 DEF RegisterNode
  <2> QED  BY <1>2, <2>3, <2>4
<1>5. ASSUME NEW o \in Outcomes, UpdateLastaccess(s, o) \/ UpdateExitStatus(s, o)
      PROVE  RowSession(n)
  <2>1. ha_node'[n] \in {ha_node[n], [ha_node[n] EXCEPT !.lastaccess = now],
                         [ha_node[n] EXCEPT !.status = "stopped"]}
    BY <1>5 DEF UpdateLastaccess, UpdateExitStatus
  <2> QED  BY <1>1, <2>1 DEF RowSession, Row
<1>6. CASE SteadyOrder(s)
  <2>1. ha_node' = ha_node \/ \E o \in Outcomes : UpdateLastaccess(s, o)
    BY <1>6 DEF SteadyOrder, KillManager, RestartManager, Pause, Stop, RemoveNodeCheck, registry
  <2> QED  BY <1>2, <1>5, <2>1
<1>7. CASE ManagerStep(s)
  <2>1. ASSUME ManagerTick(s) \/ RegisterAgain(s) \/ PausedWait(s) PROVE RowSession(n)
    BY <1>2, <2>1 DEF ManagerTick, RegisterAgain, PausedWait, registry
  <2>2. ASSUME NEW o \in Outcomes, PausedUpdate(s, o) PROVE RowSession(n)
    BY <1>5, <2>2 DEF PausedUpdate
  <2>3. \A o \in Outcomes : ~RemoveNodeDelete(s, o)
    BY DEF RemoveNodeDelete
  <2> QED  BY <1>1, <1>3, <1>4, <1>5, <1>7, <2>1, <2>2, <2>3, CheckSessions DEF ManagerStep
<1>8. CASE StartServer(s)
  BY <1>2, <1>8 DEF StartServer
<1> QED  BY <1>6, <1>7, <1>8 DEF SteadyMove

(* A manager becomes active in a check or registration of its own row. *)
LEMMA CheckSession ==
  ASSUME Inv, Acknowledged, NEW s \in Servers, CheckNodes(s),
         SessionHeld(info[s], ha_node[NameOf[s]], ha_sessionid[s])
  PROVE  SessionHeld(info'[s], ha_node'[NameOf[s]], ha_sessionid[s])
<1> DEFINE me == NameOf[s]
           id == info[s].ha_nodeid
<1>1. /\ TypeInv /\ info[s] \in Info /\ me \in Names
      /\ \A n \in Names : ha_node[n] \in Row
  BY ConfigAssumption DEF Inv, TypeInv, TypeOK
<1>2. ha_node'[me].session = ha_node[me].session
  BY <1>1, CheckSessions DEF RowSession
<1>3. ASSUME NEW j \in Info, Resume(s, j)
      PROVE  info'[s].ha_status = j.ha_status /\ info'[s].ha_nodeid = j.ha_nodeid
  BY <1>1, <1>3, AcknowledgedResumes, ResumeIds
<1>4. CASE CheckNoDatabase(s)
  <2> DEFINE down == [info[s] EXCEPT !.db_status = "down"]
  <2>1. down \in Info /\ down.ha_status = info[s].ha_status /\ down.ha_nodeid = id
    BY <1>1 DEF Info
  <2>2. Resume(s, down)
    BY <1>4 DEF CheckNoDatabase
  <2> HIDE DEF down
  <2> QED  BY <1>2, <1>3, <2>1, <2>2 DEF SessionHeld
<1>5. ASSUME NEW o \in Outcomes, CheckError(s, o)
      PROVE  info'[s].ha_status # "active"
  <2> DEFINE i == [info[s] EXCEPT !.db_status = DbStatus(o)]
  <2>1. i \in Info
    BY <1>1 DEF Info, DbStatus
  <2>2. Failed(i) \in Info /\ Failed(i).ha_status = "error"
    BY <2>1 DEF Failed, Info, Statuses
  <2>3. Resume(s, Failed(i))
    BY <1>5 DEF CheckError
  <2> HIDE DEF i
  <2> QED  BY <1>3, <2>2, <2>3
<1>6. ASSUME NEW o \in Outcomes, CheckOwned(s, o),
             NEW i \in Info, i.ha_nodeid = CheckedInfo(s, o).ha_nodeid,
             \/ Resume(s, i) \/ Resume(s, Failed(i))
             \/ \E status \in {"active", "standby"} : Resume(s, [i EXCEPT !.ha_status = status])
      PROVE  SessionHeld(info'[s], ha_node'[me], ha_sessionid[s])
  <2>1. Present(me) /\ ha_node[me].session = ha_sessionid[s]
    BY <1>6 DEF CheckOwned, OwnsRow
  <2>2. i.ha_nodeid # 0
    <3>1. CheckedInfo(s, o).ha_nodeid = IF id = 0 THEN ha_node[me].nodeid ELSE id
      BY <1>1 DEF CheckedInfo, Info
    <3>2. ha_node[me].nodeid # 0
      BY <1>1, <2>1 DEF Inv, IdsInv, IdsUnique
    <3> QED  BY <1>6, <3>1, <3>2
  <2>3. PICK j \in Info : Resume(s, j) /\ j.ha_nodeid = i.ha_nodeid
    <3>1. Failed(i) \in Info /\ Failed(i).ha_nodeid = i.ha_nodeid
      BY DEF Failed, Info, Statuses
    <3>2. ASSUME NEW status \in {"active", "standby"}
          PROVE  LET j == [i EXCEPT !.ha_status = status]
                 IN  j \in Info /\ j.ha_nodeid = i.ha_nodeid
      BY DEF Info, Statuses
    <3> QED  BY <1>6, <3>1, <3>2
  <2> QED  BY <1>2, <1>3, <2>1, <2>2, <2>3 DEF SessionHeld
<1>7. ASSUME NEW o \in Outcomes,
             CheckStandalone(s, o) \/ CheckSplitBrain(s, o) \/ CheckActive(s, o)
      PROVE  SessionHeld(info'[s], ha_node'[me], ha_sessionid[s])
  <2>1. /\ CheckOwned(s, o) /\ CheckedInfo(s, o) \in Info
        /\ \/ Resume(s, CheckedInfo(s, o))
           \/ Resume(s, [CheckedInfo(s, o) EXCEPT !.ha_status = "standby"])
    BY <1>1, <1>7, CheckedInfoType
       DEF CheckStandalone, CheckSplitBrain, CheckActive, TypeInv
  <2> QED  BY <1>6, <2>1
<1>8. ASSUME NEW o \in Outcomes, CheckPassive(s, o)
      PROVE  SessionHeld(info'[s], ha_node'[me], ha_sessionid[s])
  <2> DEFINE i == CheckedInfo(s, o)
  <2>1. CheckOwned(s, o) /\ i \in Info
    BY <1>1, <1>8, CheckedInfoType DEF CheckPassive, TypeInv
  <2>2. ASSUME NEW a \in Names
        PROVE  Watched(i, ha_node[a]) \in Info /\ Watched(i, ha_node[a]).ha_nodeid = i.ha_nodeid
    <3> HIDE DEF i
    <3>1. Watched(i, ha_node[a]).ha_nodeid = i.ha_nodeid
      BY <2>1 DEF Watched, Info
    <3> QED  BY <1>1, <2>1, <3>1, WatchedType
  <2>3. ASSUME NEW j, NEW status, NEW taken, EndPassive(s, o, j, status, taken)
        PROVE  Resume(s, j) \/ Resume(s, [j EXCEPT !.ha_status = status])
    BY <2>3 DEF EndPassive
  <2>4. \/ EndPassive(s, o, i, "active", {})
        \/ Resume(s, Failed(i))
        \/ \E a \in Names : \E taken : \E status \in {"active", "standby"} :
             EndPassive(s, o, Watched(i, ha_node[a]), status, taken)
    BY <1>8 DEF CheckPassive
  <2>5. \E j \in Info :
          /\ j.ha_nodeid = i.ha_nodeid
          /\ \/ Resume(s, j) \/ Resume(s, Failed(j))
             \/ \E status \in {"active", "standby"} : Resume(s, [j EXCEPT !.ha_status = status])
    <3> HIDE DEF i
    <3> QED  BY <2>1, <2>2, <2>3, <2>4
  <2> QED  BY <1>6, <2>1, <2>5
<1>9. info'[s].ha_status # "active" => SessionHeld(info'[s], ha_node'[me], ha_sessionid[s])
  BY DEF SessionHeld
<1> QED  BY <1>4, <1>5, <1>7, <1>8, <1>9 DEF CheckNodes

LEMMA RegisterSession ==
  ASSUME Inv, PatientInv, Acknowledged, NEW s \in Servers, IsCluster(s), NEW o \in Outcomes,
         CreateNode(s, o) \/ RegisterNode(s, o),
         IdHeld(info[s], ha_node[NameOf[s]])
  PROVE  SessionHeld(info'[s], ha_node'[NameOf[s]], ha_sessionid[s])
<1> DEFINE me == NameOf[s]
           i == [info[s] EXCEPT !.db_status = DbStatus(o)]
           leads == [i EXCEPT !.ha_status = "active"]
           waits == [i EXCEPT !.ha_status = "standby"]
<1>1. /\ TypeInv /\ me \in Names /\ ha_node[me] \in Row /\ info[s] \in Info
      /\ info[s].ha_status = "unknown"
  <2>1. Registers(info[s])
    BY DEF CreateNode, RegisterNode, Registers
  <2> QED  BY <2>1, ConfigAssumption DEF Inv, TypeInv, TypeOK, PatientInv, Patience
<1>2. info'[s].ha_status # "active" => SessionHeld(info'[s], ha_node'[me], ha_sessionid[s])
  BY DEF SessionHeld
<1>3. CASE CreateNode(s, o)
  BY <1>2, <1>3, RegisterMoves DEF StaysPassive, GivesUp
<1>4. CASE RegisterNode(s, o)
  <2>1. \/ Resume(s, i) \/ Resume(s, Failed(i)) \/ Resume(s, waits)
        \/ o = "ok" /\ Present(me) /\ Resume(s, leads) /\ ha_node' = Registered(s, "active")
    BY <1>4, ReadOutcomes DEF RegisterNode
  <2>2. i \in Info /\ i.ha_status = "unknown" /\ i.ha_nodeid = info[s].ha_nodeid
    BY <1>1 DEF DbStatus, Info
  <2> HIDE DEF i
  <2>3. /\ Failed(i) \in Info /\ Failed(i).ha_status = "error"
        /\ waits \in Info /\ waits.ha_status = "standby"
        /\ leads \in Info /\ leads.ha_nodeid = info[s].ha_nodeid
    BY <2>2 DEF Failed, Info, Statuses
  <2> HIDE DEF leads, waits
  <2>4. Resume(s, i) \/ Resume(s, Failed(i)) \/ Resume(s, waits)
          => info'[s].ha_status # "active"
    BY <1>1, <2>2, <2>3, AcknowledgedResumes
  <2>5. ASSUME Present(me), Resume(s, leads), ha_node' = Registered(s, "active")
        PROVE  SessionHeld(info'[s], ha_node'[me], ha_sessionid[s])
    <3>1. info[s].ha_nodeid # 0 /\ HasId(me, info[s].ha_nodeid)
      BY <1>4, <2>5 DEF RegisterNode, IdHeld, HasId, Present
    <3>2. IsCluster(s) = (me # Standalone)
      BY DEF IsCluster
    <3>3. ha_node'[me] = [Touched(me, "active") EXCEPT !.session = ha_sessionid[s]]
      BY <1>1, <2>5, <3>1, <3>2, Zenon DEF Registered
    <3>4. ha_node'[me].session = ha_sessionid[s]
      BY <1>1, <3>3 DEF Touched, Row
    <3>5. info'[s].ha_nodeid = info[s].ha_nodeid
      BY <1>1, <2>3, <2>5, ResumeIds
    <3> QED  BY <3>1, <3>4, <3>5 DEF SessionHeld
  <2> QED  BY <1>2, <2>1, <2>4, <2>5
<1> QED  BY <1>3, <1>4

(* The steps of a server, but for its checks and registrations, leave the  *)
(* manager its status and identifier, or end its active status.            *)
LEMMA OwnSession ==
  ASSUME Inv, PatientInv, Acknowledged, NEW s \in Servers, IsCluster(s), SteadyMove(s),
         IdHeld(info[s], ha_node[NameOf[s]]), info[s].pc # "remove",
         SessionHeld(info[s], ha_node[NameOf[s]], ha_sessionid[s])
  PROVE  SessionHeld(info'[s], ha_node'[NameOf[s]], ha_sessionid'[s])
<1> DEFINE me == NameOf[s]
           Stays == info'[s].ha_status = "active" =>
                      info[s].ha_status = "active" /\ info'[s].ha_nodeid = info[s].ha_nodeid
<1>1. /\ TypeInv /\ info[s] \in Info /\ DOMAIN info = Servers
      /\ me \in Names \ {Standalone}
  BY ConfigAssumption DEF Inv, TypeInv, TypeOK, IsCluster
<1>2. ASSUME NEW o \in Outcomes, CreateNode(s, o) \/ RegisterNode(s, o)
      PROVE  SessionHeld(info'[s], ha_node'[me], ha_sessionid'[s])
  <2>1. ha_sessionid' = ha_sessionid
    BY <1>2 DEF CreateNode, RegisterNode
  <2> QED  BY <1>2, <2>1, RegisterSession
<1>3. ASSUME CheckNodes(s) PROVE SessionHeld(info'[s], ha_node'[me], ha_sessionid'[s])
  <2>1. ha_sessionid' = ha_sessionid
    BY <1>3 DEF CheckNodes, CheckNoDatabase, CheckError, CheckStandalone, CheckSplitBrain,
       CheckActive, CheckPassive, CheckOwned, CheckStart
  <2> QED  BY <1>3, <2>1, CheckSession
<1>4. ASSUME Stays, ha_sessionid' = ha_sessionid,
             \A o \in Outcomes : ~CreateNode(s, o) /\ ~RegisterNode(s, o)
      PROVE  SessionHeld(info'[s], ha_node'[me], ha_sessionid'[s])
  <2>1. ha_node'[me].session = ha_node[me].session
    BY <1>1, <1>4, MoveSessions DEF RowSession
  <2> QED  BY <1>4, <2>1 DEF SessionHeld
<1>5. OffInfo.ha_status = "unknown" /\ \A status : StartedInfo(status).ha_status = status
  BY DEF OffInfo, StartedInfo
<1>6. CASE StartServer(s)
  <2>1. info'[s] = StartedInfo("unknown")
    BY <1>1, <1>6 DEF StartServer
  <2> QED  BY <1>5, <2>1 DEF SessionHeld
<1>7. CASE SteadyOrder(s)
  <2>1. CASE KillManager(s) \/ RestartManager(s)
    <3>1. info'[s] \in {OffInfo, StartedInfo("standby")}
      BY <1>1, <2>1 DEF KillManager, RestartManager
    <3> QED  BY <1>5, <3>1 DEF SessionHeld
  <2>2. CASE Pause(s)
    <3>1. Stays /\ ha_sessionid' = ha_sessionid /\ info[s].pc = "loop"
      BY <1>1, <2>2 DEF Pause, Receives, Info
    <3> QED  BY <1>4, <3>1 DEF CreateNode, RegisterNode
  <2>3. ASSUME NEW o \in Outcomes, Stop(s, o)
        PROVE  SessionHeld(info'[s], ha_node'[me], ha_sessionid'[s])
    <3>1. Stays /\ ha_sessionid' = ha_sessionid /\ info[s].pc \in {"loop", "paused"}
      BY <1>1, <2>3 DEF Stop, Receives, PausedStatus, Info
    <3> QED  BY <1>4, <3>1 DEF CreateNode, RegisterNode
  <2>4. ASSUME NEW n \in Names, NEW o \in Outcomes, RemoveNodeCheck(s, n, o)
        PROVE  SessionHeld(info'[s], ha_node'[me], ha_sessionid'[s])
    <3> DEFINE i == [info[s] EXCEPT !.db_status = DbStatus(o)]
               failed == [Failed(i) EXCEPT !.pc = "paused"]
               checked == [i EXCEPT !.pc = "remove", !.removing = ha_node[n].nodeid]
    <3>1. \E k \in {i, failed, checked} : info' = [info EXCEPT ![s] = k]
      BY <2>4 DEF RemoveNodeCheck
    <3>2. i \in Info /\ i.ha_status = info[s].ha_status /\ i.ha_nodeid = info[s].ha_nodeid
      BY <1>1 DEF DbStatus, Info
    <3>3. failed.ha_status = "error"
          /\ checked.ha_status = i.ha_status /\ checked.ha_nodeid = i.ha_nodeid
      <4> HIDE DEF i
      <4> QED  BY <3>2 DEF Failed, Info
    <3> HIDE DEF i, failed, checked
    <3>4. Stays
      BY <1>1, <3>1, <3>2, <3>3
    <3>5. ha_sessionid' = ha_sessionid /\ info[s].pc = "loop"
      BY <2>4 DEF RemoveNodeCheck, Receives
    <3> QED  BY <1>4, <3>4, <3>5 DEF CreateNode, RegisterNode
  <2> QED  BY <1>7, <2>1, <2>2, <2>3, <2>4 DEF SteadyOrder
<1>8. CASE ManagerStep(s)
  <2>1. ASSUME ManagerTick(s) \/ RegisterAgain(s) \/ PausedWait(s)
        PROVE  SessionHeld(info'[s], ha_node'[me], ha_sessionid'[s])
    <3>1. Stays /\ ha_sessionid' = ha_sessionid /\ info[s].pc \in {"loop", "paused"}
      BY <1>1, <2>1 DEF ManagerTick, RegisterAgain, CheckDue, PausedWait, Info
    <3> QED  BY <1>4, <3>1 DEF CreateNode, RegisterNode
  <2>2. ASSUME NEW o \in Outcomes, PausedUpdate(s, o)
        PROVE  SessionHeld(info'[s], ha_node'[me], ha_sessionid'[s])
    <3>1. Stays /\ ha_sessionid' = ha_sessionid /\ info[s].pc = "paused"
      BY <1>1, <2>2 DEF PausedUpdate, PausedStatus, Info
    <3> QED  BY <1>4, <3>1 DEF CreateNode, RegisterNode
  <2>3. ASSUME NEW o \in Outcomes, UpdateExitStatus(s, o)
        PROVE  SessionHeld(info'[s], ha_node'[me], ha_sessionid'[s])
    <3>1. info'[s] = OffInfo
      BY <1>1, <2>3 DEF UpdateExitStatus
    <3> QED  BY <1>5, <3>1 DEF SessionHeld
  <2>4. \A o \in Outcomes : ~RemoveNodeDelete(s, o)
    BY DEF RemoveNodeDelete
  <2> QED  BY <1>2, <1>3, <1>8, <2>1, <2>2, <2>3, <2>4 DEF ManagerStep
<1> QED  BY <1>6, <1>7, <1>8 DEF SteadyMove

LEMMA SessionsHeld ==
  ASSUME Inv, PatientInv, IdInv, SessionInv, SteadyCluster, \A s \in Servers : IsCluster(s),
         \A s \in Servers : info[s].pc # "remove", [SteadyStep]_vars
  PROVE  SessionInv'
<1> SUFFICES ASSUME NEW s \in Servers
             PROVE  SessionHeld(info'[s], ha_node'[NameOf[s]], ha_sessionid'[s])
  BY DEF SessionInv
<1>1. /\ TypeInv /\ NameOf[s] \in Names \ {Standalone}
      /\ SessionHeld(info[s], ha_node[NameOf[s]], ha_sessionid[s])
      /\ IdHeld(info[s], ha_node[NameOf[s]])
  BY ConfigAssumption DEF Inv, IdInv, SessionInv, IsCluster
<1>2. CASE UNCHANGED vars
  BY <1>1, <1>2 DEF vars
<1>3. CASE Tick
  <2>1. /\ ha_node' = ha_node /\ ha_sessionid' = ha_sessionid
        /\ info'[s].ha_nodeid = info[s].ha_nodeid /\ info'[s].ha_status = info[s].ha_status
    BY <1>1, <1>3 DEF Tick, registry, TypeInv, TypeOK, Info
  <2> QED  BY <1>1, <2>1 DEF SessionHeld
<1>4. CASE SteadyMove(s)
  BY <1>1, <1>4, OwnSession DEF SteadyCluster
<1>5. ASSUME NEW t \in Servers \ {s}, SteadyMove(t)
      PROVE  SessionHeld(info'[s], ha_node'[NameOf[s]], ha_sessionid'[s])
  <2>1. NameOf[s] # NameOf[t]
    BY DEF SteadyCluster
  <2>2. ha_node'[NameOf[s]].session = ha_node[NameOf[s]].session
    BY <1>1, <1>5, <2>1, MoveSessions DEF RowSession
  <2>3. info'[s] = info[s] /\ ha_sessionid'[s] = ha_sessionid[s]
    <3>1. CASE StartServer(t)
      BY <1>1, <1>5, <3>1 DEF StartServer, TypeInv, TypeOK
    <3>2. CASE ManagerStep(t) \/ SteadyOrder(t)
      <4>1. info'[s] = info[s]
        BY <1>1, <1>5, <3>2, OneManagerMoves DEF SteadyOrder, Ordered
      <4>2. ha_sessionid' = ha_sessionid
        BY <3>2 DEF ManagerStep, SteadyOrder, ManagerTick, RegisterAgain, CheckNodes,
           CheckNoDatabase, CheckError, CheckStandalone, CheckSplitBrain, CheckActive,
           CheckPassive, CheckOwned, CheckStart, CreateNode, RegisterNode, RemoveNodeDelete,
           PausedUpdate, UpdateExitStatus, PausedWait, KillManager, RestartManager, Pause,
           Stop, RemoveNodeCheck
      <4> QED  BY <4>1, <4>2
    <3> QED  BY <1>5, <3>1, <3>2 DEF SteadyMove
  <2> QED  BY <1>1, <2>2, <2>3 DEF SessionHeld
<1> QED  BY <1>2, <1>3, <1>4, <1>5 DEF SteadyStep

(* A manager that polls refreshes its row within a poll period, and one    *)
(* that is paused within another, as long as no transaction fails.         *)
KeepsRow(i, row, time) ==
  /\ i.ha_status = "active" /\ row.status = "active" /\ i.nextcheck >= 1
  /\ \/ i.pc = "loop" /\ NextTime(i, time) <= row.lastaccess + PollPeriod
     \/ i.pc = "paused" /\ NextTime(i, time) < row.lastaccess + 2 * PollPeriod

(* Whoever runs server processes keeps the row, until they have ended; and *)
(* a main process that is told to start them is told at once.              *)
HoldKept(m, i, q, row, time) ==
  /\ Up(m) /\ StatusMessage("active") \in Messages(q) => Leads(i) /\ i.tick = FALSE
  /\ m.children = TRUE =>
       m.pc \in {"startup", "loop", "exit", "wait"} /\ KeepsRow(i, row, time)

HoldInv ==
  \A s \in Servers : HoldKept(main[s], info[s], rtc[s], ha_node[NameOf[s]], now)

Holding == Kept /\ SessionInv /\ HoldInv

(***************************************************************************)
(* What the proof asks of the cluster, besides SteadyCluster: the database *)
(* is there, managers neither hang nor are killed while their server runs, *)
(* there is no standalone server, and the failover delay is two poll       *)
(* periods at least.  Servers may crash and exit, and managers may fail to *)
(* answer requests for their status, and to pause or stop.                 *)
(***************************************************************************)
ReliableCluster ==
  /\ SteadyCluster
  /\ Outcomes \subseteq {"ok"}
  /\ Events \cap {"kill", "hang"} = {}
  /\ 2 * PollPeriod <= DefaultDelay
  /\ \A s \in Servers : IsCluster(s)

(* The state of one server after a step. *)
ServerHolds(s) == HoldKept(main'[s], info'[s], rtc'[s], ha_node'[NameOf[s]], now)

LEMMA HoldFacts ==
  ASSUME Holding, ReliableCluster, NEW s \in Servers
  PROVE  /\ Kept /\ SteadyCluster /\ IsCluster(s)
         /\ HoldKept(main[s], info[s], rtc[s], ha_node[NameOf[s]], now)
         /\ SessionHeld(info[s], ha_node[NameOf[s]], ha_sessionid[s])
         /\ IdHeld(info[s], ha_node[NameOf[s]])
         /\ info[s].pc # "remove"
         /\ 2 * PollPeriod <= DefaultDelay
BY DEF Holding, ReliableCluster, SessionInv, HoldInv, Kept, IdInv, MainInv, MainKept

LEMMA KeptLives ==
  ASSUME NEW i \in Info, NEW row \in Row, NEW time \in Nat, KeepsRow(i, row, time),
         2 * PollPeriod <= DefaultDelay
  PROVE  time < row.lastaccess + DefaultDelay
<1>1. /\ PollPeriod \in Nat \ {0} /\ DefaultDelay \in Nat /\ row.lastaccess \in Nat
      /\ i.nextcheck \in Nat /\ i.nextcheck >= 1
  BY ConfigAssumption DEF Info, Row, KeepsRow
<1>2. NextTime(i, time) >= time
  BY <1>1 DEF NextTime
<1>3. NextTime(i, time) \in Int
  BY <1>1 DEF NextTime
<1>4. \/ NextTime(i, time) <= row.lastaccess + PollPeriod
      \/ NextTime(i, time) < row.lastaccess + 2 * PollPeriod
  BY DEF KeepsRow
<1> QED  BY <1>1, <1>2, <1>3, <1>4

(* A row that has just been refreshed. *)
LEMMA RefreshKeeps ==
  ASSUME NEW i \in Info, NEW row \in Row, NEW time \in Nat,
         i.ha_status = "active", i.pc \in {"loop", "paused"}, i.nextcheck = PollPeriod,
         row.status = "active", row.lastaccess = time
  PROVE  KeepsRow(i, row, time)
<1>1. PollPeriod \in Nat \ {0}
  BY ConfigAssumption
<1>2. NextTime(i, time) <= time + PollPeriod
  BY <1>1 DEF NextTime
<1>3. NextTime(i, time) \in Int
  BY <1>1 DEF NextTime
<1> QED  BY <1>1, <1>2, <1>3 DEF KeepsRow

(* A step of a manager that keeps its row keeps it. *)
LEMMA KeepsMove ==
  ASSUME Holding, ReliableCluster, TypeInv', NEW s \in Servers, ManagerStep(s),
         KeepsRow(info[s], ha_node[NameOf[s]], now)
  PROVE  KeepsRow(info'[s], ha_node'[NameOf[s]], now)
<1> DEFINE me == NameOf[s]
           i == info[s]
           j == info'[s]
           row == ha_node[me]
           row1 == ha_node'[me]
<1>1. /\ i \in Info /\ j \in Info /\ row \in Row /\ row1 \in Row /\ me \in Names
      /\ now \in Nat /\ PollPeriod \in Nat \ {0} /\ DOMAIN info = Servers
  BY HoldFacts, KeptFacts DEF TypeInv, TypeOK, Kept, Inv
<1>2. /\ i.ha_status = "active" /\ row.status = "active" /\ i.nextcheck >= 1
      /\ i.pc \in {"loop", "paused"}
      /\ row.session = ha_sessionid[s] /\ i.ha_nodeid # 0 /\ row.nodeid = i.ha_nodeid
  BY HoldFacts DEF KeepsRow, SessionHeld, IdHeld
<1>3. Inv /\ Acknowledged /\ \A o \in Outcomes : o = "ok"
  BY HoldFacts DEF Kept, SteadyCluster, ReliableCluster
<1>4. ASSUME NEW c \in Nat, NEW d \in BOOLEAN, i.tick = TRUE, d = FALSE, i.nextcheck > 1,
             c = i.nextcheck - 1, j = [i EXCEPT !.nextcheck = c, !.tick = d], row1 = row
      PROVE  KeepsRow(j, row1, now)
  <2>1. j.nextcheck = c /\ j.tick = FALSE /\ j.pc = i.pc /\ j.ha_status = i.ha_status
    BY <1>1, <1>4 DEF Info
  <2>2. i.nextcheck \in Nat
    BY <1>1 DEF Info
  <2>3. NextTime(j, now) = now + (i.nextcheck - 1) - 0 /\ NextTime(i, now) = now + i.nextcheck - 1
    BY <1>4, <2>1 DEF NextTime
  <2>4. NextTime(j, now) = NextTime(i, now)
    <3> HIDE DEF i, j
    <3> QED  BY <1>1, <2>2, <2>3
  <2>5. KeepsRow(i, row, now)
    OBVIOUS
  <2> HIDE DEF i, j, row, row1
  <2> QED  BY <1>1, <1>4, <2>1, <2>2, <2>4, <2>5 DEF KeepsRow
<1>5. CASE ManagerTick(s) \/ PausedWait(s)
  <2>1. /\ j = [i EXCEPT !.nextcheck = i.nextcheck - 1, !.tick = FALSE]
        /\ i.nextcheck > 1 /\ i.tick = TRUE /\ row1 = row
    BY <1>1, <1>5 DEF ManagerTick, PausedWait, registry, Info
  <2>2. i.nextcheck - 1 \in Nat
    BY <1>1, <2>1 DEF Info
  <2> QED  BY <1>4, <2>1, <2>2
<1>6. CASE CheckNodes(s)
  <2>1. \E o \in Outcomes : CheckActive(s, o)
    <3>1. "nobegin" \notin Outcomes
      BY <1>3
    <3>2. ASSUME NEW o \in Outcomes PROVE ~CheckError(s, o)
      BY <1>2, <1>3 DEF CheckError, OwnsRow, Present
    <3>3. ASSUME NEW o \in Outcomes
          PROVE  ~CheckStandalone(s, o) /\ ~CheckSplitBrain(s, o) /\ ~CheckPassive(s, o)
      BY <1>2, HoldFacts DEF CheckStandalone, CheckSplitBrain, CheckPassive
    <3> QED  BY <1>6, <3>1, <3>2, <3>3 DEF CheckNodes
  <2>2. PICK o \in Outcomes : CheckActive(s, o)
    BY <2>1
  <2> DEFINE k == CheckedInfo(s, o)
  <2>3. o = "ok" /\ Resume(s, k) /\ i.pc = "loop"
    BY <1>3, <2>2 DEF CheckActive, CheckOwned, CheckStart, CheckDue
  <2>4. k \in Info /\ k.ha_status = "active" /\ k.db_status = "ok" /\ k.ha_nodeid = i.ha_nodeid
    <3>1. k \in Info /\ k.ha_status = i.ha_status
      BY <1>3, CheckedInfoType DEF Inv, TypeInv
    <3>2. k.db_status = DbStatus(o) /\ k.ha_nodeid = i.ha_nodeid
      BY <1>1, <1>2 DEF CheckedInfo, Info
    <3> QED  BY <1>2, <2>3, <3>1, <3>2 DEF DbStatus
  <2>5. row1 = Touched(me, "active")
    <3>1. HasId(me, k.ha_nodeid)
      BY <1>2, <2>4 DEF HasId, Present
    <3> QED  BY <1>1, <2>2, <2>3, <3>1 DEF CheckActive, Applied
  <2>6. row1.status = "active" /\ row1.lastaccess = now
    BY <1>1, <2>5 DEF Touched, Row
  <2> HIDE DEF k
  <2>7. j.pc = "loop" /\ j.ha_status = "active" /\ j.nextcheck = PollPeriod
    BY <1>3, <2>3, <2>4, AcknowledgedResumes DEF Inv
  <2>8. KeepsRow(j, row1, now)
    <3> HIDE DEF i, j, row, row1
    <3> QED  BY <1>1, <2>6, <2>7, RefreshKeeps
  <2> QED  BY <2>8
<1>7. ASSUME NEW o \in Outcomes, PausedUpdate(s, o)
      PROVE  KeepsRow(j, row1, now)
  <2>1. o = "ok"
    BY <1>3
  <2>2. /\ j.nextcheck = PollPeriod /\ j.pc = "paused" /\ j.ha_status = "active"
    BY <1>1, <1>2, <1>7, <2>1 DEF PausedUpdate, PausedStatus, Info
  <2>3. row1 = [row EXCEPT !.lastaccess = now]
    <3>1. HasId(me, i.ha_nodeid)
      BY <1>2 DEF HasId, Present
    <3> QED  BY <1>1, <1>2, <1>7, <2>1, <3>1 DEF PausedUpdate, UpdateLastaccess, Applied
  <2>4. row1.status = "active" /\ row1.lastaccess = now
    BY <1>1, <1>2, <2>3 DEF Row
  <2> HIDE DEF i, j, row, row1
  <2> QED  BY <1>1, <2>2, <2>4, RefreshKeeps
<1>8. ~RegisterAgain(s)
  BY <1>2 DEF RegisterAgain
<1>9. ASSUME NEW o \in Outcomes
      PROVE  ~CreateNode(s, o) /\ ~RegisterNode(s, o) /\ ~RemoveNodeDelete(s, o)
             /\ ~UpdateExitStatus(s, o)
  BY <1>2 DEF CreateNode, RegisterNode, RemoveNodeDelete, UpdateExitStatus
<1> QED  BY <1>5, <1>6, <1>7, <1>8, <1>9 DEF ManagerStep

(* A manager that waits for its next tick takes no step. *)
LEMMA RestsUntilTick ==
  ASSUME NEW s \in Servers, ManagerStep(s), info[s].pc = "loop"
  PROVE  info[s].tick
BY DEF ManagerStep, ManagerTick, RegisterAgain, CheckNodes, CheckNoDatabase, CheckError,
   CheckStandalone, CheckSplitBrain, CheckActive, CheckPassive, CheckOwned, CheckStart,
   CheckDue, CreateNode, RegisterNode, RemoveNodeDelete, PausedUpdate, UpdateExitStatus,
   PausedWait

LEMMA ManagerHolds ==
  ASSUME Holding, ReliableCluster, TypeInv', NEW s \in Servers, Manager(s),
         info'[s].failover_delay = DefaultDelay
  PROVE  ServerHolds(s)
<1> DEFINE m == main[s]
           i == info[s]
           j == info'[s]
           q == rtc[s]
           active == StatusMessage("active")
<1>1. /\ HoldKept(m, i, q, ha_node[NameOf[s]], now) /\ i \in Info /\ i.pc # "remove"
      /\ Kept /\ j \in Info /\ IdHeld(i, ha_node[NameOf[s]])
  BY HoldFacts, KeptFacts DEF TypeInv, TypeOK
<1>2. ManagerStep(s) /\ main' = main /\ rtc'[s] = Sent(s)
  BY <1>1, KeptFacts, HoldFacts DEF Manager
<1>3. ASSUME Up(m), active \in Messages(rtc'[s])
      PROVE  Leads(j) /\ j.tick = FALSE
  <2>1. active \notin Messages(q)
    <3>1. active \in Messages(q) => Leads(i) /\ i.tick = FALSE
      BY <1>1, <1>3 DEF HoldKept
    <3> QED  BY <1>2, <3>1, RestsUntilTick DEF Leads
  <2>2. active = StatusMessage(j.ha_status) /\ TickEnds(s) /\ StatusChanged(s)
    BY <1>1, <1>2, <1>3, <2>1, SentFacts, MessageCodes DEF Kept
  <2>3. j.ha_status = "active" /\ i.ha_status # "active"
    BY <2>2, MessageCodes DEF StatusChanged
  <2>4. j.tick = FALSE /\ i.pc \in {"loop", "create", "register"}
    BY <1>1, <2>2 DEF TickEnds, Info
  <2>5. ManagerMove(s)
    BY <1>1, <1>2, HoldFacts, ManagerMoves DEF Kept, SteadyCluster
  <2>6. Leads(j)
    BY <2>3, <2>4, <2>5 DEF ManagerMove, Idles, LosesDatabase, Refreshes, TakesOver,
       FindsSplitBrain, GivesUp, StaysPassive, StaysPaused, Leads
  <2> QED  BY <2>4, <2>6
<1>4. m.children = TRUE =>
        /\ m.pc \in {"startup", "loop", "exit", "wait"}
        /\ KeepsRow(j, ha_node'[NameOf[s]], now)
  <2>1. m.children = TRUE => m.pc \in {"startup", "loop", "exit", "wait"}
                             /\ KeepsRow(i, ha_node[NameOf[s]], now)
    BY <1>1 DEF HoldKept
  <2> QED  BY <1>2, <2>1, KeepsMove
<1> QED  BY <1>2, <1>3, <1>4 DEF ServerHolds, HoldKept

(* A main process that starts the server processes has just been told so:  *)
(* the manager keeps the row it has refreshed this second.                 *)
LEMMA LeaderKeeps ==
  ASSUME Holding, ReliableCluster, NEW s \in Servers, MayStart(main[s], rtc[s]),
         Leads(info[s])
  PROVE  KeepsRow(info[s], ha_node[NameOf[s]], now)
<1> DEFINE i == info[s]
           row == ha_node[NameOf[s]]
<1>1. /\ LeaseKept(main[s], i, rtc[s], row, now) /\ i \in Info /\ row \in Row /\ now \in Nat
      /\ PollPeriod \in Nat \ {0}
  BY HoldFacts, KeptFacts
<1>2. i.nextcheck >= 1
  BY <1>1, HoldFacts DEF Kept, PatientInv, Patience, Polls, Leads
<1>3. /\ row.status = "active" /\ row.lastaccess = now
      /\ i.nextcheck > 1 => NextTime(i, now) <= row.lastaccess + PollPeriod
  BY <1>1 DEF LeaseKept
<1>4. i.nextcheck \in Nat
  BY <1>1 DEF Info
<1>5. i.nextcheck = 1 => NextTime(i, now) <= now + 1
  BY <1>1 DEF NextTime
<1>6. NextTime(i, now) \in Int
  BY <1>1, <1>4 DEF NextTime
<1>7. NextTime(i, now) <= row.lastaccess + PollPeriod
  <2> HIDE DEF i, row
  <2> QED  BY <1>1, <1>2, <1>3, <1>4, <1>5, <1>6
<1> QED  BY <1>2, <1>3, <1>7 DEF KeepsRow, Leads

(* A manager is started again only for a server without processes. *)
LEMMA RestartedHolds ==
  ASSUME NEW s \in Servers, rtc'[s] = <<>>, main'[s].children = FALSE
  PROVE  ServerHolds(s)
BY NoMessages DEF ServerHolds, HoldKept

LEMMA StartHolds ==
  ASSUME Holding, ReliableCluster, NEW s \in Servers, MainStart(s)
  PROVE  ServerHolds(s)
<1> DEFINE started == [OffMain EXCEPT !.pc = "getstatus"]
<1>1. started.children = FALSE
  BY DEF OffMain
<1>2. main \in [Servers -> Main] /\ rtc \in [Servers -> Seq(Message)]
  BY HoldFacts, KeptFacts
<1>3. main' = [main EXCEPT ![s] = started] /\ rtc' = [rtc EXCEPT ![s] = <<>>]
  BY DEF MainStart, SetMain
<1> HIDE DEF started
<1> QED  BY <1>1, <1>2, <1>3, RestartedHolds

LEMMA GetStatusHolds ==
  ASSUME Holding, ReliableCluster, NEW s \in Servers, MainGetStatus(s)
  PROVE  ServerHolds(s)
<1> DEFINE m == main[s]
           m1 == main'[s]
           i == info[s]
           q == rtc[s]
           row == ha_node[NameOf[s]]
<1>1. /\ m.pc = "getstatus" /\ m.children = FALSE /\ HoldKept(m, i, q, row, now)
      /\ MainKept(m, i, q)
  BY HoldFacts, KeptFacts DEF MainGetStatus, MainKept
<1>2. /\ info' = info /\ ha_node' = ha_node /\ rtc' = rtc
      /\ \/ m1.pc = "exit" /\ m1.children = m.children
         \/ /\ m1.pc = "startup" /\ Told(s, "active")
         \/ /\ m1.pc = "loop" /\ m1.children = m.children
  BY GetStatusTurns, HoldFacts DEF Kept, vars
<1>3. ASSUME m1.pc = "startup", Told(s, "active") PROVE KeepsRow(i, row, now)
  <2>1. Answers(s) /\ i.ha_status = "active"
    BY <1>3, HoldFacts DEF Told
  <2>2. Leads(i)
    BY <1>1, <2>1 DEF Answers, Receives, MainKept, Up, Leads
  <2>3. MayStart(m, q)
    BY <1>1 DEF MayStart
  <2> QED  BY <2>2, <2>3, LeaderKeeps
<1>4. HoldKept(m1, i, q, row, now)
  <2> HIDE DEF m, m1, i, q, row
  <2> QED  BY <1>1, <1>2, <1>3 DEF HoldKept, Up
<1> QED  BY <1>2, <1>4 DEF ServerHolds

LEMMA StartedHolds ==
  ASSUME Holding, ReliableCluster, NEW s \in Servers, MainStarted(s)
  PROVE  ServerHolds(s)
<1> DEFINE m == main[s]
           m1 == main'[s]
           i == info[s]
           q == rtc[s]
           row == ha_node[NameOf[s]]
<1>1. m.pc = "startup" /\ m.children = TRUE /\ HoldKept(m, i, q, row, now)
  BY HoldFacts, KeptFacts DEF MainStarted, MainKept
<1>2. \/ /\ m1.pc \in {"exit", "loop"}
         /\ info' = info /\ ha_node' = ha_node /\ rtc' = rtc
      \/ rtc'[s] = <<>> /\ m1.children = FALSE
  BY StartedTurns, HoldFacts DEF Kept, vars
<1>3. ASSUME m1.pc \in {"exit", "loop"}, info' = info, ha_node' = ha_node, rtc' = rtc
      PROVE  ServerHolds(s)
  <2>1. HoldKept(m1, i, q, row, now)
    <3> HIDE DEF m, m1, i, q, row
    <3> QED  BY <1>1, <1>3 DEF HoldKept, Up
  <2> QED  BY <1>3, <2>1 DEF ServerHolds
<1> QED  BY <1>2, <1>3, RestartedHolds

LEMMA LoopHolds ==
  ASSUME Holding, ReliableCluster, NEW s \in Servers, MainLoop(s)
  PROVE  ServerHolds(s)
<1> DEFINE m == main[s]
           m1 == main'[s]
           i == info[s]
           q == rtc[s]
           q1 == rtc'[s]
           row == ha_node[NameOf[s]]
<1>1. /\ m.pc = "loop" /\ HoldKept(m, i, q, row, now) /\ MainKept(m, i, q) /\ m \in Main
  BY HoldFacts, KeptFacts DEF MainLoop
<1>2. /\ Messages(q1) \subseteq Messages(q)
      /\ \/ TurnExits(s) \/ TurnRestarts(s) \/ TurnStays(s) \/ TurnStarts(s)
         \/ TurnTearsDown(s)
  BY LoopTurns, HoldFacts DEF Kept
<1>3. CASE TurnTearsDown(s)
  BY <1>3, RestartedHolds DEF TurnTearsDown
<1>4. CASE TurnRestarts(s)
  <2>1. m.ha_status # "active"
    <3>1. Received(s).ha_status = m.ha_status
      BY <1>4, HoldFacts, ReceivedKept DEF TurnRestarts
    <3> QED  BY <1>4, <3>1 DEF TurnRestarts
  <2>2. m.children = FALSE
    <3> HIDE DEF m, i, q
    <3> QED  BY <1>1, <2>1 DEF MainKept, Main
  <2> QED  BY <1>4, <2>2, RestartedHolds DEF TurnRestarts
<1>5. ASSUME info' = info, ha_node' = ha_node, m1.pc \in {"exit", "loop", "startup"},
             m1.children = m.children \/ (m1.pc = "startup" /\ KeepsRow(i, row, now))
      PROVE  ServerHolds(s)
  <2>1. HoldKept(m1, i, q1, row, now)
    <3> HIDE DEF m, m1, i, q, q1, row
    <3> QED  BY <1>1, <1>2, <1>5 DEF HoldKept, Up
  <2> QED  BY <1>5, <2>1 DEF ServerHolds
<1>6. CASE TurnExits(s) \/ TurnStays(s)
  BY <1>5, <1>6 DEF TurnExits, TurnStays, vars
<1>7. CASE TurnStarts(s)
  <2>1. /\ info' = info /\ ha_node' = ha_node /\ m1.pc = "startup"
        /\ Received(s).ha_status = "active" /\ m.ha_status_old # "active"
    BY <1>7 DEF TurnStarts, vars
  <2>2. m.ha_status # "active" /\ m.children = FALSE
    <3> HIDE DEF m, i, q
    <3> QED  BY <1>1, <2>1 DEF MainKept, Main
  <2>3. StatusMessage("active") \in Messages(q)
    <3>1. StatusMessage(Received(s).ha_status) \in Messages(q)
      BY <2>1, <2>2, HoldFacts, ReceivedKept
    <3> QED  BY <2>1, <3>1
  <2>4. MayStart(m, q) /\ Leads(i)
    BY <1>1, <2>2, <2>3 DEF MayStart, HoldKept, Up
  <2>5. KeepsRow(i, row, now)
    BY <2>4, LeaderKeeps
  <2> QED  BY <1>5, <2>1, <2>5
<1> QED  BY <1>2, <1>3, <1>4, <1>6, <1>7

(* A server exits, or crashes: its manager polls or is paused until the    *)
(* server processes have ended.                                            *)
LEMMA PauseHolds ==
  ASSUME Holding, ReliableCluster, NEW s \in Servers, MainPause(s)
  PROVE  ServerHolds(s)
<1> DEFINE m == main[s]
           m1 == [m EXCEPT !.pc = "wait"]
           i == info[s]
           j == info'[s]
           row == ha_node[NameOf[s]]
<1>1. /\ m \in Main /\ m.pc = "exit" /\ HoldKept(m, i, rtc[s], row, now) /\ i \in Info
      /\ row \in Row /\ now \in Nat /\ PollPeriod \in Nat \ {0}
      /\ main \in [Servers -> Main] /\ DOMAIN info = Servers
  BY HoldFacts, KeptFacts DEF MainPause, Kept, ClusterType, TypeInv, TypeOK
<1>2. /\ m1.pc = "wait" /\ m1.children = m.children
  BY <1>1 DEF Main
<1>3. main'[s] = m1 /\ (Pause(s) \/ UNCHANGED vars)
  BY <1>1 DEF MainPause, SetMain
<1> HIDE DEF m, m1
<1>4. ha_node' = ha_node
  BY <1>3 DEF Pause, registry, vars
<1>5. ASSUME KeepsRow(i, row, now) PROVE KeepsRow(j, row, now)
  <2>1. CASE UNCHANGED vars
    BY <1>5, <2>1 DEF vars
  <2>2. CASE Pause(s)
    <3>1. /\ i.pc = "loop" /\ i.tick = FALSE
          /\ j = [i EXCEPT !.pc = "paused", !.nextcheck = PollPeriod]
      BY <1>1, <2>2 DEF Pause, Receives, Info
    <3>2. /\ j.pc = "paused" /\ j.nextcheck = PollPeriod /\ j.tick = FALSE
          /\ j.ha_status = i.ha_status
      BY <1>1, <3>1 DEF Info
    <3>3. i.nextcheck \in Nat /\ row.lastaccess \in Nat
      BY <1>1 DEF Info, Row
    <3>4. NextTime(i, now) = now + i.nextcheck - 0 /\ NextTime(j, now) = now + PollPeriod - 0
      BY <3>1, <3>2 DEF NextTime
    <3>5. /\ i.nextcheck >= 1 /\ NextTime(i, now) <= row.lastaccess + PollPeriod
          /\ i.ha_status = "active" /\ row.status = "active"
      BY <1>5, <3>1 DEF KeepsRow
    <3> HIDE DEF i, j, row
    <3>6. NextTime(j, now) < row.lastaccess + 2 * PollPeriod
      BY <1>1, <3>3, <3>4, <3>5
    <3> QED  BY <1>1, <3>2, <3>5, <3>6 DEF KeepsRow
  <2> QED  BY <1>3, <2>1, <2>2
<1>6. HoldKept(m1, j, rtc'[s], row, now)
  <2> HIDE DEF i, j, row
  <2> QED  BY <1>1, <1>2, <1>5 DEF HoldKept, Up
<1> QED  BY <1>3, <1>4, <1>6 DEF ServerHolds

LEMMA ExitHolds ==
  ASSUME Holding, ReliableCluster, NEW s \in Servers,
         \/ MainStop(s) \/ MainSync(s) \/ MainExited(s) \/ MainSignal(s) \/ ServerCrash(s)
  PROVE  ServerHolds(s)
<1> DEFINE m == main[s]
           stops == [m EXCEPT !.pc = "stop", !.children = FALSE]
           syncs == [m EXCEPT !.pc = "sync"]
           exits == [m EXCEPT !.pc = "exit", !.command = 0]
<1>1. /\ m \in Main /\ HoldKept(m, info[s], rtc[s], ha_node[NameOf[s]], now)
      /\ main \in [Servers -> Main]
  BY HoldFacts, KeptFacts
<1>2. /\ OffMain.pc = "off" /\ OffMain.children = FALSE
      /\ stops.pc = "stop" /\ stops.children = FALSE
      /\ syncs.pc = "sync" /\ syncs.children = m.children
      /\ exits.pc = "exit" /\ exits.children = m.children
  BY <1>1 DEF OffMain, Main
<1>3. \/ main'[s] \in {OffMain, stops}
      \/ main'[s] = syncs /\ m.pc = "stop"
      \/ main'[s] = exits /\ m.pc = "loop" /\ UNCHANGED <<vars, rtc>>
  <2>1. /\ MainStop(s) => SetMain(s, stops)
        /\ MainSync(s) => m.pc = "stop" /\ (SetMain(s, syncs) \/ SetMain(s, OffMain))
        /\ MainExited(s) \/ ServerCrash(s) => SetMain(s, OffMain)
        /\ MainSignal(s) => m.pc = "loop" /\ SetMain(s, exits) /\ UNCHANGED <<vars, rtc>>
    BY DEF MainStop, MainSync, MainExited, MainSignal, ServerCrash
  <2> HIDE DEF m, stops, syncs, exits
  <2>2. \A x : SetMain(s, x) => main'[s] = x
    BY <1>1 DEF SetMain
  <2> QED  BY <2>1, <2>2
<1> HIDE DEF stops, syncs, exits
<1>4. main'[s] = exits /\ m.pc = "loop" /\ UNCHANGED <<vars, rtc>> => ServerHolds(s)
  BY <1>1, <1>2 DEF vars, ServerHolds, HoldKept, Up
<1>5. m.pc = "stop" => m.children = FALSE
  BY <1>1 DEF HoldKept, Main
<1>6. main'[s].children = FALSE /\ main'[s].pc \in {"off", "stop", "sync"} => ServerHolds(s)
  BY DEF ServerHolds, HoldKept, Up
<1> QED  BY <1>2, <1>3, <1>4, <1>5, <1>6

(* A second passes. *)
LEMMA TickHolds ==
  ASSUME Holding, ReliableCluster, ClusterTick, NEW s \in Servers
  PROVE  HoldKept(main'[s], info'[s], rtc'[s], ha_node'[NameOf[s]], now')
<1> DEFINE m == main[s]
           m1 == main'[s]
           i == info[s]
           j == info'[s]
           q == rtc[s]
           row == ha_node[NameOf[s]]
<1>1. /\ m \in Main /\ i \in Info /\ row \in Row /\ now \in Nat
      /\ HoldKept(m, i, q, row, now) /\ i.pc # "remove"
  BY HoldFacts, KeptFacts
<1>2. /\ m1 = [m EXCEPT !.polled = FALSE] /\ rtc' = rtc /\ ha_node' = ha_node
      /\ now' = now + 1
      /\ j = IF i.pc = "off" THEN i ELSE [i EXCEPT !.tick = TRUE]
  BY DEF ClusterTick, Tick, registry
<1>3. m1.pc = m.pc /\ m1.children = m.children
  BY <1>1, <1>2 DEF Main
<1>4. MainInTime(s) /\ ManagerInTime(s) /\ Events \cap {"startup", "hang"} = {}
  BY DEF ClusterTick, ReliableCluster, SteadyCluster
<1>5. Up(m) => StatusMessage("active") \notin Messages(q)
  <2>1. m.pc = "loop" => q = <<>>
    BY <1>1, <1>4 DEF MainInTime, Waits
  <2>2. m.pc # "startup" /\ ~(m.pc = "getstatus" /\ i.pc = "loop")
    BY <1>4 DEF MainInTime
  <2>3. Up(m) /\ StatusMessage("active") \in Messages(q) => i.pc = "loop"
    BY <1>1 DEF HoldKept, Leads
  <2> QED  BY <2>1, <2>2, <2>3, NoMessages DEF Up
<1>6. ASSUME KeepsRow(i, row, now) PROVE KeepsRow(j, row, now + 1)
  <2>1. i.pc \in {"loop", "paused"} /\ i.tick = FALSE
    BY <1>1, <1>4, <1>6 DEF KeepsRow, ManagerInTime, Info
  <2>2. /\ j.pc = i.pc /\ j.tick = TRUE /\ j.nextcheck = i.nextcheck
        /\ j.ha_status = i.ha_status
    BY <1>1, <1>2, <2>1 DEF Info
  <2>3. /\ NextTime(i, now) = now + i.nextcheck - 0
        /\ NextTime(j, now + 1) = now + 1 + i.nextcheck - 1
    BY <2>1, <2>2 DEF NextTime
  <2>4. i.nextcheck \in Nat
    BY <1>1 DEF Info
  <2>5. KeepsRow(i, row, now)
    BY <1>6
  <2> HIDE DEF i, j, row
  <2>6. NextTime(j, now + 1) = NextTime(i, now)
    BY <1>1, <2>3, <2>4
  <2> QED  BY <2>2, <2>5, <2>6 DEF KeepsRow
<1>7. HoldKept(m1, j, q, row, now + 1)
  <2> HIDE DEF m, m1, i, j, q, row
  <2> QED  BY <1>1, <1>3, <1>5, <1>6 DEF HoldKept, Up
<1> QED  BY <1>2, <1>7

(* The steps of a server leave the others what they hold. *)
LEMMA OthersHold ==
  ASSUME Holding, ReliableCluster, NEW s \in Servers, ServerMoves(s), ServerHolds(s)
  PROVE  HoldInv'
<1> SUFFICES ASSUME NEW t \in Servers
             PROVE  HoldKept(main'[t], info'[t], rtc'[t], ha_node'[NameOf[t]], now')
  BY DEF HoldInv
<1>1. now' = now
  BY MoveKeepsTime DEF ServerMoves, vars
<1>2. CASE t = s
  BY <1>1, <1>2 DEF ServerHolds
<1>3. CASE t # s
  <2> DEFINE row == ha_node[NameOf[t]]
  <2>1. /\ HoldKept(main[t], info[t], rtc[t], row, now) /\ Kept /\ SteadyCluster
        /\ IsCluster(t) /\ info[s].pc # "remove" /\ 2 * PollPeriod <= DefaultDelay
        /\ info[t] \in Info /\ row \in Row /\ now \in Nat /\ NameOf[t] \in Names
    BY HoldFacts, KeptFacts
  <2>2. main'[t] = main[t] /\ rtc'[t] = rtc[t] /\ (SteadyMove(s) \/ UNCHANGED vars)
    BY <1>3 DEF ServerMoves
  <2>3. info'[t] = info[t]
    <3>1. CASE StartServer(s)
      BY <1>3, <2>1, <3>1 DEF StartServer, Kept, Inv, TypeInv, TypeOK
    <3>2. CASE ManagerStep(s) \/ SteadyOrder(s)
      BY <1>3, <2>1, <3>2, OneManagerMoves DEF SteadyOrder, Ordered, Kept, Inv
    <3>3. CASE UNCHANGED vars
      BY <3>3 DEF vars
    <3> QED  BY <2>2, <3>1, <3>2, <3>3 DEF SteadyMove
  <2>4. ASSUME KeepsRow(info[t], row, now) PROVE ha_node'[NameOf[t]] = row
    <3>1. row.status = "active" /\ now < row.lastaccess + DefaultDelay
      BY <2>1, <2>4, KeptLives DEF KeepsRow
    <3>2. NameOf[t] # NameOf[s] /\ NameOf[t] # Standalone
      BY <1>3, <2>1 DEF SteadyCluster, IsCluster
    <3>3. CASE SteadyMove(s)
      BY <2>1, <3>1, <3>2, <3>3, LeaseSafe DEF Kept
    <3>4. CASE UNCHANGED vars
      BY <3>4 DEF vars
    <3> QED  BY <2>2, <3>3, <3>4
  <2> QED  BY <1>1, <2>1, <2>2, <2>3, <2>4 DEF HoldKept
<1> QED  BY <1>2, <1>3

LEMMA HoldStep ==
  ASSUME Holding, ReliableCluster, [ClusterNext]_clusterVars
  PROVE  Holding'
<1>1. Kept /\ SteadyCluster /\ Acknowledged /\ Events \cap {"delay", "remove", "kill"} = {}
  BY DEF Holding, ReliableCluster, SteadyCluster
<1>2. Kept' /\ TypeInv' /\ PatientInv'
  <2>1. Kept'
    BY <1>1, KeptStep
  <2> QED  BY <2>1 DEF Kept, Inv
<1>3. SessionInv'
  <2>1. [SteadyStep]_vars
    BY <1>1, SteadySteps DEF clusterVars
  <2>2. \A s \in Servers : info[s].pc # "remove" /\ IsCluster(s)
    BY HoldFacts
  <2> QED  BY <1>1, <2>1, <2>2, SessionsHeld DEF Holding, Kept
<1>4. ASSUME NEW s \in Servers, Manager(s) \/ MainStep(s) \/ Interference(s)
      PROVE  HoldInv'
  <2>1. ServerMoves(s)
    BY <1>1, <1>2, <1>4, ServersMove
  <2>2. info'[s].failover_delay = DefaultDelay
    BY <1>2 DEF PatientInv, Patience
  <2>3. ServerHolds(s)
    BY <1>1, <1>2, <1>4, <2>2, ManagerHolds, StartHolds, GetStatusHolds, StartedHolds,
       LoopHolds, PauseHolds, ExitHolds DEF MainStep, Interference
  <2> QED  BY <2>1, <2>3, OthersHold
<1>5. ASSUME ClusterTick PROVE HoldInv'
  BY <1>5, TickHolds DEF HoldInv
<1>6. ASSUME UNCHANGED clusterVars PROVE HoldInv'
  <2>1. UNCHANGED <<ha_node, now, info, main, rtc>>
    BY <1>6 DEF clusterVars, vars
  <2> QED  BY <2>1 DEF Holding, HoldInv
<1>7. HoldInv'
  BY <1>4, <1>5, <1>6 DEF ClusterNext
<1> QED  BY <1>2, <1>3, <1>7 DEF Holding

LEMMA HoldInit == ClusterInit => Holding
<1> SUFFICES ASSUME ClusterInit PROVE Holding
  OBVIOUS
<1>1. /\ OffMain.children = FALSE /\ OffMain.pc = "off" /\ OffInfo.ha_status = "unknown"
  BY DEF OffMain, OffInfo, StartedInfo
<1>2. ASSUME NEW s \in Servers PROVE main[s] = OffMain /\ info[s] = OffInfo
  BY DEF ClusterInit, Init
<1>3. SessionInv
  BY <1>1, <1>2 DEF SessionInv, SessionHeld
<1>4. HoldInv
  BY <1>1, <1>2 DEF HoldInv, HoldKept, Up
<1> QED  BY <1>3, <1>4, KeptInit DEF Holding

(***************************************************************************)
(* zbx_ha_pause: the manager of a server that exits goes on refreshing its *)
(* row until the server processes have ended, so no other node serves in   *)
(* the meantime.                                                           *)
(***************************************************************************)
THEOREM ExitsAlone ==
  ASSUME ReliableCluster
  PROVE  ClusterSpec => []NoOverlapOnExit
<1>1. Holding /\ [ClusterNext]_clusterVars => Holding'
  BY HoldStep
<1>2. Holding => NoOverlapOnExit
  <2> SUFFICES ASSUME Holding, NEW s \in Servers, NEW t \in Servers,
                      main[s].children, Serving(t)
               PROVE  s = t
    BY DEF NoOverlapOnExit
  <2>1. ASSUME NEW u \in Servers, main[u].children
        PROVE  ha_node[NameOf[u]].status = "active" /\ NameOf[u] \in Names
    <3>1. main[u].children = TRUE
      BY <2>1, HoldFacts, KeptFacts DEF Main
    <3> QED  BY <3>1, HoldFacts, KeptFacts DEF HoldKept, KeepsRow
  <2>2. NameOf[s] = NameOf[t]
    BY <2>1 DEF Serving, Holding, Kept, Inv, ActiveInv, SingleActive
  <2> QED  BY <2>2 DEF ReliableCluster, SteadyCluster
<1> QED  BY <1>1, <1>2, HoldInit, PTL DEF ClusterSpec
=============================================================================
