------------------------- MODULE Supervisor_proofs -------------------------
(***************************************************************************)
(* Proofs about the order in which processes start and stop, for every set *)
(* of processes and units, every number of run levels and any crashes,     *)
(* terminations and changes of the HA status.  Inv, the invariant of the   *)
(* startup, follows the one request for a run level that is under way;     *)
(* More, the invariant of the stop, rests on it: it says how far the main  *)
(* process and the supervisor have got when a process may leave.           *)
(***************************************************************************)
EXTENDS Supervisor, FiniteSetTheorems, SequenceTheorems, WellFoundedInduction, TLAPS

(* Processes that report are those that zbx_supervisor_set_process_running *)
(* is called by.                                                           *)
TypeInv ==
    /\ level \in Levels /\ asked \in Levels /\ runlevel \in Levels
    /\ oks \in Nat /\ waits \in Seq(Levels) /\ subs \subseteq Levels
    /\ DOMAIN pstate = Proc
    /\ reports \subseteq Reporter \cap Proc /\ reported \subseteq Reporter \cap Proc
    /\ \A p \in Proc : pstate[p] = "subscribed" => p \in Reporter

(* Where the main process is in server_startup.                            *)
MainInv ==
    /\ asked <= level
    /\ pc = "connect" => asked < level
    /\ pc \in {"connect", "poll"} => ret = "succeed"

(* A startup that neither failed nor lost the active status has one request *)
(* for a run level under way at most: as a request, with the supervisor or  *)
(* as a reply.  The reply carries no run level, and yet it is the answer.   *)
Starting == ha = "active" /\ ret = "succeed"
Asked ==
    \/ waits = <<level>> /\ subs = {} /\ oks = 0
    \/ waits = <<>> /\ subs = {level} /\ oks = 0
    \/ waits = <<>> /\ subs = {} /\ oks = 1 /\ level <= runlevel
NotAsked == waits = <<>> /\ subs = {} /\ oks = 0
RequestInv ==
    Starting => /\ pc = "poll" /\ asked = level => Asked
                /\ pc # "poll" \/ asked # level => NotAsked
                /\ pc = "start" => level <= runlevel

(* Nothing has been started beyond the run level the supervisor has reached. *)
StartedInv ==
    /\ \A u \in Unit : pstate[u] # "none" => Level[u] <= runlevel
    /\ ha = "active" =>
         \A p \in Child : (pstate[p] # "none" /\ (ret = "fail" => Level[p] < level))
                              => Level[p] <= runlevel

Inv == TypeInv /\ MainInv /\ RequestInv /\ RunlevelTrue /\ StartedInv

---------------------------------------------------------------------------
(* Run levels (supervisor_update_runlevel). *)

(* A set of run levels that is not empty has a first one. *)
LEMMA FirstLevel ==
  ASSUME NEW S \in SUBSET Levels, S # {}
  PROVE  \E i \in S : \A j \in S : i <= j
<1>1. S \subseteq Nat
  BY LevelAssumption DEF Levels
<1> DEFINE R == {ss \in Nat \X Nat : ss[1] < ss[2]}
<1>2. IsWellFoundedOn(R, Nat)
  BY NatLessThanWellFounded DEF OpToRel
<1>3. \E i \in S : \A j \in S : ~(<<j, i>> \in R)
  <2> HIDE DEF R
  <2> QED  BY <1>1, <1>2, WFMin
<1>4. PICK i \in S : \A j \in S : ~(<<j, i>> \in R)
  BY <1>3
<1>5. ASSUME NEW j \in S PROVE i <= j
  <2>1. i \in Nat /\ j \in Nat
    BY <1>1
  <2>2. ~(j < i)
    BY <1>4, <2>1
  <2> QED  BY <2>1, <2>2
<1> QED  BY <1>5

(* The new run level is not behind the old one, and everything below it has *)
(* reported: there is always a next level, because the last one has a       *)
(* process that never reports.                                              *)
LEMMA NextRunlevel ==
  ASSUME TypeInv, RunlevelTrue, NEW p \in reports, Level[p] = runlevel,
         NEW r, r = UpdateRunlevel(runlevel, reported \cup {p})
  PROVE  /\ r \in Levels /\ runlevel <= r
         /\ \A q \in Proc : Level[q] < r => q \in reported \cup {p}
<1> DEFINE done == reported \cup {p}
           ahead == {i \in Pending(done) : runlevel <= i}
<1>1. LastLevel \in Nat /\ Level \in [Proc -> Levels] /\ runlevel \in Levels
      /\ Levels \subseteq Nat
  BY LevelAssumption DEF TypeInv, Levels
<1>2. LastLevel \in ahead
  <2>1. PICK q \in Child : Level[q] = LastLevel /\ q \notin Reporter
    BY NeverDoneAssumption
  <2>2. q \in Proc /\ q \notin done
    BY <2>1 DEF Proc, TypeInv
  <2>3. LastLevel \in Pending(done)
    BY <1>1, <2>1, <2>2 DEF Pending, AtLevel, Levels
  <2> QED  BY <1>1, <2>3 DEF Levels
<1>3. ahead \in SUBSET Levels
  BY DEF Pending
<1>4. PICK i \in ahead : \A j \in ahead : i <= j
  BY <1>2, <1>3, FirstLevel
<1>5. /\ r \in Pending(done) /\ r >= runlevel
      /\ \A j \in Pending(done) : j >= runlevel => r <= j
  <2>1. i \in Pending(done) /\ i >= runlevel
        /\ \A j \in Pending(done) : j >= runlevel => i <= j
    BY <1>1, <1>3, <1>4
  <2>2. r = UpdateRunlevel(runlevel, done)
    OBVIOUS
  <2> HIDE DEF done
  <2> QED  BY <2>1, <2>2 DEF UpdateRunlevel
<1>6. ASSUME NEW q \in Proc, Level[q] < r, q \notin done
      PROVE  FALSE
  <2>1. Level[q] \in Pending(done) /\ Level[q] \in Levels
    BY <1>1, <1>6 DEF Pending, AtLevel
  <2>2. Level[q] >= runlevel
    <3>1. ~(Level[q] < runlevel)
      BY <1>6 DEF RunlevelTrue
    <3>2. Level[q] \in Nat /\ runlevel \in Nat
      BY <1>1, <2>1
    <3> QED  BY <3>1, <3>2
  <2>3. r \in Levels /\ r <= Level[q]
    BY <1>5, <2>1, <2>2 DEF Pending
  <2>4. r \in Nat /\ Level[q] \in Nat
    BY <1>1, <2>1, <2>3
  <2> QED  BY <1>6, <2>3, <2>4
<1>7. r \in Levels /\ runlevel <= r
  BY <1>1, <1>5 DEF Pending
<1> QED  BY <1>6, <1>7

---------------------------------------------------------------------------
(* The steps. *)

(* Steps that start nothing and leave the requests and run levels alone. *)
LEMMA QuietStep ==
  ASSUME Inv,
         UNCHANGED <<level, asked, ret, waits, oks, reported, runlevel, subs>>,
         ha' = "active" => ha = "active",
         pc' = pc \/ \A where \in {"start", "connect", "poll"} : pc # where /\ pc' # where,
         DOMAIN pstate' = Proc,
         \A p \in Proc : /\ pstate'[p] # "none" => pstate[p] # "none"
                         /\ pstate'[p] = "subscribed" => p \in Reporter,
         reports' \subseteq Reporter \cap Proc
  PROVE  Inv'
<1>1. TypeInv'
  BY DEF Inv, TypeInv
<1>2. MainInv' /\ RunlevelTrue'
  BY DEF Inv, MainInv, RunlevelTrue
<1>3. RequestInv'
  BY DEF Inv, RequestInv, Starting, Asked, NotAsked
<1>4. StartedInv'
  BY DEF Inv, StartedInv, Proc
<1> QED  BY <1>1, <1>2, <1>3, <1>4 DEF Inv

(* The lives of the processes after some of them have died. *)
LEMMA DieStep ==
  ASSUME Inv, NEW S, Die(S)
  PROVE  /\ DOMAIN pstate' = Proc
         /\ \A p \in Proc : /\ pstate'[p] # "none" => pstate[p] # "none"
                            /\ pstate'[p] = "subscribed" => p \in Reporter
         /\ UNCHANGED <<reported, runlevel, subs, msgVars>>
<1>1. \A p \in Proc : pstate'[p] \in {pstate[p], "ended"}
                        /\ (pstate'[p] # pstate[p] => Alive(p))
  BY DEF Die
<1> QED  BY <1>1 DEF Die, Alive, Inv, TypeInv

(* start_processes: the run level has been reached, unless the startup is  *)
(* failing, and then the level is left out.                                *)
LEMMA StartProcessesStep == Inv /\ StartProcesses => Inv'
<1> SUFFICES ASSUME Inv, StartProcesses PROVE Inv'
  OBVIOUS
<1>1. /\ pc = "start"
      /\ UNCHANGED <<asked, ret, ha, waits, oks, reports, reported, runlevel, subs>>
      /\ DOMAIN pstate' = Proc
      /\ level \in Nat /\ asked \in Nat /\ LastLevel \in Nat /\ asked <= level
      /\ level <= LastLevel /\ level \in Levels
  BY LevelAssumption DEF StartProcesses, svVars, msgVars, Inv, TypeInv, MainInv, Levels
<1>2. ASSUME NEW p \in Proc, pstate'[p] # pstate[p]
      PROVE  pstate'[p] = "forked" /\ p \in Child /\ Level[p] = level
  BY <1>2 DEF StartProcesses, AtLevel
<1>3. \/ pc' = "stop" /\ ret = "fail" /\ level' = level
      \/ /\ pc' \in {"connect", "poll"} /\ ret = "succeed"
         /\ level' = level + 1 /\ level < LastLevel
      \/ pc' = "run" /\ ret = "succeed" /\ level' = level
  BY DEF StartProcesses
<1>4. TypeInv'
  <2>1. level' \in Levels
    BY <1>1, <1>3 DEF Levels
  <2>2. \A p \in Proc : pstate'[p] = "subscribed" => p \in Reporter
    BY <1>2 DEF Inv, TypeInv
  <2> QED  BY <1>1, <2>1, <2>2 DEF Inv, TypeInv
<1>5. MainInv'
  BY <1>1, <1>3 DEF MainInv
<1>6. RequestInv'
  BY <1>1, <1>3 DEF Inv, RequestInv, Starting, NotAsked
<1>7. StartedInv'
  <2>1. \A u \in Unit : pstate'[u] # "none" => Level[u] <= runlevel
    BY <1>2, SupAssumption DEF Inv, StartedInv, Proc
  <2>2. ASSUME ha = "active", NEW p \in Child, pstate'[p] # "none",
               ret = "fail" => Level[p] < level'
        PROVE  Level[p] <= runlevel
    <3>1. p \in Proc
      BY DEF Proc
    <3>2. CASE ret = "fail"
      <4>1. level' = level /\ Level[p] < level /\ Level[p] # level
        BY <1>1, <1>3, <2>2, <3>1, <3>2, LevelAssumption DEF Levels
      <4> QED  BY <1>2, <2>2, <3>1, <4>1 DEF Inv, StartedInv
    <3>3. CASE ret # "fail"
      <4>1. level <= runlevel
        BY <1>1, <1>3, <2>2, <3>3 DEF Inv, RequestInv, Starting
      <4> QED  BY <1>2, <2>2, <3>1, <3>3, <4>1 DEF Inv, StartedInv
    <3> QED  BY <3>2, <3>3
  <2> QED  BY <1>1, <2>1, <2>2 DEF StartedInv
<1>8. RunlevelTrue'
  BY <1>1 DEF Inv, RunlevelTrue
<1> QED  BY <1>4, <1>5, <1>6, <1>7, <1>8 DEF Inv

(* The wait of the main process for a run level.                           *)
LEMMA PollStep == Inv /\ (Connect \/ PollAsk \/ PollOk \/ PollTimeout) => Inv'
<1> SUFFICES ASSUME Inv, Connect \/ PollAsk \/ PollOk \/ PollTimeout PROVE Inv'
  OBVIOUS
<1>1. UNCHANGED <<level, pstate, reports, reported, runlevel, subs>>
      /\ RunlevelTrue' /\ asked \in Nat /\ level \in Nat /\ asked <= level
  BY LevelAssumption DEF Connect, PollAsk, PollOk, PollTimeout, svVars, msgVars, procVars,
     Inv, RunlevelTrue, TypeInv, MainInv, Levels
<1>2. ASSUME ha' = "active" => ha = "active", ret = "fail" => ret' = "fail"
      PROVE  StartedInv'
  BY <1>1, <1>2 DEF Inv, StartedInv
<1>3. CASE Connect
  <2>1. /\ pc = "connect" /\ ret = "succeed" /\ asked < level
        /\ UNCHANGED <<asked, ha, waits, oks>>
    BY <1>3 DEF Connect, msgVars, Inv, MainInv
  <2>2. \/ pc' = "poll" /\ ret' = ret
        \/ pc' = "stop" /\ ret' = "fail"
    BY <1>3 DEF Connect
  <2>3. TypeInv' /\ MainInv'
    BY <1>1, <2>1, <2>2 DEF Inv, TypeInv, MainInv
  <2>4. RequestInv'
    BY <1>1, <2>1, <2>2 DEF Inv, RequestInv, Starting, NotAsked
  <2>5. StartedInv'
    BY <1>2, <2>1, <2>2
  <2> QED  BY <1>1, <2>3, <2>4, <2>5 DEF Inv
<1>4. CASE PollAsk
  <2>1. /\ pc = "poll" /\ asked # level /\ asked' = level
        /\ waits' = Append(waits, level)
        /\ UNCHANGED <<pc, ret, ha, oks>>
    BY <1>4 DEF PollAsk
  <2>2. TypeInv' /\ MainInv'
    BY <1>1, <2>1 DEF Inv, TypeInv, MainInv
  <2>3. Starting => waits' = <<level>>
    BY <2>1 DEF Inv, RequestInv, NotAsked
  <2>4. RequestInv'
    BY <1>1, <2>1, <2>3 DEF Inv, RequestInv, Starting, Asked, NotAsked
  <2>5. StartedInv'
    BY <1>2, <2>1
  <2> QED  BY <1>1, <2>2, <2>4, <2>5 DEF Inv
<1>5. CASE PollOk
  <2>1. /\ pc = "poll" /\ asked = level /\ oks > 0 /\ oks' = oks - 1
        /\ pc' = "start" /\ ret' = "succeed" /\ ret = "succeed"
        /\ UNCHANGED <<asked, ha, waits>>
    BY <1>5 DEF PollOk, Inv, MainInv
  <2>2. TypeInv' /\ MainInv'
    BY <1>1, <2>1 DEF Inv, TypeInv, MainInv
  <2>3. RequestInv'
    BY <1>1, <2>1 DEF Inv, RequestInv, Starting, Asked, NotAsked
  <2>4. StartedInv'
    BY <1>2, <2>1
  <2> QED  BY <1>1, <2>2, <2>3, <2>4 DEF Inv
<1>6. CASE PollTimeout
  <2>1. /\ pc = "poll" /\ ret = "succeed" /\ pc' = "start" /\ ret' \in {"succeed", "fail"}
        /\ ha' = "active" => ha = "active" /\ ret' = "fail"
        /\ UNCHANGED <<asked, waits, oks>>
    BY <1>6 DEF PollTimeout, ReadHa, msgVars, Inv, MainInv
  <2>2. TypeInv' /\ MainInv'
    BY <1>1, <2>1 DEF Inv, TypeInv, MainInv
  <2>3. RequestInv'
    BY <2>1 DEF RequestInv, Starting
  <2>4. StartedInv'
    BY <1>2, <2>1
  <2> QED  BY <1>1, <2>2, <2>3, <2>4 DEF Inv
<1> QED  BY <1>3, <1>4, <1>5, <1>6

(* supervisor_handle_proc_start: the run level may rise, units start, and  *)
(* the request that has waited for it is answered.                         *)
LEMMA HandleReportStep ==
  ASSUME Inv, NEW p \in Proc, HandleReport(p)
  PROVE  Inv'
<1> DEFINE r == IF Level[p] = runlevel THEN UpdateRunlevel(runlevel, reported \cup {p})
                ELSE runlevel
           reached == {i \in subs : i <= r}
<1>1. /\ p \in reports /\ reports' = reports \ {p} /\ reported' = reported \cup {p}
      /\ UNCHANGED <<pc, level, asked, ret, ha, waits>>
      /\ subs' = IF r = runlevel THEN subs ELSE subs \ reached
      /\ oks' = IF r = runlevel THEN oks ELSE oks + Cardinality(reached)
      /\ StartUnits(r)
  BY DEF HandleReport, mainVars
<1>2. /\ level \in Nat /\ runlevel \in Levels /\ oks \in Nat /\ DOMAIN pstate = Proc
      /\ Levels \subseteq Nat
  BY LevelAssumption DEF Inv, TypeInv, Levels
<1>3. /\ r \in Levels /\ runlevel <= r
      /\ \A q \in Proc : Level[q] < r => q \in reported'
  <2>1. CASE Level[p] = runlevel
    BY <1>1, <2>1, NextRunlevel DEF Inv
  <2>2. CASE Level[p] # runlevel
    BY <1>1, <1>2, <2>2 DEF Inv, RunlevelTrue
  <2> QED  BY <2>1, <2>2
<1> HIDE DEF r
<1>4. runlevel' = r /\ DOMAIN pstate' = Proc
  BY <1>1, <1>2 DEF StartUnits
<1>5. ASSUME NEW q \in Proc
      PROVE  \/ pstate'[q] = pstate[q]
             \/ pstate'[q] = "forked" /\ q \in Unit /\ Level[q] <= r
  BY <1>1, <1>2 DEF StartUnits
<1>6. Starting => \/ subs = {} /\ subs' = {} /\ oks' = oks
                  \/ /\ subs = {level} /\ oks = 0
                     /\ \/ subs' = {level} /\ oks' = 0
                        \/ subs' = {} /\ oks' = 1 /\ level <= r
  <2>1. ASSUME subs = {} PROVE subs' = {} /\ oks' = oks
    <3>1. reached = {} /\ Cardinality({}) = 0
      BY <2>1, FS_EmptySet
    <3> HIDE DEF reached
    <3> QED  BY <1>1, <1>2, <2>1, <3>1
  <2>2. ASSUME subs = {level}, oks = 0
        PROVE  \/ subs' = {level} /\ oks' = 0
               \/ subs' = {} /\ oks' = 1 /\ level <= r
    <3>1. Cardinality({level}) = 1 /\ Cardinality({}) = 0
      BY FS_Singleton, FS_EmptySet
    <3>2. CASE level <= r
      <4>1. reached = {level}
        BY <2>2, <3>2
      <4> HIDE DEF reached
      <4> QED  BY <1>1, <2>2, <3>1, <3>2, <4>1
    <3>3. CASE ~(level <= r)
      <4>1. reached = {}
        BY <2>2, <3>3
      <4> HIDE DEF reached
      <4> QED  BY <1>1, <2>2, <3>1, <4>1
    <3> QED  BY <3>2, <3>3
  <2>3. Starting => subs = {} \/ (subs = {level} /\ oks = 0)
    BY DEF Inv, RequestInv, Asked, NotAsked
  <2> QED  BY <2>1, <2>2, <2>3
<1>7. oks' \in Nat
  <2>1. CASE r = runlevel
    BY <1>1, <1>2, <2>1
  <2>2. CASE r # runlevel
    <3>1. IsFiniteSet(0 .. r)
      BY <1>2, <1>3, FS_Interval
    <3>2. reached \subseteq 0 .. r
      <4>1. subs \subseteq Nat /\ r \in Nat
        BY <1>2, <1>3 DEF Inv, TypeInv
      <4>2. ASSUME NEW i \in subs, i <= r PROVE i \in 0 .. r
        BY <4>1, <4>2
      <4> QED  BY <4>2
    <3>3. Cardinality(reached) \in Nat
      BY <3>1, <3>2, FS_Subset, FS_CardinalityType
    <3> QED  BY <1>1, <1>2, <2>2, <3>3
  <2> QED  BY <2>1, <2>2
<1>8. TypeInv'
  BY <1>1, <1>3, <1>4, <1>5, <1>7 DEF Inv, TypeInv
<1>9. MainInv'
  BY <1>1 DEF Inv, MainInv
<1>10. RequestInv'
  <2>1. r \in Nat /\ runlevel \in Nat /\ runlevel <= r
    BY <1>2, <1>3
  <2>2. CASE Starting /\ pc = "poll" /\ asked = level
    <3>1. Asked
      BY <2>2 DEF Inv, RequestInv
    <3>2. Asked'
      <4>1. CASE waits = <<level>> /\ subs = {} /\ oks = 0
        BY <1>1, <1>6, <2>2, <4>1 DEF Asked
      <4>2. CASE waits = <<>> /\ subs = {level} /\ oks = 0
        BY <1>1, <1>4, <1>6, <2>2, <4>2 DEF Asked
      <4>3. CASE waits = <<>> /\ subs = {} /\ oks = 1 /\ level <= runlevel
        BY <1>1, <1>2, <1>4, <1>6, <2>1, <2>2, <4>3 DEF Asked
      <4> QED  BY <3>1, <4>1, <4>2, <4>3 DEF Asked
    <3> QED  BY <1>1, <2>2, <3>2 DEF RequestInv, Starting
  <2>3. CASE Starting /\ ~(pc = "poll" /\ asked = level)
    <3>1. NotAsked /\ (pc # "poll" \/ asked # level) /\ (pc = "start" => level <= runlevel)
      BY <2>3 DEF Inv, RequestInv
    <3>2. subs' = {} /\ oks' = 0
      BY <1>6, <2>3, <3>1 DEF NotAsked
    <3>3. level \in Nat /\ (pc = "start" => level <= r)
      BY <1>2, <2>1, <3>1
    <3> QED  BY <1>1, <1>4, <3>1, <3>2, <3>3 DEF RequestInv, NotAsked
  <2>4. CASE ~Starting
    BY <1>1, <2>4 DEF RequestInv, Starting
  <2> QED  BY <2>2, <2>3, <2>4
<1>11. RunlevelTrue'
  BY <1>3, <1>4 DEF RunlevelTrue
<1>12. StartedInv'
  <2>1. r \in Nat /\ runlevel \in Nat /\ runlevel <= r
    BY <1>2, <1>3
  <2>2. ASSUME NEW u \in Unit, pstate'[u] # "none" PROVE Level[u] <= r
    <3>1. u \in Proc /\ Level[u] \in Nat
      BY <1>2, LevelAssumption DEF Proc
    <3> QED  BY <1>5, <2>1, <2>2, <3>1 DEF Inv, StartedInv
  <2>3. ASSUME ha = "active", NEW q \in Child, pstate'[q] # "none",
               ret = "fail" => Level[q] < level
        PROVE  Level[q] <= r
    <3>1. q \in Proc /\ Level[q] \in Nat
      BY <1>2, LevelAssumption DEF Proc
    <3> QED  BY <1>5, <2>1, <2>3, <3>1 DEF Inv, StartedInv
  <2> QED  BY <1>1, <1>4, <2>2, <2>3 DEF StartedInv
<1> QED  BY <1>8, <1>9, <1>10, <1>11, <1>12 DEF Inv

(* supervisor_handle_runlevel_sub: a request is answered when its run level *)
(* has been reached.                                                       *)
LEMMA HandleWaitStep == Inv /\ HandleWait => Inv'
<1> SUFFICES ASSUME Inv, HandleWait PROVE Inv'
  OBVIOUS
<1>1. /\ waits # <<>> /\ waits' = Tail(waits)
      /\ UNCHANGED <<pc, level, asked, ret, ha, pstate, reports, reported, runlevel>>
      /\ oks \in Nat /\ level \in Nat /\ runlevel \in Nat
  BY LevelAssumption DEF HandleWait, mainVars, procVars, Inv, TypeInv, Levels
<1>2. \/ Head(waits) <= runlevel /\ oks' = oks + 1 /\ subs' = subs
      \/ Head(waits) > runlevel /\ subs' = subs \cup {Head(waits)} /\ oks' = oks
  BY DEF HandleWait
<1>3. /\ MainInv' /\ RunlevelTrue' /\ StartedInv'
      /\ Head(waits) \in Levels /\ Tail(waits) \in Seq(Levels)
  <2>1. MainInv' /\ RunlevelTrue' /\ StartedInv'
    BY <1>1 DEF Inv, MainInv, RunlevelTrue, StartedInv
  <2>2. waits \in Seq(Levels) /\ waits # <<>>
    BY <1>1 DEF Inv, TypeInv
  <2>3. Head(waits) \in Levels /\ Tail(waits) \in Seq(Levels)
    BY <2>2, HeadTailProperties
  <2> QED  BY <2>1, <2>3
<1>7. TypeInv'
  <2>1. oks' \in Nat /\ subs' \subseteq Levels /\ waits' \in Seq(Levels)
    <3>1. subs \subseteq Levels
      BY DEF Inv, TypeInv
    <3>2. subs' = subs \/ subs' = subs \cup {Head(waits)}
      BY <1>2
    <3>3. subs' \subseteq Levels
      BY <1>3, <3>1, <3>2, Zenon
    <3>4. oks' \in Nat
      BY <1>1, <1>2
    <3> QED  BY <1>1, <1>3, <3>3, <3>4
  <2> QED  BY <1>1, <2>1 DEF Inv, TypeInv
<1>4. Starting => /\ pc = "poll" /\ asked = level
                  /\ waits = <<level>> /\ subs = {} /\ oks = 0
  BY <1>1 DEF Inv, RequestInv, Asked, NotAsked
<1>5. Head(<<level>>) = level /\ Tail(<<level>>) = <<>>
  OBVIOUS
<1>6. Starting => Asked'
  <2> SUFFICES ASSUME Starting PROVE Asked'
    OBVIOUS
  <2>1. waits = <<level>> /\ waits' = <<>> /\ subs = {} /\ oks = 0 /\ Head(waits) = level
    BY <1>1, <1>4, <1>5
  <2> QED  BY <1>1, <1>2, <2>1 DEF Asked
<1>8. RequestInv'
  BY <1>1, <1>4, <1>6 DEF RequestInv, Starting
<1> QED  BY <1>3, <1>7, <1>8 DEF Inv

(* All other steps start nothing.                                          *)
LEMMA OtherSteps ==
  ASSUME Inv,
         \/ MainLoop \/ Teardown \/ ShutdownSubs \/ KillGroup \/ GroupEnded
         \/ GroupTimeout \/ KillRest \/ Terminate
         \/ SupervisorStart \/ SupervisorStop \/ SupervisorEnd
         \/ \E p \in Proc : ProcStep(p)
         \/ \E p \in Child : Crash(p)
         \/ \E u \in Unit : UnitCrash(u)
         \/ UNCHANGED vars
  PROVE  Inv'
<1>1. /\ DOMAIN pstate = Proc /\ reports \subseteq Reporter \cap Proc
      /\ Sup \in Proc /\ Sup \in Reporter
      /\ \A p \in Proc : pstate[p] = "subscribed" => p \in Reporter
  BY ReporterAssumption DEF Inv, TypeInv, Proc, Child
<1>2. CASE MainLoop \/ ShutdownSubs \/ KillGroup \/ GroupEnded \/ Terminate
  <2>1. UNCHANGED <<level, asked, ret, waits, oks, reports, reported, runlevel, subs, pstate>>
    BY <1>2 DEF MainLoop, ShutdownSubs, KillGroup, GroupEnded, Terminate, svVars, msgVars,
       procVars
  <2>2. /\ ha' = "active" => ha = "active"
        /\ pc' = pc \/ \A where \in {"start", "connect", "poll"} : pc # where /\ pc' # where
    BY <1>2 DEF MainLoop, ShutdownSubs, KillGroup, GroupEnded, Terminate, ReadHa
  <2> QED  BY <1>1, <2>1, <2>2, QuietStep
<1>3. CASE Teardown
  <2>1. /\ UNCHANGED <<level, asked, ret, waits, oks, reports, reported, runlevel, subs>>
        /\ DOMAIN pstate' = Proc /\ pc = "run" /\ pc' = "standby"
        /\ ha' = "active" => ha = "active"
        /\ \A p \in Proc : \/ pstate'[p] = pstate[p]
                           \/ pstate'[p] = "ended" /\ Alive(p)
    BY <1>3 DEF Teardown, msgVars, ReadHa
  <2> QED  BY <1>1, <2>1, QuietStep DEF Alive
<1>4. CASE GroupTimeout \/ KillRest
  <2>1. /\ UNCHANGED <<level, asked, ret, ha>>
        /\ pc \in {"await", "kill"} /\ pc' \in {"await", "kill", "exited"}
        /\ (UNCHANGED <<reported, runlevel, subs, msgVars, pstate>> \/ Die(Child))
    BY <1>4 DEF GroupTimeout, KillRest, svVars
  <2>2. CASE Die(Child)
    BY <1>1, <2>1, <2>2, DieStep, QuietStep DEF msgVars
  <2>3. CASE UNCHANGED <<reported, runlevel, subs, msgVars, pstate>>
    BY <1>1, <2>1, <2>3, QuietStep DEF msgVars
  <2> QED  BY <2>1, <2>2, <2>3
<1>5. ASSUME NEW p \in Child, Crash(p) PROVE Inv'
  <2>1. Die({p}) /\ UNCHANGED mainVars
    BY <1>5 DEF Crash
  <2> QED  BY <1>1, <2>1, DieStep, QuietStep DEF mainVars, msgVars
<1>6. ASSUME NEW p \in Proc, NEW life, life = "subscribed" => p \in Reporter, pstate[p] # "none",
             pstate' = [pstate EXCEPT ![p] = life],
             UNCHANGED <<mainVars, waits, oks, reported, runlevel, subs>>,
             reports' \subseteq Reporter \cap Proc
      PROVE  Inv'
  <2>1. UNCHANGED <<pc, level, asked, ret, ha, waits, oks, reported, runlevel, subs>>
    BY <1>6 DEF mainVars
  <2>2. /\ DOMAIN pstate' = Proc
        /\ \A q \in Proc : /\ pstate'[q] # "none" => pstate[q] # "none"
                           /\ pstate'[q] = "subscribed" => q \in Reporter
    BY <1>1, <1>6
  <2> QED  BY <1>6, <2>1, <2>2, QuietStep
<1>7. CASE SupervisorStart
  <2>1. /\ pstate[Sup] = "forked" /\ pstate' = [pstate EXCEPT ![Sup] = "subscribed"]
        /\ UNCHANGED <<mainVars, waits, oks, reports, reported, runlevel, subs>>
    BY <1>7 DEF SupervisorStart, msgVars
  <2> QED  BY <1>1, <1>6, <2>1
<1>8. CASE SupervisorStop
  <2>1. UNCHANGED <<mainVars, msgVars, reported, runlevel, subs, pstate>>
    BY <1>8 DEF SupervisorStop, procVars
  <2> QED  BY <1>1, <2>1, QuietStep DEF mainVars, msgVars
<1>9. CASE SupervisorEnd
  <2>1. /\ UNCHANGED <<pc, level, asked, ret, ha, waits, oks, reports, reported, runlevel, subs>>
        /\ pstate' = [pstate EXCEPT ![Sup] = "ended"]
    BY <1>9 DEF SupervisorEnd, mainVars, msgVars
  <2>2. /\ DOMAIN pstate' = Proc /\ Sup \notin Unit /\ Level[Sup] <= runlevel
        /\ \A q \in Proc : \/ pstate'[q] = pstate[q]
                           \/ q = Sup /\ pstate'[q] = "ended"
    BY <1>1, <2>1, SupAssumption, LevelAssumption DEF Inv, TypeInv, Levels
  <2>3. TypeInv' /\ MainInv' /\ RequestInv' /\ RunlevelTrue'
    BY <1>1, <2>1, <2>2 DEF Inv, TypeInv, MainInv, RequestInv, Starting, Asked, NotAsked,
       RunlevelTrue
  <2>4. StartedInv'
    BY <2>1, <2>2 DEF Inv, StartedInv, Proc
  <2> QED  BY <2>3, <2>4 DEF Inv
<1>10. ASSUME NEW u \in Unit, UnitCrash(u) PROVE Inv'
  <2>1. /\ pstate[u] # "none" /\ pstate' = [pstate EXCEPT ![u] = "crashed"] /\ u \in Proc
        /\ UNCHANGED <<mainVars, waits, oks, reports, reported, runlevel, subs>>
    BY <1>10 DEF UnitCrash, svVars, msgVars, Proc
  <2> QED  BY <1>1, <1>6, <2>1
<1>11. ASSUME NEW p \in Proc, ProcStep(p) PROVE Inv'
  <2>1. CASE Subscribe(p)
    <3>1. /\ pstate[p] # "none"
          /\ pstate' = [pstate EXCEPT ![p] = IF p \in Reporter THEN "subscribed" ELSE "up"]
          /\ UNCHANGED <<mainVars, waits, oks, reports, reported, runlevel, subs>>
      BY <2>1 DEF Subscribe, svVars, msgVars
    <3> QED  BY <1>1, <1>6, <3>1
  <2>2. CASE ReportRunning(p)
    <3>1. /\ pstate[p] = "subscribed" /\ pstate' = [pstate EXCEPT ![p] = "up"]
          /\ reports' = reports \cup {p}
          /\ UNCHANGED <<mainVars, waits, oks, reported, runlevel, subs>>
      BY <2>2 DEF ReportRunning, svVars
    <3> QED  BY <1>1, <1>6, <3>1
  <2>3. CASE UnitStops(p) \/ ChildStops(p) \/ SyncerReleases(p) \/ SyncerEnds(p)
    <3>1. /\ pstate[p] # "none"
          /\ \E life \in {"ended", "idle", "released"} : pstate' = [pstate EXCEPT ![p] = life]
          /\ UNCHANGED <<mainVars, waits, oks, reports, reported, runlevel, subs>>
      BY <2>3 DEF UnitStops, ChildStops, SyncerReleases, SyncerEnds, Ends, svVars, msgVars
    <3> QED  BY <1>1, <1>6, <3>1
  <2> QED  BY <1>11, <2>1, <2>2, <2>3 DEF ProcStep
<1>12. CASE UNCHANGED vars
  BY <1>1, <1>12, QuietStep DEF vars, mainVars, svVars, msgVars, procVars
<1> QED  BY <1>2, <1>3, <1>4, <1>5, <1>7, <1>8, <1>9, <1>10, <1>11, <1>12

---------------------------------------------------------------------------

(* The invariant of the startup is inductive.                              *)
LEMMA InitInv == Init => Inv
<1> SUFFICES ASSUME Init PROVE Inv
  OBVIOUS
<1>1. TypeInv
  BY LevelAssumption DEF Init, TypeInv, Levels
<1>2. MainInv /\ RequestInv
  BY DEF Init, MainInv, RequestInv, NotAsked
<1>3. RunlevelTrue
  BY LevelAssumption DEF Init, RunlevelTrue, Levels
<1>4. StartedInv
  BY DEF Init, StartedInv, Proc
<1> QED  BY <1>1, <1>2, <1>3, <1>4 DEF Inv

(* Every step is one of those above.                                       *)
LEMMA NextInv == Inv /\ [Next]_vars => Inv'
<1> SUFFICES ASSUME Inv, [Next]_vars PROVE Inv'
  OBVIOUS
<1>1. CASE Main
  BY <1>1, StartProcessesStep, PollStep, OtherSteps DEF Main
<1>2. CASE SupervisorStep
  BY <1>2, HandleReportStep, HandleWaitStep, OtherSteps DEF SupervisorStep
<1>3. CASE Environment \/ UNCHANGED vars \/ \E p \in Proc : ProcStep(p)
  BY <1>3, OtherSteps DEF Environment
<1> QED  BY <1>1, <1>2, <1>3 DEF Next

(* A process that has been started is not beyond the run level, and all     *)
(* processes below the run level have reported.                            *)
LEMMA InvOrder == Inv => StartOrder
<1> SUFFICES ASSUME Inv PROVE StartOrder
  OBVIOUS
<1>1. ASSUME NEW p \in Proc, Level[p] <= runlevel
      PROVE  LowerReported(p)
  <2>1. runlevel \in Nat /\ \A q \in Proc : Level[q] \in Nat
    BY LevelAssumption DEF Inv, TypeInv, Levels
  <2>2. ASSUME NEW q \in Proc, Level[q] < Level[p] PROVE q \in reported
    BY <1>1, <2>1, <2>2 DEF Inv, RunlevelTrue
  <2> QED  BY <2>2 DEF LowerReported
<1> QED  BY <1>1 DEF Inv, StartedInv, StartOrder, Proc

(***************************************************************************)
(* No unit starts before all processes and units of the lower run levels   *)
(* have reported to run, and no process of the main process does while the *)
(* node is active (server_startup, supervisor_start_units): the reply      *)
(* without a run level that ends a wait always belongs to that wait,       *)
(* whatever dies, terminates or times out on the way.                      *)
(***************************************************************************)
THEOREM ProcessesInOrder == Spec => []StartOrder
<1> QED  BY InitInv, NextInv, InvOrder, PTL DEF Spec

---------------------------------------------------------------------------
(* The order in which the processes stop. *)

(* The lives of processes: who has reported is in its main loop or beyond,  *)
(* the children of the run levels to come do not live yet, units live only  *)
(* under a supervisor, and history syncers are counted before they work.    *)
LifeInv ==
    /\ \A p \in reports \cup reported : pstate[p] \notin {"none", "forked", "subscribed"}
    /\ pc \in {"start", "connect", "poll"} =>
         \A p \in Child : level <= Level[p] => pstate[p] = "none"
    /\ \A s \in Syncer : pstate[s] \in {"subscribed", "up"} => s \in holders
    /\ svpc # "off" => pstate[Sup] \notin {"none", "forked", "ended"}
    /\ pstate[Sup] \in {"none", "forked"} =>
         \A u \in Unit : pstate[u] = "none" /\ runstate[u] = "idle"
    /\ pstate[Sup] = "ended" => \A u \in Unit : pstate[u] \in {"none", "ended", "crashed"}
    /\ \A u \in Unit : pstate[u] # "none" => runstate[u] # "idle"

(* The stop: nobody is told to before the main process has left its loop,   *)
(* and units stop only after the supervisor was told or one has crashed.    *)
StopInv ==
    /\ told # {} \/ stage > 1 => pc \in {"kill", "await", "exited"}
    /\ stage \in Nat /\ stage >= 1
    /\ pc = "await" => stage <= Len(Group)
    /\ pc \in {"await", "kill", "exited", "stop"} => exiting # "none"
    /\ svpc # "off" /\ ~UnitCrashed /\ Sup \notin told =>
         \A u \in Unit : runstate[u] \in {"idle", "running"}
    /\ crashes \in Nat /\ (crashes = 0 => ~UnitCrashed)

(* A server that got through its startup has reached the last run level.    *)
LateInv == Starting /\ pc \in {"run", "stop", "kill", "await", "exited"} => LastLevel <= runlevel

(* When a CEP manager has left, no history syncer works or will.            *)
CepInv ==
    Starting /\ svpc # "off" /\ ~UnitCrashed =>
        \A c \in Cep : pstate[c] = "ended" =>
            /\ pc \notin {"start", "connect", "poll"}
            /\ \A s \in Syncer : pstate[s] \notin {"none", "forked", "subscribed", "up"}

(* A graceful kill: the stage that is reached, and who is dead by then.     *)
Graceful == exiting # "fail" /\ crashes = 0 /\ ha = "active"
StageInv ==
    Graceful =>
        /\ stage >= 3 => ~Alive(Sup)
        /\ stage >= 4 => \A s \in Syncer : ~Alive(s)
        /\ \A w \in Worker : w \in signalled \/ pstate[w] = "ended" => stage >= 4

(* The invariant of the stop. *)
More == LifeInv /\ StopInv /\ LateInv /\ CepInv /\ StageInv

Startup == {"start", "connect", "poll"}
Late == {"run", "stop", "kill", "await", "exited"}

(* Facts of the sets of processes. *)
LEMMA Kinds ==
  /\ Sup \in Proc /\ Sup \in Child /\ Sup \notin Unit
  /\ Cep \subseteq Unit /\ Unit \subseteq Proc /\ Child \subseteq Proc /\ Syncer \subseteq Child
  /\ Worker \subseteq Child /\ Sup \notin Syncer /\ Sup \notin Worker
  /\ Unit \cap Child = {}
  BY SupAssumption, KindAssumption DEF Proc, Child, Unit

(* The main process moves on, and no process changes.                      *)
LEMMA MainMoves ==
  ASSUME Inv, Inv', More,
         \/ Connect \/ PollAsk \/ PollOk \/ PollTimeout \/ MainLoop \/ Terminate
         \/ ShutdownSubs \/ KillGroup \/ GroupEnded
  PROVE  More'
<1>1. UNCHANGED <<pstate, svVars, reports, holders, crashes, level>> /\ UnitCrashed' = UnitCrashed
  BY DEF Connect, PollAsk, PollOk, PollTimeout, MainLoop, Terminate, ShutdownSubs, KillGroup,
         GroupEnded, svVars, msgVars, procVars, UnitCrashed
<1>2. /\ pc' \in Startup => pc \in Startup
      /\ Starting' => Starting
      /\ Starting' /\ pc' \in Late => pc \in Late
  BY DEF Connect, PollAsk, PollOk, PollTimeout, MainLoop, Terminate, ShutdownSubs, KillGroup,
         GroupEnded, ReadHa, Starting, Startup, Late, Inv, MainInv
<1>3. LifeInv'
  BY <1>1, <1>2 DEF More, LifeInv, Startup, svVars
<1>4. StopInv'
  BY <1>1 DEF More, StopInv, Connect, PollAsk, PollOk, PollTimeout, MainLoop, Terminate,
              ShutdownSubs, KillGroup, GroupEnded, svVars, Group, IsRunning, procVars
<1>5. LateInv'
  BY <1>1, <1>2 DEF More, LateInv, Late, svVars
<1>6. CepInv'
  BY <1>1, <1>2 DEF More, CepInv, Startup, svVars
<1>7. StageInv'
  <2>1. \A p : Alive(p)' <=> Alive(p)
    BY <1>1 DEF Alive
  <2>2. Graceful' => Graceful
    BY <1>1 DEF Graceful, Connect, PollAsk, PollOk, PollTimeout, MainLoop, Terminate,
                ShutdownSubs, KillGroup, GroupEnded, ReadHa, IsRunning
  <2>3. /\ Group[1] = Collector /\ Group[2] = {Sup} /\ Group[3] = Syncer /\ Group[4] = Worker
        /\ Len(Group) = 4
    BY DEF Group
  <2>4. CASE UNCHANGED <<stage, signalled>>
    BY <1>1, <2>1, <2>2, <2>4 DEF More, StageInv
  <2>5. CASE ShutdownSubs
    BY <1>1, <2>1, <2>2, <2>5, KindAssumption DEF More, StageInv, ShutdownSubs
  <2>6. CASE KillGroup
    <3>1. stage' = stage /\ signalled' = signalled \cup Group[stage] /\ stage <= 4
          /\ stage \in Nat /\ stage >= 1
      BY <2>3, <2>6 DEF KillGroup, More, StopInv
    <3>2. stage = 1 \/ stage = 2 \/ stage = 3 \/ stage = 4
      BY <3>1
    <3>3. ASSUME NEW w \in Worker, w \in Group[stage] PROVE stage = 4
      BY <2>3, <3>2, <3>3, KindAssumption
    <3> QED  BY <1>1, <2>1, <2>2, <3>1, <3>3 DEF More, StageInv
  <2>7. CASE GroupEnded
    <3>1. stage' = stage + 1 /\ signalled' = signalled /\ stage \in Nat
          /\ \A p \in Group[stage] : ~Alive(p)
      BY <2>7 DEF GroupEnded, procVars, More, StopInv
    <3>2. /\ stage' >= 3 /\ ~(stage >= 3) => stage = 2
          /\ stage' >= 4 /\ ~(stage >= 4) => stage = 3
          /\ stage >= 3 => stage' >= 3
          /\ stage >= 4 => stage' >= 4
      BY <3>1
    <3>3. /\ stage = 2 => ~Alive(Sup)
          /\ stage = 3 => \A s \in Syncer : ~Alive(s)
      BY <2>3, <3>1
    <3> QED  BY <1>1, <2>1, <2>2, <3>1, <3>2, <3>3 DEF More, StageInv
  <2> QED
    BY <2>4, <2>5, <2>6, <2>7 DEF Connect, PollAsk, PollOk, PollTimeout, MainLoop, Terminate,
                                  procVars
<1> QED  BY <1>3, <1>4, <1>5, <1>6, <1>7 DEF More

(* start_processes: the children of the level lived not before.            *)
LEMMA StartProcessesMore ==
  ASSUME Inv, Inv', More, StartProcesses
  PROVE  More'
<1>1. /\ pc = "start" /\ DOMAIN pstate' = Proc
      /\ UNCHANGED <<ret, stage, ha, reported, runlevel, svpc, runstate, reports, told,
                     signalled, holders, crashes>>
      /\ level \in Nat /\ \A p \in Proc : Level[p] \in Nat
  BY LevelAssumption DEF StartProcesses, svVars, msgVars, Inv, TypeInv, Levels
<1>2. \A p \in Proc : \/ pstate'[p] = pstate[p]
                      \/ /\ p \in Child /\ Level[p] = level /\ pstate[p] = "none"
                         /\ pstate'[p] = "forked" /\ IsRunning
  BY <1>1, Kinds DEF StartProcesses, More, LifeInv, AtLevel
<1>3. \/ pc' = "stop" /\ level' = level /\ ret = "fail"
      \/ pc' \in Startup /\ level' = level + 1 /\ ret = "succeed"
      \/ pc' = "run" /\ level' = level /\ level = LastLevel /\ ret = "succeed"
  BY DEF StartProcesses, Startup
<1>4. (pc' # "stop" /\ exiting' = exiting) \/ (pc' = "stop" /\ exiting' = "fail")
  BY DEF StartProcesses
<1>5. \A u \in Unit : pstate'[u] = pstate[u]
  BY <1>2, Kinds
<1>6. LifeInv'
  <2>1. \A p \in reports' \cup reported' : p \in Proc /\ pstate'[p] \notin {"none", "forked", "subscribed"}
    BY <1>1, <1>2 DEF More, LifeInv, Inv, TypeInv
  <2>2. pc' \in Startup => \A p \in Child : level' <= Level[p] => pstate'[p] = "none"
    <3>1. ASSUME NEW p \in Child, level + 1 <= Level[p] PROVE pstate'[p] = "none"
      <4>1. level <= Level[p] /\ Level[p] # level /\ p \in Proc
        BY <1>1, <3>1, Kinds
      <4> QED  BY <1>1, <1>2, <4>1 DEF More, LifeInv
    <3> QED  BY <1>3, <3>1 DEF Startup
  <2>3. \A s \in Syncer : pstate'[s] \in {"subscribed", "up"} => s \in holders'
    BY <1>1, <1>2, Kinds DEF More, LifeInv
  <2>4. /\ svpc' # "off" => pstate'[Sup] \notin {"none", "forked", "ended"}
        /\ pstate'[Sup] \in {"none", "forked"} => pstate[Sup] \in {"none", "forked"}
        /\ pstate'[Sup] = "ended" => pstate[Sup] = "ended"
    BY <1>1, <1>2, Kinds DEF More, LifeInv
  <2> QED  BY <1>1, <1>5, <2>1, <2>2, <2>3, <2>4 DEF More, LifeInv, Startup
<1>7. StopInv'
  <2>1. UnitCrashed' <=> UnitCrashed
    BY <1>5 DEF UnitCrashed
  <2> QED  BY <1>1, <1>3, <1>4, <2>1 DEF More, StopInv, Startup
<1>8. LateInv'
  BY <1>1, <1>3 DEF LateInv, Startup, Starting, Inv, RequestInv
<1>9. CepInv'
  <2>1. UnitCrashed' <=> UnitCrashed
    BY <1>5 DEF UnitCrashed
  <2> QED  BY <1>1, <1>5, <2>1, Kinds DEF More, CepInv, Starting
<1>10. StageInv'
  <2>1. ~(stage > 1)
    BY <1>1 DEF More, StopInv
  <2>2. /\ stage \in Nat
        /\ \A w \in Worker : pstate'[w] = "ended" => pstate[w] = "ended"
    BY <1>2, Kinds DEF More, StopInv
  <2>3. Graceful' => Graceful
    BY <1>1, <1>4 DEF Graceful
  <2> QED  BY <1>1, <2>1, <2>2, <2>3 DEF More, StageInv
<1> QED  BY <1>6, <1>7, <1>8, <1>9, <1>10 DEF More

(* Processes die: all of them but the supervisor's units, or one.          *)
LEMMA DieMore ==
  ASSUME Inv, Inv', More, NEW S \in SUBSET Child, Die(S), UNCHANGED <<level, ret, ha, signalled>>,
         \/ GroupTimeout /\ UNCHANGED <<pc, stage>> /\ S = Child
         \/ KillRest /\ S = Child
         \/ \E p \in Child : Crash(p) /\ S = {p}
  PROVE  More'
<1>1. /\ DOMAIN pstate' = Proc
      /\ UNCHANGED <<reported, runlevel, runstate, reports, told, holders, exiting, stage>>
      /\ crashes \in Nat
      /\ \/ crashes' = crashes /\ S = Child
         \/ crashes' = crashes + 1 /\ pc' = pc
  BY DEF Die, msgVars, GroupTimeout, KillRest, Crash, mainVars, More, StopInv
<1>2. /\ \A p \in Proc : \/ pstate'[p] = pstate[p]
                         \/ pstate'[p] = "ended" /\ Alive(p) /\ (p \in S \/ Sup \in S)
      /\ Sup \in S => \A p \in S \cup Unit : pstate'[p] \in {"none", "ended"}
      /\ svpc' = IF Sup \in S THEN "off" ELSE svpc
  BY Kinds DEF Die, Alive
<1>3. \/ pc' = pc
      \/ pc = "kill" /\ pc' = "exited" /\ stage > Len(Group)
  BY DEF GroupTimeout, KillRest, Crash, mainVars
<1>4. ~(Sup \in S) => \A u \in Unit : pstate'[u] = pstate[u]
  BY Kinds DEF Die
<1>5. ~(Sup \in S) => (UnitCrashed' <=> UnitCrashed) /\ pstate'[Sup] = pstate[Sup]
  BY <1>4, Kinds DEF UnitCrashed, Die
<1>6. LifeInv'
  <2>1. \A p \in reports' \cup reported' : p \in Proc /\ pstate'[p] \notin {"none", "forked", "subscribed"}
    BY <1>1, <1>2 DEF More, LifeInv, Inv, TypeInv
  <2>2. pc' \in Startup => \A p \in Child : level' <= Level[p] => pstate'[p] = "none"
    BY <1>2, <1>3, Kinds DEF More, LifeInv, Startup, Alive
  <2>3. \A s \in Syncer : pstate'[s] \in {"subscribed", "up"} => s \in holders'
    BY <1>1, <1>2, Kinds DEF More, LifeInv
  <2>4. CASE Sup \in S
    BY <1>1, <1>2, <2>1, <2>2, <2>3, <2>4, Kinds DEF More, LifeInv, Startup, Alive
  <2>5. CASE ~(Sup \in S)
    BY <1>1, <1>2, <1>4, <1>5, <2>1, <2>2, <2>3, <2>5, Kinds DEF More, LifeInv, Startup
  <2> QED  BY <2>4, <2>5
<1>7. StopInv'
  <2>1. UnitCrashed' => UnitCrashed
    BY <1>1, <1>2, Kinds DEF UnitCrashed
  <2> QED  BY <1>1, <1>2, <1>3, <1>5, <2>1 DEF More, StopInv
<1>8. LateInv'
  BY <1>1, <1>3 DEF More, LateInv, Starting
<1>9. CepInv'
  <2>1. CASE Sup \in S
    BY <1>2, <2>1 DEF CepInv
  <2>2. CASE ~(Sup \in S)
    BY <1>1, <1>2, <1>3, <1>4, <1>5, <2>2, Kinds DEF More, CepInv, Starting
  <2> QED  BY <2>1, <2>2
<1>10. StageInv'
  <2>1. Graceful' => Graceful /\ KillRest
    <3>1. crashes + 1 # 0
      BY <1>1
    <3> QED  BY <1>1, <3>1 DEF Graceful, GroupTimeout, KillRest, Crash
  <2>2. /\ stage \in Nat /\ Len(Group) = 4
        /\ KillRest => stage > Len(Group)
        /\ \A p \in Proc : ~Alive(p) => ~Alive(p)'
    BY <1>2 DEF More, StopInv, Group, KillRest, Alive
  <2> QED  BY <1>1, <2>1, <2>2, Kinds DEF More, StageInv
<1> QED  BY <1>6, <1>7, <1>8, <1>9, <1>10 DEF More

(* server_teardown, after which the node is not active.                    *)
LEMMA TeardownMore ==
  ASSUME Inv, Inv', More, Teardown
  PROVE  More'
<1>1. /\ pc = "run" /\ pc' = "standby" /\ ha' = "standby" /\ svpc' = "off" /\ DOMAIN pstate' = Proc
      /\ UNCHANGED <<level, exiting, stage, reported, reports, runstate, told, holders, crashes>>
      /\ \A p \in Proc : \/ pstate'[p] = pstate[p] /\ pstate[p] \in {"none", "ended"}
                         \/ pstate'[p] = "ended" /\ Alive(p)
  BY DEF Teardown, ReadHa, msgVars, Alive
<1>2. LifeInv'
  <2>1. \A p \in reports' \cup reported' : p \in Proc /\ pstate'[p] \notin {"none", "forked", "subscribed"}
    BY <1>1 DEF More, LifeInv, Inv, TypeInv
  <2> QED  BY <1>1, <2>1, Kinds DEF More, LifeInv, Alive
<1>3. StopInv'
  BY <1>1, Kinds DEF More, StopInv, UnitCrashed
<1>4. LateInv' /\ CepInv' /\ StageInv'
  BY <1>1 DEF LateInv, CepInv, Starting, StageInv, Graceful
<1> QED  BY <1>2, <1>3, <1>4 DEF More

(* supervisor_init, its loop without a report, and its end.                *)
LEMMA SupervisorMore ==
  ASSUME Inv, Inv', More, SupervisorStart \/ SupervisorStop \/ SupervisorEnd \/ HandleWait
  PROVE  More'
<1>1. UNCHANGED <<mainVars, reported, reports, runlevel, told, signalled, holders, crashes>>
  BY DEF SupervisorStart, SupervisorStop, SupervisorEnd, HandleWait, msgVars, procVars
<1>2. /\ DOMAIN pstate = Proc /\ reports \subseteq Proc /\ reported \subseteq Proc
  BY DEF Inv, TypeInv
<1>3. CASE HandleWait
  <2>1. UNCHANGED <<pstate, svpc, runstate>>
    BY <1>3 DEF HandleWait, procVars
  <2>2. LifeInv' /\ StopInv'
    BY <1>1, <2>1 DEF More, LifeInv, StopInv, UnitCrashed, mainVars
  <2>3. LateInv' /\ CepInv' /\ StageInv'
    BY <1>1, <2>1 DEF More, LateInv, CepInv, StageInv, Starting, Graceful, UnitCrashed, Alive,
                      mainVars
  <2> QED  BY <2>2, <2>3 DEF More
<1>4. CASE SupervisorStop
  <2>1. /\ svpc = "loop" /\ svpc' = "join" /\ UNCHANGED pstate
        /\ UnitCrashed \/ Sup \in told
        /\ \A u \in Unit : runstate'[u] = "idle" <=> runstate[u] = "idle"
    BY <1>4 DEF SupervisorStop, SetRunstate, procVars
  <2>2. pstate[Sup] \notin {"none", "forked", "ended"}
    BY <2>1 DEF More, LifeInv
  <2>3. LifeInv' /\ StopInv'
    BY <1>1, <2>1, <2>2 DEF More, LifeInv, StopInv, UnitCrashed, mainVars
  <2>4. LateInv' /\ CepInv' /\ StageInv'
    BY <1>1, <2>1 DEF More, LateInv, CepInv, StageInv, Starting, Graceful, UnitCrashed, Alive,
                      mainVars
  <2> QED  BY <2>3, <2>4 DEF More
<1>5. ASSUME NEW life \in {"subscribed", "ended"}, UNCHANGED runstate,
             pstate' = [pstate EXCEPT ![Sup] = life],
             life = "subscribed" => pstate[Sup] = "forked" /\ svpc' = "loop",
             life = "ended" => /\ svpc = "join" /\ svpc' = "off"
                               /\ \A u \in Unit : pstate[u] \in {"none", "ended", "crashed"}
      PROVE  More'
  <2>1. /\ pstate'[Sup] = life /\ \A p \in Proc \ {Sup} : pstate'[p] = pstate[p]
        /\ UnitCrashed' <=> UnitCrashed
    BY <1>2, <1>5, Kinds DEF UnitCrashed
  <2>2. pstate[Sup] # "none" /\ (life = "ended" => pstate[Sup] \notin {"forked", "ended"})
    BY <1>5 DEF More, LifeInv
  <2>3. LifeInv'
    <3>1. \A p \in reports' \cup reported' : pstate'[p] \notin {"none", "forked", "subscribed"}
      <4>1. life = "subscribed" => Sup \notin reports \cup reported
        BY <1>5 DEF More, LifeInv
      <4> QED  BY <1>1, <1>2, <1>5, <2>1, <4>1 DEF More, LifeInv
    <3>2. pc' \in Startup => \A p \in Child : level' <= Level[p] => pstate'[p] = "none"
      BY <1>1, <2>1, <2>2, Kinds DEF More, LifeInv, mainVars, Startup
    <3>3. \A s \in Syncer : pstate'[s] \in {"subscribed", "up"} => s \in holders'
      BY <1>1, <2>1, Kinds DEF More, LifeInv
    <3>4. \A u \in Unit : pstate'[u] = pstate[u] /\ runstate'[u] = runstate[u]
      BY <1>5, <2>1, Kinds
    <3> QED  BY <1>1, <1>5, <2>1, <2>2, <3>1, <3>2, <3>3, <3>4 DEF More, LifeInv, Startup
  <2>4. StopInv'
    <3>1. life = "subscribed" => \A u \in Unit : runstate[u] = "idle"
      BY <1>5 DEF More, LifeInv
    <3> QED  BY <1>1, <1>5, <2>1, <3>1 DEF More, StopInv, mainVars
  <2>5. LateInv'
    BY <1>1 DEF More, LateInv, Starting, mainVars
  <2>6. CepInv'
    <3>1. life = "subscribed" => \A u \in Unit : pstate[u] = "none"
      BY <1>5 DEF More, LifeInv
    <3>2. \A p \in Cep \cup Syncer : pstate'[p] = pstate[p]
      BY <2>1, Kinds
    <3> QED  BY <1>1, <1>5, <2>1, <3>1, <3>2, Kinds DEF More, CepInv, Starting, mainVars
  <2>7. StageInv'
    <3>1. \A p \in Syncer \cup Worker : pstate'[p] = pstate[p]
      BY <2>1, Kinds
    <3>2. ~Alive(Sup) => ~Alive(Sup)'
      BY <2>1, <2>2, <1>5 DEF Alive
    <3> QED  BY <1>1, <3>1, <3>2 DEF More, StageInv, Graceful, mainVars, Alive
  <2> QED  BY <2>3, <2>4, <2>5, <2>6, <2>7 DEF More
<1>6. CASE SupervisorStart
  BY <1>5, <1>6 DEF SupervisorStart
<1>7. CASE SupervisorEnd
  BY <1>5, <1>7 DEF SupervisorEnd
<1> QED  BY <1>3, <1>4, <1>6, <1>7

(* supervisor_handle_proc_start: the units it starts have not lived before. *)
LEMMA HandleReportMore ==
  ASSUME Inv, Inv', More, NEW p \in Proc, HandleReport(p)
  PROVE  More'
<1>1. /\ p \in reports /\ reports' = reports \ {p} /\ reported' = reported \cup {p}
      /\ svpc = "loop" /\ UNCHANGED <<mainVars, svpc, told, signalled, holders, crashes>>
      /\ \E r : StartUnits(r)
  BY DEF HandleReport
<1>2. /\ DOMAIN pstate' = Proc /\ reports \subseteq Proc /\ reported \subseteq Proc
      /\ runlevel \in Nat /\ \A q \in Proc : Level[q] \in Nat
  BY LevelAssumption DEF Inv, TypeInv, Levels
<1>3. /\ \A u \in Unit : \/ pstate'[u] = pstate[u] /\ runstate'[u] = runstate[u]
                         \/ /\ pstate[u] = "none" /\ pstate'[u] = "forked"
                            /\ runstate'[u] = "running"
      /\ \A q \in Proc \ Unit : pstate'[q] = pstate[q]
  <2>1. PICK r : StartUnits(r)
    BY <1>1
  <2>2. \A u \in Unit : runlevel < Level[u] => pstate[u] = "none"
    BY <1>2, Kinds DEF Inv, StartedInv
  <2>3. \A q \in Proc : pstate'[q] = IF q \in Unit /\ runlevel < Level[q] /\ Level[q] <= r
                                     THEN "forked" ELSE pstate[q]
    BY <2>1 DEF StartUnits
  <2>4. \A u \in Unit : runstate'[u] = IF runlevel < Level[u] /\ Level[u] <= r
                                       THEN "running" ELSE runstate[u]
    BY <2>1 DEF StartUnits
  <2> QED  BY <2>2, <2>3, <2>4, Kinds
<1>4. \A q \in Child : pstate'[q] = pstate[q]
  BY <1>3, Kinds
<1>5. /\ UnitCrashed' <=> UnitCrashed
      /\ pstate[Sup] \notin {"none", "forked", "ended"}
  BY <1>1, <1>3 DEF UnitCrashed, More, LifeInv
<1>6. runlevel <= runlevel' /\ runlevel' \in Nat
  <2>1. PICK r : StartUnits(r) /\ r = IF Level[p] = runlevel
                                      THEN UpdateRunlevel(runlevel, reported \cup {p}) ELSE runlevel
    BY DEF HandleReport
  <2>2. CASE Level[p] = runlevel
    BY <1>1, <2>1, <2>2, NextRunlevel, LevelAssumption DEF Inv, StartUnits, Levels
  <2>3. CASE Level[p] # runlevel
    BY <1>2, <2>1, <2>3 DEF StartUnits
  <2> QED  BY <2>2, <2>3
<1>7. LifeInv'
  <2>1. \A q \in reports' \cup reported' : pstate'[q] \notin {"none", "forked", "subscribed"}
    BY <1>1, <1>2, <1>3, Kinds DEF More, LifeInv
  <2> QED  BY <1>1, <1>3, <1>4, <1>5, <2>1, Kinds DEF More, LifeInv, mainVars
<1>8. StopInv'
  BY <1>1, <1>3, <1>5 DEF More, StopInv, mainVars
<1>9. LateInv'
  BY <1>1, <1>2, <1>6, LevelAssumption DEF More, LateInv, Starting, mainVars
<1>10. CepInv'
  BY <1>1, <1>3, <1>4, <1>5, Kinds DEF More, CepInv, Starting, mainVars
<1>11. StageInv'
  BY <1>1, <1>4, Kinds DEF More, StageInv, Graceful, Alive, mainVars
<1> QED  BY <1>7, <1>8, <1>9, <1>10, <1>11 DEF More

(* A CEP manager that leaves: its supervisor has been told to stop it, so   *)
(* that every history syncer has reported before, and holds nothing now.    *)
LEMMA CepLeaves ==
  ASSUME Inv, More, NEW c \in Cep, UnitStops(c), Starting, svpc # "off", ~UnitCrashed
  PROVE  /\ pc \notin Startup
         /\ \A s \in Syncer : pstate[s] \notin {"none", "forked", "subscribed", "up"}
<1>1. /\ c \in Unit /\ pstate[c] = "up" /\ holders = {}
      /\ c \in told \/ runstate[c] # "running"
  BY KindAssumption, Kinds DEF UnitStops
<1>2. told # {}
  <2>1. runstate[c] # "idle"
    BY <1>1 DEF More, LifeInv
  <2> QED  BY <1>1, <2>1 DEF More, StopInv
<1>3. pc \in {"kill", "await", "exited"} /\ LastLevel <= runlevel
  BY <1>2 DEF More, StopInv, LateInv
<1>4. ASSUME NEW s \in Syncer
      PROVE  pstate[s] \notin {"none", "forked", "subscribed", "up"}
  <2>1. s \in Proc /\ Level[s] < LastLevel /\ Level[s] \in Nat /\ LastLevel \in Nat
        /\ runlevel \in Nat
    BY Kinds, SyncerAssumption, LevelAssumption DEF Inv, TypeInv, Levels
  <2>2. s \in reported
    BY <1>3, <2>1 DEF Inv, RunlevelTrue
  <2> QED  BY <1>1, <2>2 DEF More, LifeInv
<1> QED  BY <1>3, <1>4 DEF Startup

(* A process or a unit goes on to its next state of life.                  *)
LEMMA LivesMore ==
  ASSUME Inv, Inv', More, NEW p \in Proc, ProcStep(p) \/ (p \in Unit /\ UnitCrash(p))
  PROVE  More'
<1>1. /\ UNCHANGED <<mainVars, svVars, told, signalled>>
      /\ DOMAIN pstate = Proc /\ reports \subseteq Proc /\ reported \subseteq Proc
      /\ crashes \in Nat
  BY DEF ProcStep, Subscribe, ReportRunning, UnitStops, ChildStops, SyncerReleases, SyncerEnds,
         UnitCrash, Inv, TypeInv, More, StopInv
<1> DEFINE Becomes(life) ==
        /\ pstate' = [pstate EXCEPT ![p] = life]
        /\ pstate[p] \in {"forked", "subscribed", "up", "released"}
        /\ life \in {"subscribed", "up", "released", "idle", "crashed", "ended"}
        /\ life = "subscribed" => pstate[p] = "forked"
        /\ pstate[p] = "released" => life = "ended"
        /\ reports' = reports \/ (reports' = reports \cup {p} /\ life = "up")
        /\ p \in Syncer /\ life \in {"subscribed", "up"} => p \in holders'
        /\ holders' = holders \/ holders' = holders \cup {p}
             \/ (holders' = holders \ {p} /\ life = "released")
        /\ p = Sup => life = "up" /\ pstate[p] = "subscribed"
        /\ p \in Worker /\ life = "ended" => p \in signalled
        /\ p \in Cep /\ life = "ended" => UnitStops(p)
        /\ \/ life = "crashed" /\ p \in Unit /\ crashes' = crashes + 1
           \/ life # "crashed" /\ crashes' = crashes
<1>2. PICK life : Becomes(life)
  <2>1. CASE Subscribe(p)
    <3>1. Becomes("subscribed") \/ Becomes("up")
      BY <2>1, <1>1 DEF Subscribe, msgVars
    <3> QED  BY <3>1
  <2>2. CASE ReportRunning(p)
    <3>1. p \in Syncer => p \in holders'
      BY <2>2 DEF ReportRunning, More, LifeInv
    <3>2. Becomes("up")
      BY <2>2, <1>1, <3>1 DEF ReportRunning
    <3> QED  BY <3>2
  <2>3. CASE p \in Unit /\ UnitStops(p)
    <3>1. Becomes("ended")
      BY <2>3, <1>1, Kinds DEF UnitStops, Ends, msgVars
    <3> QED  BY <3>1
  <2>4. CASE p \in Child /\ ChildStops(p)
    <3>1. Becomes("ended") \/ Becomes("idle")
      BY <2>4, <1>1, Kinds, KindAssumption DEF ChildStops, Ends, msgVars
    <3> QED  BY <3>1
  <2>5. CASE p \in Child /\ SyncerReleases(p)
    <3>1. Becomes("released")
      BY <2>5, <1>1, Kinds DEF SyncerReleases, msgVars
    <3> QED  BY <3>1
  <2>6. CASE p \in Child /\ SyncerEnds(p)
    <3>1. Becomes("ended")
      BY <2>6, <1>1, Kinds, KindAssumption DEF SyncerEnds, Ends, msgVars
    <3> QED  BY <3>1
  <2>7. CASE p \in Unit /\ UnitCrash(p)
    <3>1. Becomes("crashed")
      BY <2>7, <1>1, Kinds DEF UnitCrash, msgVars
    <3> QED  BY <3>1
  <2> HIDE DEF Becomes
  <2> QED  BY <2>1, <2>2, <2>3, <2>4, <2>5, <2>6, <2>7 DEF ProcStep
<1>3. /\ pstate'[p] = life /\ \A q \in Proc \ {p} : pstate'[q] = pstate[q]
  BY <1>1, <1>2
<1>4. UnitCrashed => UnitCrashed'
  BY <1>2, <1>3, Kinds DEF UnitCrashed
<1>5. UnitCrashed' => UnitCrashed \/ life = "crashed"
  BY <1>2, <1>3, Kinds DEF UnitCrashed
<1>6. LifeInv'
  <2>1. \A q \in reports' \cup reported' : pstate'[q] \notin {"none", "forked", "subscribed"}
    BY <1>1, <1>2, <1>3 DEF More, LifeInv, svVars
  <2>2. \A s \in Syncer : pstate'[s] \in {"subscribed", "up"} => s \in holders'
    BY <1>2, <1>3, Kinds DEF More, LifeInv
  <2>3. /\ svpc' # "off" => pstate'[Sup] \notin {"none", "forked", "ended"}
        /\ pstate'[Sup] \in {"none", "forked", "ended"} => pstate'[Sup] = pstate[Sup] /\ p # Sup
    BY <1>1, <1>2, <1>3, Kinds DEF More, LifeInv, svVars
  <2>4. /\ pc' \in Startup => \A q \in Child : level' <= Level[q] => pstate'[q] = "none"
    BY <1>1, <1>2, <1>3, Kinds DEF More, LifeInv, Startup, mainVars
  <2>5. pstate[Sup] \in {"none", "forked", "ended"} => p \notin Unit
    BY <1>2 DEF More, LifeInv
  <2>6. \A u \in Unit : pstate'[u] # "none" => runstate'[u] # "idle"
    BY <1>1, <1>2, <1>3, Kinds DEF More, LifeInv, svVars
  <2>7. p \notin Unit => \A u \in Unit : pstate'[u] = pstate[u]
    BY <1>3, Kinds
  <2> QED  BY <1>1, <2>1, <2>2, <2>3, <2>4, <2>5, <2>6, <2>7 DEF More, LifeInv, Startup, svVars
<1>7. StopInv'
  BY <1>1, <1>2, <1>4, <1>5 DEF More, StopInv, mainVars, svVars
<1>8. LateInv'
  BY <1>1 DEF More, LateInv, Starting, mainVars, svVars
<1>9. CepInv'
  <2> SUFFICES ASSUME Starting', svpc' # "off", ~UnitCrashed', NEW c \in Cep, pstate'[c] = "ended"
               PROVE  /\ pc' \notin Startup
                      /\ \A s \in Syncer : pstate'[s] \notin {"none", "forked", "subscribed", "up"}
    BY DEF CepInv, Startup
  <2>1. Starting /\ svpc # "off" /\ ~UnitCrashed /\ pc' = pc
    BY <1>1, <1>4 DEF Starting, mainVars, svVars
  <2>2. /\ pc \notin Startup
        /\ \A s \in Syncer : pstate[s] \notin {"none", "forked", "subscribed", "up"}
    <3>1. CASE pstate[c] = "ended"
      BY <2>1, <3>1 DEF More, CepInv, Startup
    <3>2. CASE pstate[c] # "ended"
      <4>1. UnitStops(c)
        BY <1>2, <1>3, <3>2, Kinds
      <4> QED  BY <2>1, <4>1, CepLeaves
    <3> QED  BY <3>1, <3>2
  <2>3. ASSUME NEW s \in Syncer
        PROVE  pstate'[s] \notin {"none", "forked", "subscribed", "up"}
    BY <1>2, <1>3, <2>2, Kinds
  <2> QED  BY <2>1, <2>2, <2>3
<1>10. StageInv'
  <2>1. ASSUME Graceful' PROVE Graceful /\ crashes' = crashes
    BY <1>1, <1>2, <2>1 DEF Graceful, mainVars
  <2>2. \A q \in Proc : ~Alive(q) => ~Alive(q)'
    BY <1>2, <1>3 DEF Alive
  <2>3. \A w \in Worker : pstate'[w] = "ended" => w \in signalled \/ pstate[w] = "ended"
    BY <1>2, <1>3, Kinds
  <2> QED  BY <1>1, <2>1, <2>2, <2>3, Kinds DEF More, StageInv, mainVars
<1> QED  BY <1>6, <1>7, <1>8, <1>9, <1>10 DEF More

(* Both invariants hold at the start and are kept by every step.           *)
LEMMA InitMore == Init => More
<1> SUFFICES ASSUME Init PROVE More
  OBVIOUS
<1>1. LifeInv /\ StopInv
  BY Kinds DEF Init, LifeInv, StopInv, UnitCrashed
<1>2. LateInv /\ CepInv /\ StageInv
  BY Kinds DEF Init, LateInv, CepInv, StageInv
<1> QED  BY <1>1, <1>2 DEF More

(* Every step keeps the invariant of the stop.                             *)
LEMMA NextMore == Inv /\ Inv' /\ More /\ [Next]_vars => More'
<1> SUFFICES ASSUME Inv, Inv', More, [Next]_vars PROVE More'
  OBVIOUS
<1>1. CASE GroupTimeout
  <2>1. CASE Die(Child) /\ UNCHANGED <<stage, pc>>
    BY <1>1, <2>1, DieMore DEF GroupTimeout
  <2>2. CASE stage' = stage + 1 /\ pc' = "kill" /\ UNCHANGED <<svVars, msgVars, pstate, told, holders>>
    <3>1. /\ pc = "await" /\ exiting = "fail"
          /\ UNCHANGED <<level, ret, exiting, ha, signalled, crashes>>
      BY <1>1 DEF GroupTimeout
    <3>2. LifeInv' /\ StopInv'
      BY <2>2, <3>1 DEF More, LifeInv, StopInv, UnitCrashed, svVars, msgVars, Group
    <3>3. LateInv' /\ CepInv' /\ StageInv'
      BY <2>2, <3>1 DEF More, LateInv, CepInv, StageInv, Starting, Graceful, UnitCrashed, svVars
    <3> QED  BY <3>2, <3>3 DEF More
  <2> QED  BY <1>1, <2>1, <2>2 DEF GroupTimeout
<1>2. CASE KillRest
  BY <1>2, DieMore DEF KillRest
<1>3. ASSUME NEW p \in Child, Crash(p) PROVE More'
  BY <1>3, DieMore DEF Crash, mainVars
<1>4. CASE Main
  BY <1>1, <1>2, <1>4, MainMoves, StartProcessesMore, TeardownMore DEF Main
<1>5. CASE SupervisorStep
  BY <1>5, SupervisorMore, HandleReportMore DEF SupervisorStep
<1>6. CASE Environment
  BY <1>3, <1>6, MainMoves, LivesMore, Kinds DEF Environment
<1>7. ASSUME NEW p \in Proc, ProcStep(p) PROVE More'
  BY <1>7, LivesMore
<1>8. CASE UNCHANGED vars
  <2>1. LifeInv' /\ StopInv'
    BY <1>8 DEF More, LifeInv, StopInv, UnitCrashed, vars, mainVars, svVars, msgVars, procVars
  <2>2. LateInv' /\ CepInv' /\ StageInv'
    BY <1>8 DEF More, LateInv, CepInv, StageInv, Starting, Graceful, UnitCrashed, Alive, vars,
                mainVars, svVars, msgVars, procVars
  <2> QED  BY <2>1, <2>2 DEF More
<1> QED  BY <1>4, <1>5, <1>6, <1>7, <1>8 DEF Next

(***************************************************************************)
(* The CEP manager stays while a history syncer counts on it               *)
(* (cep_manager_thread): for any processes and run levels, with crashes,   *)
(* timeouts and terminations at any time, when a CEP manager has left, no  *)
(* history syncer works.                                                   *)
(***************************************************************************)
THEOREM CepOutlivesSyncers == Spec => []CepServesSyncers
<1>1. More => CepServesSyncers
  BY DEF More, CepInv, Starting, CepServesSyncers
<1> QED  BY <1>1, InitInv, NextInv, InitMore, NextMore, PTL DEF Spec

(***************************************************************************)
(* In a graceful shutdown without crashes a worker ends after all history  *)
(* syncers and units (zbx_threads_kill_and_wait): it leaves at the signal  *)
(* of its stage, which is reached when the stages before it have ended,    *)
(* and the supervisor ends after its units.                                *)
(***************************************************************************)
THEOREM WorkersOutliveSyncers == Spec => []WorkersLast
<1>1. More => WorkersLast
  <2> SUFFICES ASSUME More, exiting = "success", crashes = 0, ha = "active",
                      NEW w \in Worker, pstate[w] = "ended",
                      NEW p \in Syncer \cup Unit
               PROVE  pstate[p] \in {"none", "ended"}
    BY DEF WorkersLast
  <2>1. stage >= 4 /\ stage \in Nat
    BY DEF More, StageInv, StopInv, Graceful
  <2>2. ~Alive(Sup) /\ \A s \in Syncer : ~Alive(s)
    BY <2>1 DEF More, StageInv, Graceful
  <2>3. CASE p \in Unit
    BY <2>2, <2>3 DEF More, LifeInv, StopInv, UnitCrashed, Alive
  <2> QED  BY <2>2, <2>3 DEF Alive
<1> QED  BY <1>1, InitInv, NextInv, InitMore, NextMore, PTL DEF Spec

=============================================================================
