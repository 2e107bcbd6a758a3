-------------------------- MODULE ProxyGroup_proofs --------------------------
(***************************************************************************)
(* Theorems about ProxyGroup: type correctness, and for edits that are     *)
(* flushed one at a time, that the host lists of the proxies are true and  *)
(* that no host of an online group is forgotten.                           *)
(*                                                                         *)
(* The operators of the cache are functions of a cache, so the invariant   *)
(* is stated of a cache, and each operator gets a lemma that says what it  *)
(* makes of a cache with these properties.                                 *)
(***************************************************************************)
EXTENDS ProxyGroup, FiniteSetTheorems, TLAPS

-----------------------------------------------------------------------------
(* The invariant. *)

State == {"unknown", "offline", "online"}
GroupState == {"unknown", "offline", "recovering", "online", "degrading"}
Row == {NoRow} \cup [proxy : Proxy, rev : 0..MaxRevision]

Cache ==
  [group : [Proxy -> AllGroups \cup {Gone}],
   members : [AllGroups -> SUBSET Host], unassigned : [AllGroups -> SUBSET Host],
   refs : [Proxy -> SUBSET Host], hostmap : [Host -> Row],
   updates : [Host -> Proxy \cup {NoProxy, Keep}],
   pstate : [Proxy -> State], seen : SUBSET Proxy,
   gstate : [Group -> GroupState], queued : SUBSET AllGroups,
   unbalanced : SUBSET Group, waiting : SUBSET Group, rev : 0..MaxRevision,
   groupRev : [AllGroups -> 0..MaxRevision],
   lost : [Proxy -> SUBSET (Host \X (1..MaxRevision))],
   synced : [Proxy -> {"never", "recent", "day"}]]

Transaction ==
  [mod : SUBSET (Host \X Proxy), new : SUBSET (Host \X Proxy),
   del : SUBSET Host, groups : SUBSET AllGroups, rev : 0..MaxRevision]

Reply ==
  [mode : {"none", "full", "partial"}, whole : BOOLEAN, rev : 0..MaxRevision,
   since : 0..MaxRevision, group : Group, del : SUBSET Host]

Relocation == [host : Host, src : Group \cup {NoGroup}, dst : Group \cup {NoGroup}]

Typed ==
  /\ hostGroup \in [Host -> Group \cup {NoGroup, Gone}]
  /\ proxyGroup \in [Proxy -> AllGroups \cup {Gone}]
  /\ row \in [Host -> Row] /\ ids \in 0..MaxRevision /\ events \in 0..MaxEvents
  /\ loop \in {"top", "flush"} /\ inbox \in Seq(Relocation)
  /\ c \in Cache /\ txn \in Transaction
  /\ reply \in [Watch -> {Nothing} \cup Reply]
  /\ copy \in [Watch -> [Host -> Proxy \cup {NoProxy}]]
  /\ known \in [Watch -> {Unset} \cup 0..MaxRevision]
  /\ session \in [Watch -> BOOLEAN]

(* A host in the list of a proxy is mapped to the proxy, in its group. *)
ListTrue(k) ==
  \A p \in Proxy : \A h \in k.refs[p] :
    k.hostmap[h].proxy = p /\ k.group[p] \in Group /\ h \in k.members[k.group[p]]

(* A host without a proxy is in no list, nor is one that is to be unmapped. *)
PoolTrue(k) ==
  /\ \A g \in AllGroups : \A h \in k.unassigned[g] :
       h \in k.members[g] /\ \A p \in Proxy : h \notin k.refs[p]
  /\ \A h \in Host : k.updates[h] = NoProxy => \A p \in Proxy : h \notin k.refs[p]

(* A mapped host without a pending update is in the list of its proxy. *)
MapListed(k) ==
  \A h \in Host : k.hostmap[h] # NoRow /\ k.updates[h] = Keep =>
    h \in k.refs[k.hostmap[h].proxy]

(* A member of a group has a proxy of the group or is known to have none. *)
MembersServed(k) ==
  \A g \in Group : \A h \in k.members[g] :
    h \in k.unassigned[g] \/ \E p \in Proxy : k.group[p] = g /\ h \in k.refs[p]

(* In an online group only proxies that are online have hosts. *)
OfflineEmpty(k) ==
  \A p \in Proxy : k.group[p] \in Group /\ k.gstate[k.group[p]] = "online"
                   /\ k.pstate[p] # "online" => k.refs[p] = {}

(* An online group with hosts to assign is queued. *)
WorkQueued(k) ==
  \A g \in Group : k.gstate[g] = "online" /\ g \notin k.queued =>
    k.unassigned[g] = {}

CacheOK(k) ==
  /\ ListTrue(k) /\ PoolTrue(k) /\ MapListed(k) /\ MembersServed(k)
  /\ OfflineEmpty(k) /\ WorkQueued(k)

(* The next flush gives the hosts of g that have no proxy to one. *)
FlushAssigns(g) ==
  loop = "flush" /\ c.gstate[g] = "online" /\ g \in c.queued /\ Targets(c, g) # {}

(* Host h may be put into the list of proxy p. *)
Confirmable(h, p) ==
  /\ c.hostmap[h].proxy = p /\ c.group[p] \in Group /\ h \in c.members[c.group[p]]
  /\ \/ h \in c.refs[p]
     \/ h \in c.unassigned[c.group[p]] /\ FlushAssigns(c.group[p])

(* The group that the manager knows of a host. *)
KnownGroup(h) ==
  IF inbox # <<>> /\ Head(inbox).host = h THEN Head(inbox).src ELSE hostGroup[h]

(* What edits one at a time add: at most one edit is on its way. *)
OneEdit ==
  /\ inbox = <<>> \/ (Len(inbox) = 1 /\ Head(inbox).dst =
                        IF hostGroup[Head(inbox).host] = Gone THEN NoGroup
                        ELSE hostGroup[Head(inbox).host])
  /\ \A g \in AllGroups : c.members[g] = {h \in Host : KnownGroup(h) = g}
  /\ c.group # proxyGroup => inbox = <<>> /\ \A h \in Host : c.updates[h] = Keep
  /\ \A h \in Host : \A p \in Proxy : c.updates[h] = p => Confirmable(h, p)
  /\ inbox # <<>> =>
       \A h \in Host : \A p \in Proxy : c.hostmap[h].proxy = p => Confirmable(h, p)

(* A group that is online after an update has a proxy that is. *)
OnlineServed ==
  loop = "flush" => \A g \in Group : c.gstate[g] = "online" => Targets(c, g) # {}

(* A host that was deleted has no row. *)
RowsExist == \A h \in Host : hostGroup[h] = Gone => row[h] = NoRow

IInv == Typed /\ CacheOK(c) /\ OneEdit /\ OnlineServed /\ RowsExist

-----------------------------------------------------------------------------
(* Constants. *)

LEMMA DistinctConstants ==
  /\ NoProxy # NoGroup /\ NoProxy # Standalone /\ NoProxy # Gone
  /\ NoGroup # Standalone /\ NoGroup # Gone /\ Standalone # Gone
  /\ NoProxy \notin Proxy /\ Gone \notin Proxy
  /\ NoGroup \notin Group /\ Standalone \notin Group /\ Gone \notin Group
<1>1. \A x, y, z : Cardinality({x, y, z}) \in Nat /\ Cardinality({x, y, z}) < 4
  <2> SUFFICES ASSUME NEW x, NEW y, NEW z
               PROVE  Cardinality({x, y, z}) \in Nat /\ Cardinality({x, y, z}) < 4
      OBVIOUS
  <2>1. IsFiniteSet({x}) /\ Cardinality({x}) = 1
      BY FS_Singleton
  <2>2. IsFiniteSet({x} \cup {y}) /\ Cardinality({x} \cup {y}) \in {1, 2}
      BY <2>1, FS_AddElement
  <2>3. Cardinality(({x} \cup {y}) \cup {z}) \in {1, 2, 3}
      BY <2>2, FS_AddElement
  <2>4. ({x} \cup {y}) \cup {z} = {x, y, z}
      OBVIOUS
  <2> QED BY <2>3, <2>4
<1>2. Cardinality({NoProxy, NoGroup, Standalone, Gone}) = 4
      BY ProxyGroupAssumption
<1>3. ASSUME NEW x, NEW y, NEW z,
             {NoProxy, NoGroup, Standalone, Gone} = {x, y, z}
      PROVE  FALSE
  <2>1. Cardinality({x, y, z}) < 4
      BY <1>1
  <2>2. Cardinality({x, y, z}) = 4
      BY <1>2, <1>3
  <2> QED BY <2>1, <2>2
<1>4. /\ NoProxy # NoGroup /\ NoProxy # Standalone /\ NoProxy # Gone
      /\ NoGroup # Standalone /\ NoGroup # Gone /\ Standalone # Gone
  <2>1. NoProxy = NoGroup => {NoProxy, NoGroup, Standalone, Gone} = {NoGroup, Standalone, Gone}
      OBVIOUS
  <2>2. NoProxy = Standalone => {NoProxy, NoGroup, Standalone, Gone} = {NoGroup, Standalone, Gone}
      OBVIOUS
  <2>3. NoProxy = Gone => {NoProxy, NoGroup, Standalone, Gone} = {NoGroup, Standalone, Gone}
      OBVIOUS
  <2>4. NoGroup = Standalone => {NoProxy, NoGroup, Standalone, Gone} = {NoProxy, Standalone, Gone}
      OBVIOUS
  <2>5. NoGroup = Gone => {NoProxy, NoGroup, Standalone, Gone} = {NoProxy, Standalone, Gone}
      OBVIOUS
  <2>6. Standalone = Gone => {NoProxy, NoGroup, Standalone, Gone} = {NoProxy, NoGroup, Gone}
      OBVIOUS
  <2> QED BY <1>3, <2>1, <2>2, <2>3, <2>4, <2>5, <2>6
<1> QED BY <1>4, ProxyGroupAssumption

LEMMA RowFacts ==
  ASSUME NEW r \in Row
  PROVE  /\ r.proxy \in Proxy \cup {NoProxy} /\ r.rev \in 0..MaxRevision
         /\ r # NoRow <=> r.proxy \in Proxy
         /\ r = NoRow <=> r.proxy = NoProxy
BY DistinctConstants, ProxyGroupAssumption DEF Row, NoRow

-----------------------------------------------------------------------------
(* What the operators of the cache make of its fields. *)

(* The hosts in the lists of some proxies; the proxies that left their group. *)
HostsOf(k, S) == UNION {k.refs[p] : p \in S}
Left(k) == {p \in Proxy : proxyGroup[p] # k.group[p]}

(* The proxies of online groups that are not online, for the group states s. *)
Offline(k, s) ==
  {p \in Proxy : k.group[p] \in Group /\ s[k.group[p]] = "online"
                 /\ k.pstate[p] # "online"}

IsRecord(u) ==
  u = [group |-> u.group, members |-> u.members, unassigned |-> u.unassigned,
       refs |-> u.refs, hostmap |-> u.hostmap, updates |-> u.updates,
       pstate |-> u.pstate, seen |-> u.seen, gstate |-> u.gstate,
       queued |-> u.queued, unbalanced |-> u.unbalanced, waiting |-> u.waiting,
       rev |-> u.rev, groupRev |-> u.groupRev, lost |-> u.lost,
       synced |-> u.synced]

LEMMA CacheRecord ==
  ASSUME NEW u, IsRecord(u),
         u.group \in [Proxy -> AllGroups \cup {Gone}],
         u.members \in [AllGroups -> SUBSET Host],
         u.unassigned \in [AllGroups -> SUBSET Host],
         u.refs \in [Proxy -> SUBSET Host], u.hostmap \in [Host -> Row],
         u.updates \in [Host -> Proxy \cup {NoProxy, Keep}],
         u.pstate \in [Proxy -> State], u.seen \in SUBSET Proxy,
         u.gstate \in [Group -> GroupState], u.queued \in SUBSET AllGroups,
         u.unbalanced \in SUBSET Group, u.waiting \in SUBSET Group,
         u.rev \in 0..MaxRevision, u.groupRev \in [AllGroups -> 0..MaxRevision],
         u.lost \in [Proxy -> SUBSET (Host \X (1..MaxRevision))],
         u.synced \in [Proxy -> {"never", "recent", "day"}]
  PROVE  u \in Cache
BY DEF IsRecord, Cache

\* pg_cache_update_proxies: proxies that left their group lose their hosts.
LEMMA UpdateProxiesFields ==
  ASSUME NEW k \in Cache, proxyGroup \in [Proxy -> AllGroups \cup {Gone}],
         NEW u, u = UpdateProxies(k)
  PROVE  /\ u \in Cache
         /\ u.group = proxyGroup
         /\ u.members = k.members /\ u.gstate = k.gstate /\ u.rev = k.rev
         /\ u.unassigned = [g \in AllGroups |-> k.unassigned[g] \cup
               HostsOf(k, Left(k) \cap ProxiesOf(k, g))]
         /\ u.refs = [p \in Proxy |-> IF p \in Left(k) THEN {} ELSE k.refs[p]]
         /\ u.updates = [h \in Host |->
               IF h \in HostsOf(k, Left(k) \ DeletedProxies(Left(k)))
               THEN NoProxy ELSE k.updates[h]]
         /\ u.hostmap = [h \in Host |->
               IF h \in HostsOf(k, DeletedProxies(Left(k)))
               THEN NoRow ELSE k.hostmap[h]]
         /\ u.queued = k.queued \cup GroupsLeftOrJoined(k, Left(k))
         /\ u.pstate = [p \in Proxy |-> IF p \in DeletedProxies(Left(k))
                                        THEN "unknown" ELSE k.pstate[p]]
<1> DEFINE left == Left(k)
           Hosts(S) == HostsOf(k, S)
           deleted == DeletedProxies(left)
<1>1. /\ u.group = proxyGroup
      /\ u.members = k.members /\ u.gstate = k.gstate /\ u.rev = k.rev
      /\ u.seen = k.seen \ deleted
      /\ u.unbalanced = k.unbalanced /\ u.waiting = k.waiting
      /\ u.groupRev = k.groupRev
    BY DEF UpdateProxies, Cache, Left, HostsOf
<1>2. u.unassigned = [g \in AllGroups |-> k.unassigned[g] \cup Hosts(left \cap ProxiesOf(k, g))]
    BY DEF UpdateProxies, Cache, Left, HostsOf
<1>3. u.refs = [p \in Proxy |-> IF p \in left THEN {} ELSE k.refs[p]]
    BY DEF UpdateProxies, Cache, Left, HostsOf
<1>4. u.updates = [h \in Host |-> IF h \in Hosts(left \ deleted) THEN NoProxy ELSE k.updates[h]]
    BY DEF UpdateProxies, Cache, SetHostProxy, Left, HostsOf
<1>5. u.hostmap = [h \in Host |-> IF h \in Hosts(deleted) THEN NoRow ELSE k.hostmap[h]]
    BY DEF UpdateProxies, Cache, Left, HostsOf
<1>6. u.queued = k.queued \cup GroupsLeftOrJoined(k, left)
    BY DEF UpdateProxies, Cache, Left, HostsOf
<1>7. u.pstate = [p \in Proxy |-> IF p \in deleted THEN "unknown" ELSE k.pstate[p]]
    BY DEF UpdateProxies, Cache, Left, HostsOf
<1>8. /\ u.lost = [p \in Proxy |-> IF p \in deleted THEN {} ELSE k.lost[p]]
      /\ u.synced = [p \in Proxy |-> IF p \in deleted THEN "never" ELSE k.synced[p]]
    BY DEF UpdateProxies, Cache, Left, HostsOf
<1>9. u \in Cache
  <2>1. IsRecord(u)
      BY DEF UpdateProxies, Cache, IsRecord
  <2>2. /\ u.group \in [Proxy -> AllGroups \cup {Gone}]
        /\ u.members \in [AllGroups -> SUBSET Host]
        /\ u.gstate \in [Group -> GroupState] /\ u.rev \in 0..MaxRevision
        /\ u.seen \in SUBSET Proxy /\ u.unbalanced \in SUBSET Group
        /\ u.waiting \in SUBSET Group
        /\ u.groupRev \in [AllGroups -> 0..MaxRevision]
      BY <1>1 DEF Cache
  <2>3. \A S \in SUBSET Proxy : Hosts(S) \in SUBSET Host
      BY DEF Cache, HostsOf
  <2>4. u.unassigned \in [AllGroups -> SUBSET Host]
      BY <1>2, <2>3 DEF Cache, Left, ProxiesOf
  <2>5. u.refs \in [Proxy -> SUBSET Host]
      BY <1>3 DEF Cache
  <2>6. u.updates \in [Host -> Proxy \cup {NoProxy, Keep}]
      BY <1>4 DEF Cache
  <2>7. u.hostmap \in [Host -> Row]
      BY <1>5 DEF Cache, Row
  <2>8. u.queued \in SUBSET AllGroups
      BY <1>6 DEF Cache, GroupsLeftOrJoined, Left
  <2>9. u.pstate \in [Proxy -> State]
      BY <1>7 DEF Cache, State
  <2>10. /\ u.lost \in [Proxy -> SUBSET (Host \X (1..MaxRevision))]
         /\ u.synced \in [Proxy -> {"never", "recent", "day"}]
      BY <1>8 DEF Cache
  <2> QED BY <2>1, <2>2, <2>4, <2>5, <2>6, <2>7, <2>8, <2>9, <2>10, CacheRecord
<1> QED BY <1>1, <1>2, <1>3, <1>4, <1>5, <1>6, <1>7, <1>9

\* pg_cache_update_proxy_state: the groups of proxies that change are queued.
LEMMA UpdateProxyStateFields ==
  ASSUME NEW k \in Cache, NEW dead, NEW alive, NEW starting,
         NEW u, u = UpdateProxyState(k, dead, alive, starting)
  PROVE  /\ u \in Cache
         /\ u.group = k.group /\ u.members = k.members
         /\ u.unassigned = k.unassigned /\ u.refs = k.refs
         /\ u.hostmap = k.hostmap /\ u.updates = k.updates
         /\ u.gstate = k.gstate /\ u.rev = k.rev
         /\ k.queued \subseteq u.queued
         /\ \A p \in Proxy : u.pstate[p] # k.pstate[p] => k.group[p] \in u.queued
<1> DEFINE state(p) ==
        CASE p \in dead -> IF starting THEN k.pstate[p] ELSE "offline"
          [] p \notin dead /\ (\/ k.pstate[p] = "unknown"
                               \/ k.group[p] = Standalone
                               \/ p \in alive) -> "online"
          [] OTHER -> k.pstate[p]
           there == {p \in Proxy : k.group[p] # Gone}
<1>1. /\ u.group = k.group /\ u.members = k.members
      /\ u.unassigned = k.unassigned /\ u.refs = k.refs
      /\ u.hostmap = k.hostmap /\ u.updates = k.updates
      /\ u.gstate = k.gstate /\ u.rev = k.rev
      /\ u.unbalanced = k.unbalanced /\ u.waiting = k.waiting
      /\ u.groupRev = k.groupRev /\ u.lost = k.lost /\ u.synced = k.synced
    BY DEF UpdateProxyState, Cache
<1>2. u.pstate = [p \in Proxy |-> IF p \in there THEN state(p) ELSE k.pstate[p]]
    BY DEF UpdateProxyState, Cache
<1>3. u.queued = k.queued \cup {k.group[p] : p \in {q \in there : state(q) # k.pstate[q]}}
    BY DEF UpdateProxyState, Cache
<1>4. \A p \in Proxy : state(p) \in State
  <2> TAKE p \in Proxy
  <2>1. k.pstate[p] \in State
      BY DEF Cache
  <2> QED BY <2>1 DEF State
<1> HIDE DEF state
<1>5. u \in Cache
  <2>1. IsRecord(u)
      BY DEF UpdateProxyState, Cache, IsRecord
  <2>2. u.pstate \in [Proxy -> State]
      BY <1>2, <1>4 DEF Cache
  <2>3. u.queued \in SUBSET AllGroups
      BY <1>3 DEF Cache
  <2>4. u.seen \in SUBSET Proxy
    <3>1. u.seen = (k.seen \cup (there \ dead)) \ (IF starting THEN {} ELSE dead)
        BY DEF UpdateProxyState, Cache
    <3> QED BY <3>1 DEF Cache
  <2>5. /\ u.group \in [Proxy -> AllGroups \cup {Gone}]
        /\ u.members \in [AllGroups -> SUBSET Host]
        /\ u.unassigned \in [AllGroups -> SUBSET Host]
        /\ u.refs \in [Proxy -> SUBSET Host] /\ u.hostmap \in [Host -> Row]
        /\ u.updates \in [Host -> Proxy \cup {NoProxy, Keep}]
        /\ u.gstate \in [Group -> GroupState]
        /\ u.unbalanced \in SUBSET Group /\ u.waiting \in SUBSET Group
        /\ u.rev \in 0..MaxRevision /\ u.groupRev \in [AllGroups -> 0..MaxRevision]
        /\ u.lost \in [Proxy -> SUBSET (Host \X (1..MaxRevision))]
        /\ u.synced \in [Proxy -> {"never", "recent", "day"}]
      BY <1>1 DEF Cache
  <2> QED BY <2>1, <2>2, <2>3, <2>4, <2>5, CacheRecord
<1>6. \A p \in Proxy : u.pstate[p] # k.pstate[p] => k.group[p] \in u.queued
    BY <1>2, <1>3
<1> QED BY <1>1, <1>3, <1>5, <1>6

\* A group that becomes or stays online has a proxy that is online, and one
\* that was not known has no other.
LEMMA NextGroupStateFacts ==
  ASSUME NEW k \in Cache, NEW g \in Group, NEW late, NEW timeout,
         NEW s, s = NextGroupState(k, g, late, timeout)
  PROVE  /\ s \in GroupState
         /\ s = "online" => Targets(k, g) # {}
         /\ s = "online" /\ k.gstate[g] = "unknown" =>
              \A p \in ProxiesOf(k, g) : k.pstate[p] = "online"
<1> DEFINE all == ProxiesOf(k, g)
           online == {p \in all : k.pstate[p] = "online"}
           offline == {p \in all : k.pstate[p] = "offline"}
           Enough(S) == Cardinality(S) >= MinOnline
<1>1. ~Enough({})
    BY FS_EmptySet, ProxyGroupAssumption
<1>2. k.gstate[g] \in GroupState
    BY DEF Cache
<1>3. online = Targets(k, g)
    BY DEF Targets
<1>4. s = "online" => online # {}
  <2>1. ASSUME online = {} PROVE online \ late = {}
      BY <2>1
  <2>2. ASSUME online = {}, all = online PROVE all \ offline = {}
      BY <2>2
  <2>3. online = {} => ~Enough(online) /\ ~Enough(online \ late)
                       /\ (all = online => ~Enough(all \ offline))
      BY <1>1, <2>1, <2>2
  <2>4. s = "online" => \/ Enough(online)
                        \/ Enough(online \ late)
                        \/ all = online /\ Enough(all \ offline)
      BY <1>2 DEF NextGroupState, GroupState
  <2> QED BY <2>3, <2>4
<1>5. s \in GroupState
    BY <1>2 DEF NextGroupState, GroupState
<1>6. s = "online" /\ k.gstate[g] = "unknown" => online = all
    BY DEF NextGroupState
<1> QED BY <1>3, <1>4, <1>5, <1>6

GroupStateUpdated(k, u) ==
  /\ u \in Cache
  /\ u.group = k.group /\ u.members = k.members
  /\ u.hostmap = k.hostmap /\ u.pstate = k.pstate /\ u.rev = k.rev
  /\ u.unassigned = [g \in AllGroups |-> k.unassigned[g] \cup
        HostsOf(k, Offline(k, u.gstate) \cap ProxiesOf(k, g))]
  /\ u.refs = [p \in Proxy |-> IF p \in Offline(k, u.gstate) THEN {} ELSE k.refs[p]]
  /\ u.updates = [h \in Host |->
        IF h \in HostsOf(k, Offline(k, u.gstate)) THEN NoProxy
        ELSE k.updates[h]]
  /\ k.queued \subseteq u.queued
  /\ \A g \in Group : u.gstate[g] = "online" =>
       /\ k.gstate[g] # "online" => g \in u.queued
       /\ Targets(u, g) # {}
       /\ k.gstate[g] = "unknown" =>
            \A p \in ProxiesOf(k, g) : k.pstate[p] = "online"

\* pg_cache_update_group_state: groups that become online are queued, and the
\* proxies of an online group that are not online lose their hosts.
LEMMA UpdateGroupStateFields ==
  ASSUME NEW k \in Cache, NEW late, NEW timeout,
         NEW u, u = UpdateGroupState(k, late, timeout)
  PROVE  GroupStateUpdated(k, u)
<1> DEFINE state == [g \in Group |-> NextGroupState(k, g, late, timeout)]
           online == {g \in Group : state[g] = "online"}
<1>0. PICK m : m = [k EXCEPT !.gstate = state,
                             !.queued = @ \cup {g \in online : k.gstate[g] # "online"}]
    OBVIOUS
<1>1. u = ClearOfflineProxies(m, online)
    BY <1>0 DEF UpdateGroupState
<1>2. \A g \in Group : /\ state[g] \in GroupState
                       /\ state[g] = "online" => Targets(k, g) # {}
                       /\ state[g] = "online" /\ k.gstate[g] = "unknown" =>
                            \A p \in ProxiesOf(k, g) : k.pstate[p] = "online"
    BY NextGroupStateFacts
<1>3. state \in [Group -> GroupState]
    BY <1>2
<1> HIDE DEF state
<1>4. /\ m.group = k.group /\ m.members = k.members /\ m.unassigned = k.unassigned
      /\ m.refs = k.refs /\ m.hostmap = k.hostmap /\ m.updates = k.updates
      /\ m.pstate = k.pstate /\ m.seen = k.seen /\ m.gstate = state
      /\ m.queued = k.queued \cup {g \in online : k.gstate[g] # "online"}
      /\ m.unbalanced = k.unbalanced /\ m.waiting = k.waiting /\ m.rev = k.rev
      /\ m.groupRev = k.groupRev /\ m.lost = k.lost /\ m.synced = k.synced
    BY <1>0 DEF Cache
<1>5. m \in Cache
  <2>1. IsRecord(m)
      BY <1>0 DEF Cache, IsRecord
  <2>2. m.queued \in SUBSET AllGroups
      BY <1>4 DEF Cache, AllGroups
  <2>3. m.gstate \in [Group -> GroupState]
      BY <1>3, <1>4
  <2> QED BY <1>4, <2>1, <2>2, <2>3, CacheRecord DEF Cache
<1> DEFINE offm == {p \in Proxy : m.group[p] \in online /\ m.pstate[p] # "online"}
           Hosts(S) == UNION {m.refs[p] : p \in S}
<1>6. /\ u.group = m.group /\ u.members = m.members /\ u.hostmap = m.hostmap
      /\ u.pstate = m.pstate /\ u.seen = m.seen /\ u.gstate = m.gstate
      /\ u.queued = m.queued /\ u.unbalanced = m.unbalanced
      /\ u.waiting = m.waiting /\ u.rev = m.rev /\ u.groupRev = m.groupRev
      /\ u.lost = m.lost /\ u.synced = m.synced
      /\ u.unassigned = [g \in AllGroups |-> m.unassigned[g] \cup
                           Hosts(offm \cap ProxiesOf(m, g))]
      /\ u.refs = [p \in Proxy |-> IF p \in offm THEN {} ELSE m.refs[p]]
      /\ u.updates = SetHostProxy(m.updates, Hosts(offm), NoProxy)
  <2> DEFINE ua == [g \in AllGroups |-> m.unassigned[g] \cup Hosts(offm \cap ProxiesOf(m, g))]
             re == [p \in Proxy |-> IF p \in offm THEN {} ELSE m.refs[p]]
             up == SetHostProxy(m.updates, Hosts(offm), NoProxy)
  <2>1. u = [m EXCEPT !.unassigned = ua, !.updates = up, !.refs = re]
      BY <1>1 DEF ClearOfflineProxies
  <2> HIDE DEF ua, up, re
  <2>2. /\ u.group = m.group /\ u.members = m.members /\ u.hostmap = m.hostmap
        /\ u.pstate = m.pstate /\ u.seen = m.seen /\ u.gstate = m.gstate
        /\ u.queued = m.queued /\ u.unbalanced = m.unbalanced
        /\ u.waiting = m.waiting /\ u.rev = m.rev /\ u.groupRev = m.groupRev
        /\ u.lost = m.lost /\ u.synced = m.synced
        /\ u.unassigned = ua /\ u.refs = re /\ u.updates = up
      BY <1>5, <2>1 DEF Cache
  <2> QED BY <2>2 DEF ua, re, up
<1>7. Offline(k, u.gstate) = offm
    BY <1>4, <1>6 DEF Offline
<1>8. \A S \in SUBSET Proxy : Hosts(S) \in SUBSET Host
    BY <1>5 DEF Cache
<1>9. \A g : ProxiesOf(m, g) = ProxiesOf(k, g)
    BY <1>4 DEF ProxiesOf
<1>10. u \in Cache
  <2>1. IsRecord(u)
      BY <1>1, <1>5 DEF ClearOfflineProxies, Cache, IsRecord
  <2>2. u.unassigned \in [AllGroups -> SUBSET Host]
      BY <1>5, <1>6, <1>8 DEF Cache
  <2>3. u.refs \in [Proxy -> SUBSET Host]
      BY <1>5, <1>6 DEF Cache
  <2>4. u.updates \in [Host -> Proxy \cup {NoProxy, Keep}]
      BY <1>5, <1>6 DEF Cache, SetHostProxy
  <2> QED BY <1>5, <1>6, <2>1, <2>2, <2>3, <2>4, CacheRecord DEF Cache
<1>11. \A g : Targets(u, g) = Targets(k, g)
    BY <1>4, <1>6 DEF Targets, ProxiesOf
<1>12. \A g \in Group : u.gstate[g] = "online" =>
              /\ k.gstate[g] # "online" => g \in u.queued
              /\ Targets(u, g) # {}
              /\ k.gstate[g] = "unknown" =>
                   \A p \in ProxiesOf(k, g) : k.pstate[p] = "online"
    BY <1>2, <1>4, <1>6, <1>11
<1> QED BY <1>4, <1>6, <1>7, <1>9, <1>10, <1>12 DEF SetHostProxy, HostsOf, GroupStateUpdated

-----------------------------------------------------------------------------
(* An update of the cache keeps its invariant. *)

\* A host is in the list of no more than one proxy.
LEMMA OneList ==
  ASSUME NEW k, ListTrue(k), NEW p \in Proxy, NEW q \in Proxy,
         NEW h \in k.refs[p], h \in k.refs[q]
  PROVE  p = q
BY DEF ListTrue

LEMMA UpdateProxiesOK ==
  ASSUME NEW k \in Cache, proxyGroup \in [Proxy -> AllGroups \cup {Gone}],
         CacheOK(k), NEW u, u = UpdateProxies(k)
  PROVE  CacheOK(u)
<1> DEFINE left == Left(k)
           deleted == DeletedProxies(left)
           Hosts(S) == HostsOf(k, S)
<1>1. /\ u.group = proxyGroup
      /\ u.members = k.members /\ u.gstate = k.gstate
      /\ u.unassigned = [g \in AllGroups |-> k.unassigned[g] \cup
            Hosts(left \cap ProxiesOf(k, g))]
      /\ u.refs = [p \in Proxy |-> IF p \in left THEN {} ELSE k.refs[p]]
      /\ u.updates = [h \in Host |-> IF h \in Hosts(left \ deleted)
                                     THEN NoProxy ELSE k.updates[h]]
      /\ u.hostmap = [h \in Host |-> IF h \in Hosts(deleted)
                                     THEN NoRow ELSE k.hostmap[h]]
      /\ u.queued = k.queued \cup GroupsLeftOrJoined(k, left)
      /\ u.pstate = [p \in Proxy |-> IF p \in deleted THEN "unknown" ELSE k.pstate[p]]
    BY UpdateProxiesFields
<1>2. deleted \subseteq left
    BY DEF DeletedProxies
<1> HIDE DEF left, deleted
<1>3. left \subseteq Proxy /\ \A p \in Proxy : p \notin left => proxyGroup[p] = k.group[p]
    BY DEF left, Left
<1>4. \A p \in Proxy : \A h \in k.refs[p] :
        h \in Host /\ k.hostmap[h].proxy = p /\ k.group[p] \in Group
        /\ h \in k.members[k.group[p]]
    BY DEF CacheOK, ListTrue, Cache
<1>5. \A p \in Proxy : p \notin left => \A h \in k.refs[p] : h \notin Hosts(left)
    BY <1>3, <1>4 DEF HostsOf
<1>6. \A h \in Hosts(left) : \A p \in Proxy : h \notin u.refs[p]
    BY <1>1, <1>5
<1>7. \A p \in Proxy : u.refs[p] \subseteq k.refs[p]
    BY <1>1
<1>8. ListTrue(u)
  <2> SUFFICES ASSUME NEW p \in Proxy, NEW h \in u.refs[p]
               PROVE  /\ u.hostmap[h].proxy = p /\ u.group[p] \in Group
                      /\ h \in u.members[u.group[p]]
      BY DEF ListTrue
  <2>1. p \notin left /\ h \in k.refs[p]
      BY <1>1
  <2>2. h \notin Hosts(deleted)
      BY <1>2, <1>5, <2>1 DEF HostsOf
  <2> QED BY <1>1, <1>3, <1>4, <2>1, <2>2
<1>9. PoolTrue(u)
  <2>1. ASSUME NEW g \in AllGroups, NEW h \in u.unassigned[g]
        PROVE  h \in u.members[g] /\ \A p \in Proxy : h \notin u.refs[p]
    <3>1. CASE h \in k.unassigned[g]
        BY <1>1, <1>7, <3>1 DEF CacheOK, PoolTrue
    <3>2. CASE h \in Hosts(left \cap ProxiesOf(k, g))
        BY <1>1, <1>4, <1>6, <3>2 DEF ProxiesOf, HostsOf
    <3> QED BY <1>1, <2>1, <3>1, <3>2
  <2>2. ASSUME NEW h \in Host, u.updates[h] = NoProxy, NEW p \in Proxy
        PROVE  h \notin u.refs[p]
    <3>1. CASE k.updates[h] = NoProxy
        BY <1>7, <3>1 DEF CacheOK, PoolTrue
    <3>2. CASE h \in Hosts(left)
        BY <1>6, <3>2
    <3> QED BY <1>1, <2>2, <3>1, <3>2 DEF HostsOf
  <2> QED BY <2>1, <2>2 DEF PoolTrue
<1>10. MapListed(u)
  <2> SUFFICES ASSUME NEW h \in Host, u.hostmap[h] # NoRow, u.updates[h] = Keep
               PROVE  h \in u.refs[u.hostmap[h].proxy]
      BY DEF MapListed
  <2>1. /\ h \notin HostsOf(k, deleted) /\ u.hostmap[h] = k.hostmap[h]
        /\ h \notin HostsOf(k, left \ deleted) /\ k.updates[h] = Keep
      BY <1>1, DistinctConstants DEF Keep
  <2>2. h \in k.refs[k.hostmap[h].proxy]
      BY <2>1 DEF CacheOK, MapListed
  <2>3. k.hostmap[h] \in Row /\ k.hostmap[h].proxy \in Proxy
      BY <2>1, RowFacts DEF Cache
  <2> QED BY <1>1, <2>1, <2>2, <2>3 DEF HostsOf
<1>11. MembersServed(u)
  <2> SUFFICES ASSUME NEW g \in Group, NEW h \in u.members[g]
               PROVE  h \in u.unassigned[g] \/ \E p \in Proxy : u.group[p] = g /\ h \in u.refs[p]
      BY DEF MembersServed
  <2>1. CASE h \in k.unassigned[g]
      BY <1>1, <2>1 DEF AllGroups
  <2>2. CASE \E p \in Proxy : k.group[p] = g /\ h \in k.refs[p]
      BY <1>1, <1>3, <2>2 DEF AllGroups, ProxiesOf, HostsOf
  <2> QED BY <1>1, <2>1, <2>2 DEF CacheOK, MembersServed
<1>12. OfflineEmpty(u)
    BY <1>1, <1>2, <1>3 DEF CacheOK, OfflineEmpty
<1>13. WorkQueued(u)
  <2> SUFFICES ASSUME NEW g \in Group, u.gstate[g] = "online", g \notin u.queued
               PROVE  u.unassigned[g] = {}
      BY DEF WorkQueued
  <2>1. k.unassigned[g] = {}
      BY <1>1 DEF CacheOK, WorkQueued
  <2>2. left \cap ProxiesOf(k, g) = {}
      BY <1>1, DistinctConstants DEF GroupsLeftOrJoined, ProxiesOf
  <2> QED BY <1>1, <2>1, <2>2 DEF AllGroups, HostsOf
<1> QED BY <1>8, <1>9, <1>10, <1>11, <1>12, <1>13 DEF CacheOK

(* In an online group that is not queued only proxies that are online have    *)
(* hosts.                                                                   *)
OfflineQueued(k) ==
  \A p \in Proxy : k.group[p] \in Group /\ k.gstate[k.group[p]] = "online"
                   /\ k.pstate[p] # "online" =>
                     k.refs[p] = {} \/ k.group[p] \in k.queued

\* The hosts of proxies that go offline wait for another one.
LEMMA UpdateGroupStateOK ==
  ASSUME NEW k \in Cache, NEW late, NEW timeout,
         ListTrue(k), PoolTrue(k), MapListed(k), MembersServed(k),
         OfflineQueued(k), WorkQueued(k),
         NEW u, u = UpdateGroupState(k, late, timeout)
  PROVE  /\ CacheOK(u)
         /\ \A p \in Proxy : \A h \in k.refs[p] :
              \/ h \in u.refs[p] /\ u.updates[h] = k.updates[h]
              \/ /\ u.updates[h] = NoProxy /\ h \in u.unassigned[k.group[p]]
                 /\ u.gstate[k.group[p]] = "online" /\ k.group[p] \in u.queued
         /\ \A h \in Host : u.updates[h] \in {k.updates[h], NoProxy}
<1> DEFINE off == Offline(k, u.gstate)
           Hosts(S) == HostsOf(k, S)
<1>1. /\ u.group = k.group /\ u.members = k.members
      /\ u.hostmap = k.hostmap /\ u.pstate = k.pstate
      /\ u.unassigned = [g \in AllGroups |-> k.unassigned[g] \cup
                           Hosts(off \cap ProxiesOf(k, g))]
      /\ u.refs = [p \in Proxy |-> IF p \in off THEN {} ELSE k.refs[p]]
      /\ u.updates = [h \in Host |-> IF h \in Hosts(off) THEN NoProxy ELSE k.updates[h]]
      /\ k.queued \subseteq u.queued
      /\ \A g \in Group : u.gstate[g] = "online" /\ k.gstate[g] # "online" =>
           g \in u.queued
    BY UpdateGroupStateFields DEF GroupStateUpdated
<1>2. off = {p \in Proxy : k.group[p] \in Group /\ u.gstate[k.group[p]] = "online"
                           /\ k.pstate[p] # "online"}
    BY DEF Offline
<1> HIDE DEF off
<1>3. \A p \in Proxy : \A h \in k.refs[p] :
        h \in Host /\ k.hostmap[h].proxy = p /\ k.group[p] \in Group
        /\ h \in k.members[k.group[p]]
    BY DEF ListTrue, Cache
<1>4. \A p \in Proxy : p \notin off => \A h \in k.refs[p] : h \notin Hosts(off)
    BY <1>2, <1>3 DEF HostsOf
<1>5. \A h \in Hosts(off) : \A p \in Proxy : h \notin u.refs[p]
    BY <1>1, <1>4
<1>6. \A p \in Proxy : u.refs[p] \subseteq k.refs[p]
    BY <1>1
<1>7. ListTrue(u)
    BY <1>1, <1>3 DEF ListTrue
<1>8. PoolTrue(u)
  <2>1. ASSUME NEW g \in AllGroups, NEW h \in u.unassigned[g]
        PROVE  h \in u.members[g] /\ \A p \in Proxy : h \notin u.refs[p]
    <3>1. CASE h \in k.unassigned[g]
        BY <1>1, <1>6, <3>1 DEF PoolTrue
    <3>2. CASE h \in Hosts(off \cap ProxiesOf(k, g))
        BY <1>1, <1>3, <1>5, <3>2 DEF ProxiesOf, HostsOf
    <3> QED BY <1>1, <2>1, <3>1, <3>2
  <2>2. ASSUME NEW h \in Host, u.updates[h] = NoProxy, NEW p \in Proxy
        PROVE  h \notin u.refs[p]
    <3>1. CASE k.updates[h] = NoProxy
        BY <1>6, <3>1 DEF PoolTrue
    <3>2. CASE h \in Hosts(off)
        BY <1>5, <3>2
    <3> QED BY <1>1, <2>2, <3>1, <3>2
  <2> QED BY <2>1, <2>2 DEF PoolTrue
<1>9. MapListed(u)
  <2> SUFFICES ASSUME NEW h \in Host, u.hostmap[h] # NoRow, u.updates[h] = Keep
               PROVE  h \in u.refs[u.hostmap[h].proxy]
      BY DEF MapListed
  <2>1. h \notin HostsOf(k, off) /\ k.updates[h] = Keep
      BY <1>1, DistinctConstants DEF Keep
  <2>2. h \in k.refs[k.hostmap[h].proxy] /\ k.hostmap[h].proxy \in Proxy
      BY <1>1, <2>1, RowFacts DEF MapListed, Cache
  <2>3. k.hostmap[h].proxy \notin off
      BY <2>1, <2>2 DEF HostsOf
  <2>4. u.hostmap[h] = k.hostmap[h] /\ u.refs[k.hostmap[h].proxy] = k.refs[k.hostmap[h].proxy]
      BY <1>1, <2>2, <2>3
  <2> QED BY <2>2, <2>4
<1>10. MembersServed(u)
  <2> SUFFICES ASSUME NEW g \in Group, NEW h \in u.members[g]
               PROVE  h \in u.unassigned[g] \/ \E p \in Proxy : u.group[p] = g /\ h \in u.refs[p]
      BY DEF MembersServed
  <2>1. CASE h \in k.unassigned[g]
      BY <1>1, <2>1 DEF AllGroups
  <2>2. CASE \E p \in Proxy : k.group[p] = g /\ h \in k.refs[p]
      BY <1>1, <2>2 DEF AllGroups, ProxiesOf, HostsOf
  <2> QED BY <1>1, <2>1, <2>2 DEF MembersServed
<1>11. OfflineEmpty(u)
    BY <1>1, <1>2 DEF OfflineEmpty
<1>12. \A p \in off : k.refs[p] = {} \/ k.group[p] \in u.queued
    BY <1>1, <1>2 DEF OfflineQueued
<1>13. WorkQueued(u)
  <2> SUFFICES ASSUME NEW g \in Group, u.gstate[g] = "online", g \notin u.queued
               PROVE  u.unassigned[g] = {}
      BY DEF WorkQueued
  <2>1. k.unassigned[g] = {}
      BY <1>1 DEF WorkQueued
  <2>2. Hosts(off \cap ProxiesOf(k, g)) = {}
      BY <1>12 DEF ProxiesOf, HostsOf
  <2>3. g \in AllGroups
      BY DEF AllGroups
  <2>4. u.unassigned[g] = k.unassigned[g] \cup Hosts(off \cap ProxiesOf(k, g))
      BY <1>1, <2>3
  <2> QED BY <2>1, <2>2, <2>4
<1>14. \A h \in Host : u.updates[h] \in {k.updates[h], NoProxy}
    BY <1>1
<1>15. ASSUME NEW p \in Proxy, NEW h \in k.refs[p]
       PROVE  \/ h \in u.refs[p] /\ u.updates[h] = k.updates[h]
              \/ /\ u.updates[h] = NoProxy /\ h \in u.unassigned[k.group[p]]
                 /\ u.gstate[k.group[p]] = "online" /\ k.group[p] \in u.queued
  <2>1. CASE p \notin off
      BY <1>1, <1>3, <1>4, <2>1
  <2>2. CASE p \in off
    <3>1. h \in Hosts(off) /\ h \in Hosts(off \cap ProxiesOf(k, k.group[p]))
        BY <2>2 DEF HostsOf, ProxiesOf
    <3>2. h \in Host /\ k.group[p] \in Group /\ k.group[p] \in AllGroups
        BY <1>3 DEF AllGroups
    <3>3. u.updates[h] = NoProxy
        BY <1>1, <3>1, <3>2
    <3>4. h \in u.unassigned[k.group[p]]
        BY <1>1, <3>1, <3>2
    <3>5. u.gstate[k.group[p]] = "online" /\ k.group[p] \in u.queued
        BY <1>2, <1>12, <2>2
    <3> QED BY <3>3, <3>4, <3>5
  <2> QED BY <2>1, <2>2
<1> QED BY <1>7, <1>8, <1>9, <1>10, <1>11, <1>13, <1>14, <1>15 DEF CacheOK

\* pgm_update: what an update makes of a cache that keeps the invariant.
LEMMA UpdatedOK ==
  ASSUME NEW k \in Cache, proxyGroup \in [Proxy -> AllGroups \cup {Gone}],
         CacheOK(k), NEW clock, NEW u, u = Updated(k, clock)
  PROVE  /\ u \in Cache /\ CacheOK(u)
         /\ u.group = proxyGroup /\ u.members = k.members /\ u.rev = k.rev
         /\ k.queued \subseteq u.queued
         /\ \A g \in Group : u.gstate[g] = "online" => Targets(u, g) # {}
         /\ \A g \in Group : u.gstate[g] = "online" /\ k.gstate[g] = "unknown" =>
              \A p \in ProxiesOf(u, g) : u.pstate[p] = "online"
         /\ k.group = proxyGroup =>
              /\ u.hostmap = k.hostmap
              /\ \A h \in Host : u.updates[h] \in {k.updates[h], NoProxy}
              /\ \A p \in Proxy : \A h \in k.refs[p] :
                   \/ h \in u.refs[p] /\ u.updates[h] = k.updates[h]
                   \/ /\ u.updates[h] = NoProxy /\ h \in u.unassigned[k.group[p]]
                      /\ u.gstate[k.group[p]] = "online" /\ k.group[p] \in u.queued
<1> DEFINE Aged(S) == {p \in Proxy : clock.age[p] \in S}
           dead == Aged({"dead"})
<1>1. PICK v : v = UpdateProxies(k)
    OBVIOUS
<1>2. PICK w : w = UpdateProxyState(v, dead, clock.alive \ dead, clock.starting)
    OBVIOUS
<1>3. PICK late, timeout : u = UpdateGroupState(w, late, timeout)
    BY <1>1, <1>2 DEF Updated
<1> HIDE DEF Aged, dead
<1>4. v \in Cache /\ CacheOK(v)
    BY <1>1, UpdateProxiesFields, UpdateProxiesOK
<1>5. /\ v.group = proxyGroup /\ v.members = k.members /\ v.rev = k.rev
      /\ v.gstate = k.gstate /\ k.queued \subseteq v.queued
  <2>1. v.group = proxyGroup /\ v.members = k.members
      BY <1>1, UpdateProxiesFields
  <2>2. v.rev = k.rev /\ v.gstate = k.gstate
      BY <1>1, UpdateProxiesFields
  <2>3. v.queued = k.queued \cup GroupsLeftOrJoined(k, Left(k))
      BY <1>1, UpdateProxiesFields
  <2> QED BY <2>1, <2>2, <2>3
<1>6. k.group = proxyGroup => /\ v.hostmap = k.hostmap /\ v.refs = k.refs
                              /\ v.updates = k.updates
  <2> SUFFICES ASSUME k.group = proxyGroup
               PROVE  v.hostmap = k.hostmap /\ v.refs = k.refs /\ v.updates = k.updates
      OBVIOUS
  <2>1. Left(k) = {} /\ DeletedProxies(Left(k)) = {}
      BY DEF Left, DeletedProxies
  <2>2. HostsOf(k, {}) = {}
      BY DEF HostsOf
  <2>3. HostsOf(k, Left(k) \ DeletedProxies(Left(k))) = {}
      BY <2>1, <2>2
  <2>4. v.refs = [p \in Proxy |-> IF p \in Left(k) THEN {} ELSE k.refs[p]]
      BY <1>1, UpdateProxiesFields
  <2>5. v.updates = [h \in Host |-> IF h \in HostsOf(k, Left(k) \ DeletedProxies(Left(k)))
                                    THEN NoProxy ELSE k.updates[h]]
      BY <1>1, UpdateProxiesFields
  <2>6. v.hostmap = [h \in Host |-> IF h \in HostsOf(k, DeletedProxies(Left(k)))
                                    THEN NoRow ELSE k.hostmap[h]]
      BY <1>1, UpdateProxiesFields
  <2> QED BY <2>1, <2>2, <2>3, <2>4, <2>5, <2>6 DEF Cache
<1>7. w \in Cache
    BY <1>2, <1>4, UpdateProxyStateFields
<1>8. /\ w.group = v.group /\ w.members = v.members
      /\ w.unassigned = v.unassigned /\ w.refs = v.refs
      /\ w.hostmap = v.hostmap /\ w.updates = v.updates
      /\ w.gstate = v.gstate /\ w.rev = v.rev /\ v.queued \subseteq w.queued
      /\ \A p \in Proxy : w.pstate[p] # v.pstate[p] => v.group[p] \in w.queued
    BY <1>2, <1>4, UpdateProxyStateFields
<1>9. ListTrue(w) /\ PoolTrue(w) /\ MapListed(w) /\ MembersServed(w) /\ WorkQueued(w)
    BY <1>4, <1>8 DEF CacheOK, ListTrue, PoolTrue, MapListed, MembersServed, WorkQueued
<1>10. OfflineQueued(w)
    BY <1>4, <1>8 DEF CacheOK, OfflineEmpty, OfflineQueued
<1>11. /\ CacheOK(u)
       /\ \A p \in Proxy : \A h \in w.refs[p] :
            \/ h \in u.refs[p] /\ u.updates[h] = w.updates[h]
            \/ /\ u.updates[h] = NoProxy /\ h \in u.unassigned[w.group[p]]
               /\ u.gstate[w.group[p]] = "online" /\ w.group[p] \in u.queued
       /\ \A h \in Host : u.updates[h] \in {w.updates[h], NoProxy}
    BY <1>3, <1>7, <1>9, <1>10, UpdateGroupStateOK
<1>12. GroupStateUpdated(w, u)
    BY <1>3, <1>7, UpdateGroupStateFields
<1>13. /\ u \in Cache /\ u.group = w.group /\ u.members = w.members
       /\ u.hostmap = w.hostmap /\ u.rev = w.rev /\ u.pstate = w.pstate
       /\ w.queued \subseteq u.queued
    BY <1>12 DEF GroupStateUpdated
<1>14. ASSUME NEW g \in Group, u.gstate[g] = "online"
       PROVE  /\ Targets(u, g) # {}
              /\ w.gstate[g] = "unknown" =>
                   \A p \in ProxiesOf(w, g) : w.pstate[p] = "online"
    BY <1>12, <1>14 DEF GroupStateUpdated
<1>15. \A g : ProxiesOf(u, g) = ProxiesOf(w, g)
    BY <1>13 DEF ProxiesOf
<1> QED BY <1>5, <1>6, <1>8, <1>11, <1>13, <1>14, <1>15

-----------------------------------------------------------------------------
(* The loop over the groups.  The fold is a function that is defined by       *)
(* recursion over the set of groups that were visited; what it computes       *)
(* follows by induction over the subsets of Group, which is stated with sets.  *)

Picked(s) == CHOOSE g \in s : TRUE

(* The caches after the groups in s were visited, given those without one. *)
Round(f, s, k, due) ==
  IF s = {} THEN {k}
  ELSE UNION {RebalanceGroup(x, Picked(s), due) : x \in f[s \ {Picked(s)}]}

Rounds(f, S, k, due) == f = [s \in SUBSET S |-> Round(f, s, k, due)]

\* A set of subsets of Group has an element that contains no other.
LEMMA LeastSubset ==
  ASSUME NEW T \in SUBSET (SUBSET Group), T # {}
  PROVE  \E s \in T : \A r \in T : r \subseteq s => r = s
<1>1. FiniteSubsetsOf(Group) = SUBSET Group
    BY FS_FiniteSubsetsOfFinite, ProxyGroupAssumption
<1>2. IsWellFoundedOn(StrictSubsetOrdering(Group), SUBSET Group)
    BY <1>1, FS_StrictSubsetOrderingWellFounded
<1>3. \E s \in T : \A r \in T : ~ (<<r, s>> \in StrictSubsetOrdering(Group))
    BY <1>2, WFMin
<1> QED BY <1>3 DEF StrictSubsetOrdering

LEMMA PickedFacts ==
  ASSUME NEW s, s # {}
  PROVE  /\ Picked(s) \in s
         /\ s \ {Picked(s)} \subseteq s /\ s \ {Picked(s)} # s
BY DEF Picked

LEMMA RoundsUnique ==
  ASSUME NEW k, NEW due, NEW S \in SUBSET Group, NEW R \in SUBSET Group,
         NEW f, Rounds(f, S, k, due), NEW e, Rounds(e, R, k, due),
         NEW s \in SUBSET (S \cap R)
  PROVE  f[s] = e[s]
<1> DEFINE T == {r \in SUBSET (S \cap R) : f[r] # e[r]}
<1>1. SUFFICES ASSUME T # {} PROVE FALSE
    OBVIOUS
<1>2. T \in SUBSET (SUBSET Group)
    OBVIOUS
<1>3. PICK r \in T : \A q \in T : q \subseteq r => q = r
    BY <1>1, <1>2, LeastSubset
<1>4. f[r] = Round(f, r, k, due) /\ e[r] = Round(e, r, k, due)
    BY DEF Rounds
<1>5. CASE r = {}
    BY <1>4, <1>5 DEF Round
<1>6. CASE r # {}
  <2>1. r \ {Picked(r)} \notin T /\ r \ {Picked(r)} \in SUBSET (S \cap R)
      BY <1>3, <1>6, PickedFacts
  <2>2. f[r \ {Picked(r)}] = e[r \ {Picked(r)}]
      BY <2>1
  <2> QED BY <1>4, <1>6, <2>2 DEF Round
<1> QED BY <1>5, <1>6

LEMMA RoundsExist ==
  ASSUME NEW k, NEW due
  PROVE  \E f : Rounds(f, Group, k, due)
<1> DEFINE T == {s \in SUBSET Group : ~ \E f : Rounds(f, s, k, due)}
           F(s) == CHOOSE f : Rounds(f, s, k, due)
<1>1. SUFFICES ASSUME T # {} PROVE FALSE
    OBVIOUS
<1>0. T \in SUBSET (SUBSET Group)
    OBVIOUS
<1>2. PICK S \in T : \A r \in T : r \subseteq S => r = S
  <2> HIDE DEF T
  <2> QED BY <1>0, <1>1, LeastSubset
<1>3. \A s \in SUBSET S : s # S => Rounds(F(s), s, k, due)
    BY <1>2
<1> HIDE DEF F
<1> DEFINE f == [s \in SUBSET S |-> IF s = {} THEN {k}
                    ELSE UNION {RebalanceGroup(x, Picked(s), due) :
                                  x \in F(s \ {Picked(s)})[s \ {Picked(s)}]}]
<1>4. \A s \in SUBSET S : s # S => f[s] = F(s)[s]
  <2> SUFFICES ASSUME NEW s \in SUBSET S, s # S PROVE f[s] = F(s)[s]
      OBVIOUS
  <2>1. Rounds(F(s), s, k, due)
      BY <1>3
  <2>2. F(s)[s] = Round(F(s), s, k, due)
      BY <2>1 DEF Rounds
  <2>3. CASE s = {}
      BY <2>2, <2>3 DEF Round
  <2>4. CASE s # {}
    <3> DEFINE r == s \ {Picked(s)}
    <3>1. r \in SUBSET S /\ r # S /\ r \in SUBSET s
        BY <2>4, PickedFacts
    <3>2. Rounds(F(r), r, k, due)
        BY <1>3, <3>1
    <3>3. F(r)[r] = F(s)[r]
        BY <2>1, <3>1, <3>2, RoundsUnique
    <3>4. f[s] = UNION {RebalanceGroup(x, Picked(s), due) : x \in F(r)[r]}
        BY <2>4
    <3> QED BY <2>2, <2>4, <3>3, <3>4 DEF Round
  <2> QED BY <2>3, <2>4
<1>5. \A s \in SUBSET S : f[s] = Round(f, s, k, due)
  <2> SUFFICES ASSUME NEW s \in SUBSET S PROVE f[s] = Round(f, s, k, due)
      OBVIOUS
  <2>1. CASE s = {}
      BY <2>1 DEF Round
  <2>2. CASE s # {}
    <3> DEFINE r == s \ {Picked(s)}
    <3>1. r \in SUBSET S /\ r # S
        BY <2>2, PickedFacts
    <3>2. f[r] = F(r)[r]
        BY <1>4, <3>1
    <3>3. f[s] = UNION {RebalanceGroup(x, Picked(s), due) : x \in F(r)[r]}
        BY <2>2
    <3> HIDE DEF f
    <3> QED BY <2>2, <3>2, <3>3 DEF Round
  <2> QED BY <2>1, <2>2
<1>6. Rounds(f, S, k, due)
  <2>1. f = [s \in SUBSET S |-> f[s]]
      OBVIOUS
  <2> HIDE DEF f
  <2> QED BY <1>5, <2>1 DEF Rounds
<1> QED BY <1>2, <1>6

\* The fold is the last round.
LEMMA RebalanceGroupsRounds ==
  ASSUME NEW k, NEW due
  PROVE  \E f : Rounds(f, Group, k, due) /\ RebalanceGroups(k, due) = f[Group]
<1> DEFINE iter == CHOOSE f : Rounds(f, Group, k, due)
<1>1. Rounds(iter, Group, k, due)
    BY RoundsExist
<1>2. RebalanceGroups(k, due) = iter[Group]
    BY DEF RebalanceGroups, FoldSet, MapThenFoldSet, Rounds, Round, Picked
<1> QED BY <1>1, <1>2

-----------------------------------------------------------------------------
(* One round: the hosts of one group are given to its proxies. *)

Unchanged(k, x) ==
  /\ x.group = k.group /\ x.members = k.members /\ x.hostmap = k.hostmap
  /\ x.pstate = k.pstate /\ x.gstate = k.gstate /\ x.queued = k.queued
  /\ x.rev = k.rev

Assigned(k, x, g, taken, given) ==
  /\ taken \subseteq HostsOf(k, Targets(k, g))
  /\ given \in [k.unassigned[g] \cup taken -> Targets(k, g)]
  /\ x.unassigned = [k.unassigned EXCEPT ![g] = {}]
  /\ x.refs = [p \in Proxy |-> k.refs[p] \ taken]
  /\ x.updates = [h \in Host |-> IF h \in DOMAIN given THEN given[h] ELSE k.updates[h]]

RoundResult(k, x, g) ==
  /\ x \in Cache /\ Unchanged(k, x)
  /\ x.unbalanced \ {g} = k.unbalanced \ {g}
  /\ k.gstate[g] = "online" /\ g \in k.queued =>
       /\ x.unassigned[g] = {} \/ g \in x.unbalanced
       /\ Targets(k, g) # {} => x.unassigned[g] = {}
  /\ \/ x.unassigned = k.unassigned /\ x.refs = k.refs /\ x.updates = k.updates
     \/ \E taken, given : Assigned(k, x, g, taken, given)

LEMMA TargetsFacts ==
  ASSUME NEW k, NEW g
  PROVE  \A p \in Targets(k, g) : p \in Proxy /\ k.group[p] = g /\ k.pstate[p] = "online"
BY DEF Targets, ProxiesOf

\* A balancing step gives hosts that are unassigned or taken from a proxy.
LEMMA ReassignmentFacts ==
  ASSUME NEW k \in Cache, NEW g \in Group, NEW r \in Reassignments(k, g)
  PROVE  /\ r.taken \subseteq HostsOf(k, Targets(k, g))
         /\ r.given \in [k.unassigned[g] \cup r.taken -> Targets(k, g)]
<1> DEFINE T == Targets(k, g)
           load(S) == [p \in T |-> Cardinality(k.refs[p] \ S)]
<1>1. \A S, l : Distributions(S, T, l) \subseteq [S -> T]
    BY DEF Distributions
<1>2. Excess(k, T) \subseteq SUBSET HostsOf(k, T)
    BY DEF Excess, HostsOf
<1> HIDE DEF T, load
<1>3. CASE k.unassigned[g] # {}
  <2>1. r \in {[taken |-> {}, given |-> f] :
              f \in Distributions(k.unassigned[g], T, load({}))}
      BY <1>3 DEF Reassignments, T, load
  <2>2. PICK f \in Distributions(k.unassigned[g], T, load({})) :
          r = [taken |-> {}, given |-> f]
      BY <2>1
  <2>3. r.taken = {} /\ r.given = f /\ f \in [k.unassigned[g] -> T]
      BY <1>1, <2>2
  <2>4. k.unassigned[g] \cup {} = k.unassigned[g]
      OBVIOUS
  <2> QED BY <2>3, <2>4 DEF T
<1>4. CASE k.unassigned[g] = {}
  <2>1. r \in UNION {{[taken |-> S, given |-> f] : f \in Distributions(S, T, load(S))}
                       : S \in Excess(k, T)}
      BY <1>4 DEF Reassignments, T, load
  <2>2. PICK S \in Excess(k, T) :
          r \in {[taken |-> S, given |-> f] : f \in Distributions(S, T, load(S))}
      BY <2>1
  <2>3. PICK f \in Distributions(S, T, load(S)) : r = [taken |-> S, given |-> f]
      BY <2>2
  <2>4. r.taken = S /\ r.given = f /\ f \in [S -> T] /\ S \subseteq HostsOf(k, T)
      BY <1>1, <1>2, <2>3
  <2>5. k.unassigned[g] \cup S = S
      BY <1>4
  <2> QED BY <2>4, <2>5 DEF T
<1> QED BY <1>3, <1>4

\* What a round leaves when it does not assign hosts: the group is marked or not.
Marked(k, g) == [k EXCEPT !.unbalanced = @ \cup {g}, !.waiting = @ \cup {g}]
Cleared(k, g) == [k EXCEPT !.unbalanced = @ \ {g}, !.waiting = @ \ {g}]

LEMMA MarkedFacts ==
  ASSUME NEW k \in Cache, NEW g \in Group, NEW x,
         x = Marked(k, g) \/ x = Cleared(k, g)
  PROVE  /\ x \in Cache /\ Unchanged(k, x)
         /\ x.unbalanced \ {g} = k.unbalanced \ {g}
         /\ x = Marked(k, g) => g \in x.unbalanced
         /\ x.unassigned = k.unassigned /\ x.refs = k.refs /\ x.updates = k.updates
<1>1. /\ x.group = k.group /\ x.members = k.members
      /\ x.unassigned = k.unassigned /\ x.refs = k.refs /\ x.hostmap = k.hostmap
      /\ x.updates = k.updates /\ x.pstate = k.pstate /\ x.seen = k.seen
      /\ x.gstate = k.gstate /\ x.queued = k.queued /\ x.rev = k.rev
      /\ x.groupRev = k.groupRev /\ x.lost = k.lost /\ x.synced = k.synced
  <2> DEFINE y(U, V) == [k EXCEPT !.unbalanced = U, !.waiting = V]
  <2>1. PICK U, V : x = y(U, V)
      BY DEF Cache, Marked, Cleared
  <2> HIDE DEF Marked, Cleared
  <2> QED BY <2>1 DEF Cache
<1>2. CASE x = Marked(k, g)
  <2>1. x.unbalanced = k.unbalanced \cup {g} /\ x.waiting = k.waiting \cup {g}
      BY <1>2 DEF Cache, Marked
  <2>2. IsRecord(x)
      BY <1>2 DEF Cache, IsRecord, Marked
  <2>3. x \in Cache
      BY <1>1, <2>1, <2>2, CacheRecord DEF Cache
  <2> QED BY <1>1, <2>1, <2>3 DEF Unchanged
<1>3. CASE x = Cleared(k, g)
  <2>1. x.unbalanced = k.unbalanced \ {g} /\ x.waiting = k.waiting \ {g}
      BY <1>3 DEF Cache, Cleared
  <2>2. IsRecord(x)
      BY <1>3 DEF Cache, IsRecord, Cleared
  <2>3. x \in Cache
      BY <1>1, <2>1, <2>2, CacheRecord DEF Cache
  <2>4. x # Marked(k, g)
    <3>1. Marked(k, g).unbalanced = k.unbalanced \cup {g}
        BY DEF Cache, Marked
    <3> QED BY <2>1, <3>1
  <2> QED BY <1>1, <2>1, <2>3, <2>4 DEF Unchanged
<1> QED BY <1>2, <1>3

LEMMA AssignFacts ==
  ASSUME NEW k \in Cache, NEW g \in Group, NEW r,
         r.taken \subseteq HostsOf(k, Targets(k, g)),
         r.given \in [k.unassigned[g] \cup r.taken -> Targets(k, g)],
         NEW x, x = Assign(k, g, r)
  PROVE  /\ x \in Cache /\ Unchanged(k, x) /\ x.unbalanced = k.unbalanced
         /\ x.unassigned[g] = {} /\ Assigned(k, x, g, r.taken, r.given)
<1>2. /\ x.group = k.group /\ x.members = k.members /\ x.hostmap = k.hostmap
      /\ x.pstate = k.pstate /\ x.seen = k.seen /\ x.gstate = k.gstate
      /\ x.queued = k.queued /\ x.unbalanced = k.unbalanced
      /\ x.waiting = k.waiting /\ x.rev = k.rev /\ x.groupRev = k.groupRev
      /\ x.lost = k.lost /\ x.synced = k.synced
    BY DEF Assign, Cache
<1>3. x.unassigned = [k.unassigned EXCEPT ![g] = {}]
    BY DEF Assign, Cache
<1>4. x.refs = [p \in Proxy |-> k.refs[p] \ r.taken]
    BY DEF Assign, Cache
<1>5. x.updates = [h \in Host |-> IF h \in DOMAIN r.given THEN r.given[h] ELSE k.updates[h]]
    BY DEF Assign, Cache
<1>6. IsRecord(x)
    BY DEF Assign, Cache, IsRecord
<1>7. x.unassigned \in [AllGroups -> SUBSET Host] /\ x.unassigned[g] = {}
    BY <1>3 DEF Cache, AllGroups
<1>8. x.refs \in [Proxy -> SUBSET Host]
    BY <1>4 DEF Cache
<1>9. x.updates \in [Host -> Proxy \cup {NoProxy, Keep}]
    BY <1>5, TargetsFacts DEF Cache
<1>10. x \in Cache
    BY <1>2, <1>6, <1>7, <1>8, <1>9, CacheRecord DEF Cache
<1> QED BY <1>2, <1>3, <1>4, <1>5, <1>7, <1>10 DEF Unchanged, Assigned

LEMMA RebalanceGroupResult ==
  ASSUME NEW k \in Cache, NEW g \in Group, NEW due, NEW x \in RebalanceGroup(k, g, due)
  PROVE  RoundResult(k, x, g)
<1>0. PICK Unbalanced : Unbalanced = Marked(k, g)
    OBVIOUS
<1>1. \/ (g \notin k.queued \/ k.gstate[g] # "online") /\ x = k
      \/ IsGroupBalanced(k, g) /\ x = Cleared(k, g)
      \/ Targets(k, g) = {} /\ x = Unbalanced
      \/ k.unassigned[g] # {} /\ \E r \in Reassignments(k, g) :
           x = Assign(Unbalanced, g, r)
      \/ k.unassigned[g] = {} /\ x = Unbalanced
      \/ k.unassigned[g] = {} /\ \E r \in Reassignments(k, g) :
           x = Cleared(Assign(k, g, r), g)
  <2>1. x \in IF g \notin k.queued \/ k.gstate[g] # "online" THEN {k}
              ELSE IF IsGroupBalanced(k, g) THEN {Cleared(k, g)}
              ELSE IF k.unassigned[g] # {}
              THEN IF Targets(k, g) = {} THEN {Marked(k, g)}
                   ELSE {Assign(Marked(k, g), g, r) : r \in Reassignments(k, g)}
              ELSE IF g \notin k.waiting \/ g \notin due \/ Targets(k, g) = {}
              THEN {Marked(k, g)}
              ELSE {Cleared(Assign(k, g, r), g) : r \in Reassignments(k, g)}
      BY DEF RebalanceGroup, Marked, Cleared
  <2> QED BY <1>0, <2>1
<1>2. /\ Unbalanced \in Cache /\ Unchanged(k, Unbalanced)
      /\ Unbalanced.unbalanced \ {g} = k.unbalanced \ {g}
      /\ g \in Unbalanced.unbalanced
      /\ Unbalanced.unassigned = k.unassigned /\ Unbalanced.refs = k.refs
      /\ Unbalanced.updates = k.updates
    BY <1>0, MarkedFacts
<1>3. CASE (g \notin k.queued \/ k.gstate[g] # "online") /\ x = k
    BY <1>3 DEF RoundResult, Unchanged
<1>4. CASE IsGroupBalanced(k, g) /\ x = Cleared(k, g)
  <2>1. k.unassigned[g] = {}
      BY <1>4 DEF IsGroupBalanced
  <2>2. /\ x \in Cache /\ Unchanged(k, x)
        /\ x.unbalanced \ {g} = k.unbalanced \ {g}
        /\ x.unassigned = k.unassigned /\ x.refs = k.refs /\ x.updates = k.updates
      BY <1>4, MarkedFacts
  <2> QED BY <2>1, <2>2 DEF RoundResult
<1>5. CASE Targets(k, g) = {} /\ x = Unbalanced
    BY <1>2, <1>5 DEF RoundResult
<1>6. CASE k.unassigned[g] = {} /\ x = Unbalanced
    BY <1>2, <1>6 DEF RoundResult
<1>7. ASSUME NEW r \in Reassignments(k, g), x = Assign(Unbalanced, g, r)
      PROVE  RoundResult(k, x, g)
  <2>1. Targets(Unbalanced, g) = Targets(k, g)
      BY <1>2 DEF Targets, ProxiesOf, Unchanged
  <2>2. HostsOf(Unbalanced, Targets(k, g)) = HostsOf(k, Targets(k, g))
      BY <1>2 DEF HostsOf
  <2>3. /\ r.taken \subseteq HostsOf(Unbalanced, Targets(Unbalanced, g))
        /\ r.given \in [Unbalanced.unassigned[g] \cup r.taken -> Targets(Unbalanced, g)]
      BY <1>2, <2>1, <2>2, ReassignmentFacts
  <2>4. /\ x \in Cache /\ Unchanged(Unbalanced, x)
        /\ x.unbalanced = Unbalanced.unbalanced
        /\ x.unassigned[g] = {} /\ Assigned(Unbalanced, x, g, r.taken, r.given)
      BY <1>2, <1>7, <2>3, AssignFacts
  <2>5. Assigned(k, x, g, r.taken, r.given)
      BY <1>2, <2>1, <2>2, <2>4 DEF Assigned
  <2>6. Unchanged(k, x)
      BY <1>2, <2>4 DEF Unchanged
  <2> QED BY <1>2, <2>4, <2>5, <2>6 DEF RoundResult
<1>8. ASSUME NEW r \in Reassignments(k, g), x = Cleared(Assign(k, g, r), g)
      PROVE  RoundResult(k, x, g)
  <2>1. PICK y : y = Assign(k, g, r)
      OBVIOUS
  <2>2. /\ y \in Cache /\ Unchanged(k, y) /\ y.unbalanced = k.unbalanced
        /\ y.unassigned[g] = {} /\ Assigned(k, y, g, r.taken, r.given)
    <3>1. /\ r.taken \subseteq HostsOf(k, Targets(k, g))
          /\ r.given \in [k.unassigned[g] \cup r.taken -> Targets(k, g)]
        BY ReassignmentFacts
    <3> QED BY <2>1, <3>1, AssignFacts
  <2>3. /\ x \in Cache /\ Unchanged(y, x)
        /\ x.unbalanced \ {g} = y.unbalanced \ {g}
        /\ x.unassigned = y.unassigned /\ x.refs = y.refs /\ x.updates = y.updates
      BY <1>8, <2>1, <2>2, MarkedFacts
  <2>4. Assigned(k, x, g, r.taken, r.given)
      BY <2>2, <2>3 DEF Assigned
  <2>5. Unchanged(k, x)
      BY <2>2, <2>3 DEF Unchanged
  <2> QED BY <2>2, <2>3, <2>4, <2>5 DEF RoundResult
<1> QED BY <1>1, <1>3, <1>4, <1>5, <1>6, <1>7, <1>8

-----------------------------------------------------------------------------
(* The invariant of the loop.  The groups in todo are not visited yet. *)

(* A host that is to be mapped to a proxy is in no other list, and if it has  *)
(* no proxy now the visit of its group, which is to come, will give it one.   *)
Pending(x, todo) ==
  \A h \in Host : \A p \in Proxy : x.updates[h] = p =>
    /\ x.group[p] \in Group /\ h \in x.members[x.group[p]]
    /\ \A q \in Proxy : h \in x.refs[q] => q = p
    /\ \A j \in AllGroups : h \in x.unassigned[j] =>
         /\ j \in todo /\ x.gstate[j] = "online" /\ j \in x.queued
         /\ Targets(x, j) # {}
    /\ \/ x.pstate[p] = "online" \/ h \in x.refs[p]
       \/ h \in x.unassigned[x.group[p]]

MembersGiven(x) ==
  \A g \in Group : \A h \in x.members[g] :
    \/ h \in x.unassigned[g]
    \/ \E p \in Proxy : x.group[p] = g /\ (h \in x.refs[p] \/ x.updates[h] = p)

Visited(x, todo) ==
  \A g \in Group \ todo : x.gstate[g] = "online" /\ g \in x.queued =>
    x.unassigned[g] = {} \/ g \in x.unbalanced

OneGroup(x) ==
  \A i, j \in AllGroups : \A h \in x.members[i] : h \in x.members[j] => i = j

MidLoop(x, todo) ==
  /\ x \in Cache /\ OneGroup(x)
  /\ ListTrue(x) /\ PoolTrue(x) /\ MapListed(x) /\ OfflineEmpty(x) /\ WorkQueued(x)
  /\ MembersGiven(x) /\ Visited(x, todo) /\ Pending(x, todo)

LEMMA RoundKeeps ==
  ASSUME NEW k, NEW todo, NEW g \in Group, g \in todo, MidLoop(k, todo),
         NEW x, RoundResult(k, x, g)
  PROVE  MidLoop(x, todo \ {g})
<1>1. k \in Cache /\ x \in Cache /\ Unchanged(k, x)
    BY DEF MidLoop, RoundResult
<1>2. \A j : Targets(x, j) = Targets(k, j)
    BY <1>1 DEF Unchanged, Targets, ProxiesOf
<1>3. (\A j \in Group \ todo : x.unassigned[j] = {} \/ x.unassigned[j] = k.unassigned[j])
        => Visited(x, todo \ {g})
  <2> SUFFICES ASSUME \A j \in Group \ todo : x.unassigned[j] = {} \/ x.unassigned[j] = k.unassigned[j],
                      NEW j \in Group \ (todo \ {g}), x.gstate[j] = "online", j \in x.queued
               PROVE  x.unassigned[j] = {} \/ j \in x.unbalanced
      BY DEF Visited
  <2>1. CASE j = g
      BY <1>1, <2>1 DEF RoundResult, Unchanged
  <2>2. CASE j # g
    <3>1. j \in Group \ todo
        BY <2>2
    <3>2. k.unassigned[j] = {} \/ j \in k.unbalanced
        BY <1>1, <3>1 DEF MidLoop, Visited, Unchanged
    <3>3. j \in k.unbalanced => j \in x.unbalanced
        BY <2>2 DEF RoundResult
    <3> QED BY <3>1, <3>2, <3>3
  <2> QED BY <2>1, <2>2
<1>4. CASE x.unassigned = k.unassigned /\ x.refs = k.refs /\ x.updates = k.updates
  <2>1. /\ OneGroup(x) /\ ListTrue(x) /\ PoolTrue(x) /\ MapListed(x)
        /\ OfflineEmpty(x) /\ WorkQueued(x) /\ MembersGiven(x)
      BY <1>1, <1>4 DEF MidLoop, Unchanged, OneGroup, ListTrue, PoolTrue, MapListed,
            OfflineEmpty, WorkQueued, MembersGiven
  <2>2. Visited(x, todo \ {g})
      BY <1>3, <1>4
  <2>3. Pending(x, todo \ {g})
    <3> SUFFICES ASSUME NEW h \in Host, NEW p \in Proxy, x.updates[h] = p
                 PROVE  /\ x.group[p] \in Group /\ h \in x.members[x.group[p]]
                        /\ \A q \in Proxy : h \in x.refs[q] => q = p
                        /\ \A j \in AllGroups : h \in x.unassigned[j] =>
                             /\ j \in todo \ {g} /\ x.gstate[j] = "online" /\ j \in x.queued
                             /\ Targets(x, j) # {}
                        /\ \/ x.pstate[p] = "online" \/ h \in x.refs[p]
                           \/ h \in x.unassigned[x.group[p]]
        BY DEF Pending
    <3>1. /\ k.group[p] \in Group /\ h \in k.members[k.group[p]]
          /\ \A q \in Proxy : h \in k.refs[q] => q = p
          /\ \A j \in AllGroups : h \in k.unassigned[j] =>
               /\ j \in todo /\ k.gstate[j] = "online" /\ j \in k.queued
               /\ Targets(k, j) # {}
          /\ \/ k.pstate[p] = "online" \/ h \in k.refs[p]
             \/ h \in k.unassigned[k.group[p]]
        BY <1>4 DEF MidLoop, Pending
    <3>2. h \notin x.unassigned[g]
      <4> SUFFICES ASSUME h \in x.unassigned[g] PROVE FALSE
          OBVIOUS
      <4>1. k.gstate[g] = "online" /\ g \in k.queued /\ Targets(k, g) # {}
          BY <1>4, <3>1 DEF AllGroups
      <4>2. x.unassigned[g] = {}
          BY <4>1 DEF RoundResult
      <4> QED BY <4>2
    <3> QED BY <1>1, <1>2, <1>4, <3>1, <3>2 DEF Unchanged
  <2> QED BY <1>1, <2>1, <2>2, <2>3 DEF MidLoop
<1>5. ASSUME NEW taken, NEW given, Assigned(k, x, g, taken, given)
      PROVE  MidLoop(x, todo \ {g})
  <2>1. /\ given \in [k.unassigned[g] \cup taken -> Targets(k, g)]
        /\ \A j \in AllGroups : x.unassigned[j] = IF j = g THEN {} ELSE k.unassigned[j]
        /\ \A p \in Proxy : x.refs[p] = k.refs[p] \ taken
        /\ \A h \in Host : x.updates[h] = IF h \in k.unassigned[g] \cup taken
                                          THEN given[h] ELSE k.updates[h]
      BY <1>1, <1>5 DEF Assigned, Cache
  <2>2. /\ ListTrue(k) /\ PoolTrue(k) /\ MapListed(k) /\ OfflineEmpty(k)
        /\ WorkQueued(k) /\ MembersGiven(k) /\ Pending(k, todo) /\ OneGroup(k)
      BY DEF MidLoop
  <2>3. g \in AllGroups
      BY DEF AllGroups
  <2>4. ASSUME NEW h \in k.unassigned[g] \cup taken
        PROVE  /\ h \in Host /\ h \in k.members[g]
               /\ \A q \in Proxy : h \notin x.refs[q]
               /\ given[h] \in Proxy /\ k.group[given[h]] = g
               /\ k.pstate[given[h]] = "online"
    <3>1. given[h] \in Targets(k, g)
        BY <2>1
    <3>2. CASE h \in k.unassigned[g]
        BY <1>1, <2>1, <2>2, <2>3, <3>1, <3>2, TargetsFacts DEF PoolTrue, Cache
    <3>3. CASE h \in taken
      <4>1. PICK p \in Targets(k, g) : h \in k.refs[p]
          BY <1>5, <3>3 DEF Assigned, HostsOf
      <4> QED BY <1>1, <2>1, <2>2, <3>1, <3>3, <4>1, TargetsFacts DEF ListTrue, Cache
    <3> QED BY <3>2, <3>3
  <2>5. \A h \in Host : x.updates[h] \notin Proxy => h \notin k.unassigned[g] \cup taken
      BY <2>1, <2>4
  <2>6. ListTrue(x)
      BY <1>1, <2>1, <2>2 DEF ListTrue, Unchanged
  <2>7. PoolTrue(x)
    <3>1. ASSUME NEW j \in AllGroups, NEW h \in x.unassigned[j]
          PROVE  h \in x.members[j] /\ \A p \in Proxy : h \notin x.refs[p]
        BY <1>1, <2>1, <2>2, <3>1 DEF PoolTrue, Unchanged
    <3>2. ASSUME NEW h \in Host, x.updates[h] = NoProxy, NEW p \in Proxy
          PROVE  h \notin x.refs[p]
        BY <2>1, <2>2, <2>5, <3>2, DistinctConstants DEF PoolTrue
    <3> QED BY <3>1, <3>2 DEF PoolTrue
  <2>8. MapListed(x)
    <3> SUFFICES ASSUME NEW h \in Host, x.hostmap[h] # NoRow, x.updates[h] = Keep
                 PROVE  h \in x.refs[x.hostmap[h].proxy]
        BY DEF MapListed
    <3>1. h \notin k.unassigned[g] \cup taken
        BY <2>5, DistinctConstants DEF Keep
    <3>2. k.hostmap[h] # NoRow /\ k.updates[h] = Keep /\ x.hostmap[h] = k.hostmap[h]
        BY <1>1, <2>1, <3>1 DEF Unchanged
    <3>3. h \in k.refs[k.hostmap[h].proxy] /\ k.hostmap[h].proxy \in Proxy
        BY <1>1, <2>2, <3>2, RowFacts DEF MapListed, Cache
    <3> QED BY <2>1, <3>1, <3>2, <3>3
  <2>9. OfflineEmpty(x) /\ WorkQueued(x)
    <3>1. OfflineEmpty(x)
        BY <1>1, <2>1, <2>2 DEF OfflineEmpty, Unchanged
    <3>2. WorkQueued(x)
        BY <1>1, <2>1, <2>2 DEF WorkQueued, Unchanged, AllGroups
    <3> QED BY <3>1, <3>2
  <2>10. OneGroup(x)
      BY <1>1, <2>2 DEF OneGroup, Unchanged
  <2>11. MembersGiven(x)
    <3> SUFFICES ASSUME NEW i \in Group, NEW h \in x.members[i]
                 PROVE  \/ h \in x.unassigned[i]
                        \/ \E p \in Proxy : x.group[p] = i /\ (h \in x.refs[p] \/ x.updates[h] = p)
        BY DEF MembersGiven
    <3>1. h \in k.members[i] /\ h \in Host /\ i \in AllGroups
        BY <1>1 DEF Unchanged, Cache, AllGroups
    <3>2. CASE h \in k.unassigned[g] \cup taken
      <4>1. i = g
          BY <2>2, <2>3, <2>4, <3>1, <3>2 DEF OneGroup
      <4> QED BY <1>1, <2>1, <2>4, <3>1, <3>2, <4>1 DEF Unchanged
    <3>3. CASE h \notin k.unassigned[g] \cup taken
      <4>1. \/ h \in k.unassigned[i]
            \/ \E p \in Proxy : k.group[p] = i /\ (h \in k.refs[p] \/ k.updates[h] = p)
          BY <2>2, <3>1 DEF MembersGiven
      <4> QED BY <1>1, <2>1, <3>1, <3>3, <4>1 DEF Unchanged
    <3> QED BY <3>2, <3>3
  <2>12. Visited(x, todo \ {g})
      BY <1>3, <2>1 DEF AllGroups
  <2>13. Pending(x, todo \ {g})
    <3> SUFFICES ASSUME NEW h \in Host, NEW p \in Proxy, x.updates[h] = p
                 PROVE  /\ x.group[p] \in Group /\ h \in x.members[x.group[p]]
                        /\ \A q \in Proxy : h \in x.refs[q] => q = p
                        /\ \A j \in AllGroups : h \in x.unassigned[j] =>
                             /\ j \in todo \ {g} /\ x.gstate[j] = "online" /\ j \in x.queued
                             /\ Targets(x, j) # {}
                        /\ \/ x.pstate[p] = "online" \/ h \in x.refs[p]
                           \/ h \in x.unassigned[x.group[p]]
        BY DEF Pending
    <3>1. CASE h \in k.unassigned[g] \cup taken
      <4>1. given[h] = p
          BY <2>1, <3>1
      <4>2. \A j \in AllGroups : h \notin x.unassigned[j]
          BY <2>1, <2>2, <2>3, <2>4, <3>1 DEF PoolTrue, OneGroup
      <4> QED BY <1>1, <2>4, <3>1, <4>1, <4>2 DEF Unchanged
    <3>2. CASE h \notin k.unassigned[g] \cup taken
      <4>1. k.updates[h] = p
          BY <2>1, <3>2
      <4>2. /\ k.group[p] \in Group /\ h \in k.members[k.group[p]]
            /\ \A q \in Proxy : h \in k.refs[q] => q = p
            /\ \A j \in AllGroups : h \in k.unassigned[j] =>
                 /\ j \in todo /\ k.gstate[j] = "online" /\ j \in k.queued
                 /\ Targets(k, j) # {}
            /\ \/ k.pstate[p] = "online" \/ h \in k.refs[p]
               \/ h \in k.unassigned[k.group[p]]
          BY <2>2, <4>1 DEF Pending
      <4>3. \A j \in AllGroups : h \in x.unassigned[j] => j # g /\ h \in k.unassigned[j]
          BY <2>1
      <4>4. h \in k.unassigned[k.group[p]] => h \in x.unassigned[k.group[p]]
          BY <2>1, <3>2, <4>2 DEF AllGroups
      <4>5. \A q \in Proxy : h \in x.refs[q] <=> h \in k.refs[q]
          BY <2>1, <3>2
      <4> QED BY <1>1, <1>2, <4>2, <4>3, <4>4, <4>5 DEF Unchanged
    <3> QED BY <3>1, <3>2
  <2> QED BY <1>1, <2>6, <2>7, <2>8, <2>9, <2>10, <2>11, <2>12, <2>13 DEF MidLoop
<1> QED BY <1>4, <1>5 DEF RoundResult

\* The loop: what RebalanceGroups makes of a cache was visited everywhere.
LEMMA RebalanceGroupsKeeps ==
  ASSUME NEW k, NEW due, MidLoop(k, Group), NEW x \in RebalanceGroups(k, due)
  PROVE  /\ MidLoop(x, {})
         /\ Unchanged(k, x)
<1>1. PICK f : Rounds(f, Group, k, due) /\ RebalanceGroups(k, due) = f[Group]
    BY RebalanceGroupsRounds
<1> DEFINE Good(s) == \A y \in f[s] : MidLoop(y, Group \ s) /\ Unchanged(k, y)
           T == {s \in SUBSET Group : ~Good(s)}
<1>2. T = {}
  <2>1. SUFFICES ASSUME T # {} PROVE FALSE
      OBVIOUS
  <2>2. PICK s \in T : \A r \in T : r \subseteq s => r = s
    <3>1. T \in SUBSET (SUBSET Group)
        OBVIOUS
    <3> HIDE DEF T
    <3> QED BY <2>1, <3>1, LeastSubset
  <2>3. f[s] = Round(f, s, k, due)
      BY <1>1 DEF Rounds
  <2>4. CASE s = {}
    <3>1. f[s] = {k} /\ Group \ s = Group
        BY <2>3, <2>4 DEF Round
    <3>2. Good(s)
        BY <3>1 DEF Unchanged
    <3> QED BY <3>2
  <2>5. CASE s # {}
    <3> DEFINE g == Picked(s)
               r == s \ {g}
    <3>1. g \in s /\ g \in Group /\ r \in SUBSET Group /\ r \subseteq s /\ r # s
        BY <2>5, PickedFacts
    <3>2. Good(r)
        BY <2>2, <3>1
    <3>3. f[s] = UNION {RebalanceGroup(y, g, due) : y \in f[r]}
        BY <2>3, <2>5 DEF Round
    <3>4. g \in Group \ r /\ (Group \ r) \ {g} = Group \ s
        BY <3>1
    <3>5. ASSUME NEW y \in f[s] PROVE MidLoop(y, Group \ s) /\ Unchanged(k, y)
      <4>1. PICK z \in f[r] : y \in RebalanceGroup(z, g, due)
          BY <3>3
      <4>2. MidLoop(z, Group \ r) /\ Unchanged(k, z)
          BY <3>2, <4>1
      <4> HIDE DEF g, r
      <4>3. RoundResult(z, y, g)
          BY <3>1, <4>1, <4>2, RebalanceGroupResult DEF MidLoop
      <4>4. MidLoop(y, (Group \ r) \ {g})
          BY <3>1, <3>4, <4>2, <4>3, RoundKeeps
      <4>5. Unchanged(k, y)
          BY <4>2, <4>3 DEF RoundResult, Unchanged
      <4> QED BY <3>4, <4>4, <4>5
    <3> QED BY <3>5
  <2> QED BY <2>4, <2>5
<1>3. Good(Group)
    BY <1>2
<1>4. Group \ Group = {}
    OBVIOUS
<1> QED BY <1>1, <1>3, <1>4

\* The loop keeps the types of the cache, whatever the cache is.
LEMMA RebalanceGroupsTyped ==
  ASSUME NEW k \in Cache, NEW due, NEW x \in RebalanceGroups(k, due)
  PROVE  x \in Cache /\ Unchanged(k, x)
<1>1. PICK f : Rounds(f, Group, k, due) /\ RebalanceGroups(k, due) = f[Group]
    BY RebalanceGroupsRounds
<1> DEFINE Good(s) == \A y \in f[s] : y \in Cache /\ Unchanged(k, y)
           T == {s \in SUBSET Group : ~Good(s)}
<1>2. T = {}
  <2>1. SUFFICES ASSUME T # {} PROVE FALSE
      OBVIOUS
  <2>2. PICK s \in T : \A r \in T : r \subseteq s => r = s
    <3>1. T \in SUBSET (SUBSET Group)
        OBVIOUS
    <3> HIDE DEF T
    <3> QED BY <2>1, <3>1, LeastSubset
  <2>3. f[s] = Round(f, s, k, due)
      BY <1>1 DEF Rounds
  <2>4. CASE s = {}
      BY <2>3, <2>4 DEF Round, Unchanged
  <2>5. CASE s # {}
    <3>1. Picked(s) \in Group /\ Good(s \ {Picked(s)})
        BY <2>2, <2>5, PickedFacts
    <3>2. f[s] = UNION {RebalanceGroup(y, Picked(s), due) : y \in f[s \ {Picked(s)}]}
        BY <2>3, <2>5 DEF Round
    <3>3. ASSUME NEW y \in f[s] PROVE y \in Cache /\ Unchanged(k, y)
      <4>1. PICK z \in f[s \ {Picked(s)}] : y \in RebalanceGroup(z, Picked(s), due)
          BY <3>2
      <4>2. z \in Cache /\ Unchanged(k, z)
          BY <3>1, <4>1
      <4>3. RoundResult(z, y, Picked(s))
          BY <3>1, <4>1, <4>2, RebalanceGroupResult
      <4> QED BY <4>2, <4>3 DEF RoundResult, Unchanged
    <3> QED BY <3>3
  <2> QED BY <2>4, <2>5
<1> QED BY <1>1, <1>2

-----------------------------------------------------------------------------
(* The flush takes the updates of the cache. *)

Sets(k) == {h \in Host : k.updates[h] \notin {Keep, NoProxy}}
Dels(k) == {h \in Host : k.updates[h] = NoProxy}

LEMMA DequeueFields ==
  ASSUME NEW k \in Cache, NEW x, x = Dequeue(k)
  PROVE  /\ x \in Cache
         /\ x.group = k.group /\ x.members = k.members /\ x.refs = k.refs
         /\ x.unassigned = k.unassigned /\ x.hostmap = k.hostmap
         /\ x.updates = k.updates /\ x.pstate = k.pstate /\ x.gstate = k.gstate
         /\ x.rev = k.rev
         /\ \A g \in Group : g \in k.queued /\ g \notin x.queued => g \notin k.unbalanced
<1>1. /\ x.group = k.group /\ x.members = k.members
      /\ x.unassigned = k.unassigned /\ x.refs = k.refs /\ x.hostmap = k.hostmap
      /\ x.updates = k.updates /\ x.pstate = k.pstate /\ x.seen = k.seen
      /\ x.gstate = k.gstate /\ x.unbalanced = k.unbalanced
      /\ x.waiting = k.waiting /\ x.rev = k.rev
      /\ x.groupRev = k.groupRev /\ x.lost = k.lost /\ x.synced = k.synced
    BY DEF Cache, Dequeue
<1>2. x.queued = {g \in k.queued : \/ g \in Group /\ k.gstate[g] = "recovering"
                                   \/ g \in k.unbalanced}
    BY DEF Cache, Dequeue
<1>3. IsRecord(x)
    BY DEF Cache, Dequeue, IsRecord
<1>4. x.queued \in SUBSET AllGroups
    BY <1>2 DEF Cache
<1>5. x \in Cache
    BY <1>1, <1>3, <1>4, CacheRecord DEF Cache
<1> QED BY <1>1, <1>2, <1>5

UpdatesTaken(k, u) ==
  /\ u \in Cache
  /\ u.group = k.group /\ u.members = k.members
  /\ u.unassigned = k.unassigned /\ u.pstate = k.pstate
  /\ u.gstate = k.gstate /\ u.queued = k.queued
  /\ \A h \in Host : u.updates[h] = Keep
  /\ \A h \in Host :
       u.hostmap[h] = IF h \in Dels(k) THEN NoRow
                      ELSE IF h \in Sets(k)
                      THEN [proxy |-> k.updates[h], rev |-> k.rev + 1]
                      ELSE k.hostmap[h]
  /\ \A p \in Proxy :
       u.refs[p] = IF k.group[p] = Gone THEN k.refs[p]
                   ELSE k.refs[p] \cup {h \in Sets(k) : k.updates[h] = p}

LEMMA TakeUpdatesFields ==
  ASSUME NEW k \in Cache, k.rev < MaxRevision, NEW u, u = TakeUpdates(k).k
  PROVE  UpdatesTaken(k, u)
<1> DEFINE S == {h \in Host : k.updates[h] # Keep}
           rev == k.rev + 1
           old(h) == k.hostmap[h].proxy
           del == {h \in S : k.updates[h] = NoProxy}
           set == S \ del
           told(p) == {h \in del : old(h) \in Proxy /\ k.group[old(h)] = k.group[p]}
<1>1. del = Dels(k) /\ set = Sets(k)
    BY DistinctConstants DEF Dels, Sets, Keep
<1>2. CASE S = {}
  <2>1. u = k
      BY <1>2 DEF TakeUpdates
  <2>2. Sets(k) = {} /\ Dels(k) = {}
      BY <1>1, <1>2
  <2> QED BY <1>2, <2>1, <2>2 DEF UpdatesTaken
<1>3. CASE S # {}
  <2>1. u = [k EXCEPT
                !.rev = rev,
                !.updates = [h \in Host |-> Keep],
                !.hostmap = [h \in Host |->
                               IF h \in del THEN NoRow
                               ELSE IF h \in set
                               THEN [proxy |-> k.updates[h], rev |-> rev] ELSE @[h]],
                !.refs = [p \in Proxy |->
                            IF k.group[p] = Gone THEN @[p]
                            ELSE @[p] \cup {h \in set : k.updates[h] = p}],
                !.lost = [p \in Proxy |->
                            IF \/ k.group[p] \notin Group \/ told(p) = {}
                               \/ k.synced[p] = "never" THEN @[p]
                            ELSE IF k.synced[p] = "day" THEN {}
                            ELSE @[p] \cup {<<h, rev>> : h \in told(p)}]]
      BY <1>3 DEF TakeUpdates
  <2>2. \A p : told(p) \subseteq Host
      OBVIOUS
  <2> HIDE DEF told, del, set, old, S
  <2>3. /\ u.group = k.group /\ u.members = k.members
        /\ u.unassigned = k.unassigned /\ u.pstate = k.pstate /\ u.seen = k.seen
        /\ u.gstate = k.gstate /\ u.queued = k.queued
        /\ u.unbalanced = k.unbalanced /\ u.waiting = k.waiting
        /\ u.groupRev = k.groupRev /\ u.synced = k.synced
        /\ u.rev = rev
      BY <2>1 DEF Cache
  <2>4. u.updates = [h \in Host |-> Keep]
      BY <2>1 DEF Cache
  <2>5. u.hostmap = [h \in Host |->
                       IF h \in del THEN NoRow
                       ELSE IF h \in set
                       THEN [proxy |-> k.updates[h], rev |-> rev] ELSE k.hostmap[h]]
      BY <2>1 DEF Cache
  <2>6. u.refs = [p \in Proxy |->
                    IF k.group[p] = Gone THEN k.refs[p]
                    ELSE k.refs[p] \cup {h \in set : k.updates[h] = p}]
      BY <2>1 DEF Cache
  <2>7. u.lost = [p \in Proxy |->
                    IF \/ k.group[p] \notin Group \/ told(p) = {}
                       \/ k.synced[p] = "never" THEN k.lost[p]
                    ELSE IF k.synced[p] = "day" THEN {}
                    ELSE k.lost[p] \cup {<<h, rev>> : h \in told(p)}]
      BY <2>1 DEF Cache
  <2>8. rev \in 1..MaxRevision
      BY ProxyGroupAssumption DEF Cache
  <2>9. IsRecord(u)
      BY <2>1 DEF Cache, IsRecord
  <2>10. u.lost \in [Proxy -> SUBSET (Host \X (1..MaxRevision))]
      BY <2>2, <2>7, <2>8 DEF Cache
  <2>11. u.hostmap \in [Host -> Row]
    <3>1. \A h \in set : h \in Host => k.updates[h] \in Proxy
        BY <1>1 DEF Sets, Cache
    <3>2. rev \in 0..MaxRevision
        BY <2>8, ProxyGroupAssumption
    <3> HIDE DEF rev
    <3> QED BY <2>5, <3>1, <3>2 DEF Cache, Row
  <2>12. u.refs \in [Proxy -> SUBSET Host]
      BY <1>1, <2>6 DEF Sets, Cache
  <2>13. u.updates \in [Host -> Proxy \cup {NoProxy, Keep}]
      BY <2>4
  <2>14. u.rev \in 0..MaxRevision
      BY <2>3, <2>8, ProxyGroupAssumption
  <2>15. u \in Cache
      BY <2>3, <2>9, <2>10, <2>11, <2>12, <2>13, <2>14, CacheRecord DEF Cache
  <2> QED BY <1>1, <2>3, <2>4, <2>5, <2>6, <2>15 DEF UpdatesTaken
<1> QED BY <1>2, <1>3

\* The transaction that the updates make.
LEMMA TransactionTyped ==
  ASSUME NEW k \in Cache, k.rev < MaxRevision
  PROVE  TakeUpdates(k).t \in Transaction
<1> DEFINE S == {h \in Host : k.updates[h] # Keep}
           rev == k.rev + 1
           old(h) == k.hostmap[h].proxy
           del == {h \in S : k.updates[h] = NoProxy}
           set == S \ del
           mod == {h \in set : old(h) # NoProxy}
           GroupsOf(P) == {k.group[p] : p \in P \cap Proxy} \ {Gone}
<1>1. CASE S = {}
    BY <1>1, ProxyGroupAssumption DEF TakeUpdates, Nothing, Transaction
<1>2. CASE S # {}
  <2>1. TakeUpdates(k).t =
          [mod |-> {<<h, k.updates[h]>> : h \in mod},
           new |-> {<<h, k.updates[h]>> : h \in set \ mod},
           del |-> del,
           groups |-> GroupsOf({old(h) : h \in S} \cup {k.updates[h] : h \in set}),
           rev |-> rev]
      BY <1>2 DEF TakeUpdates
  <2>2. \A h \in set : h \in Host /\ k.updates[h] \in Proxy
      BY DEF Cache
  <2>3. mod \subseteq set /\ del \subseteq Host
      OBVIOUS
  <2>4. \A P : GroupsOf(P) \subseteq AllGroups
      BY DEF Cache
  <2>5. rev \in 0..MaxRevision
      BY ProxyGroupAssumption DEF Cache
  <2> HIDE DEF mod, set, del, GroupsOf, rev, S, old
  <2> QED BY <2>1, <2>2, <2>3, <2>4, <2>5 DEF Transaction
<1> QED BY <1>1, <1>2

\* After the loop every update that is taken keeps the invariant.
LEMMA TakeUpdatesOK ==
  ASSUME NEW x, MidLoop(x, {}), x.rev < MaxRevision,
         NEW u, u = TakeUpdates(Dequeue(x)).k
  PROVE  /\ u \in Cache /\ CacheOK(u)
         /\ u.group = x.group /\ u.members = x.members
         /\ \A h \in Host : u.updates[h] = Keep
<1>1. PICK k : k = Dequeue(x)
    OBVIOUS
<1>2. /\ x \in Cache /\ ListTrue(x) /\ PoolTrue(x) /\ MapListed(x) /\ OfflineEmpty(x)
      /\ WorkQueued(x) /\ MembersGiven(x) /\ Visited(x, {}) /\ Pending(x, {})
    BY DEF MidLoop
<1>3. /\ k \in Cache
      /\ k.group = x.group /\ k.members = x.members /\ k.refs = x.refs
      /\ k.unassigned = x.unassigned /\ k.hostmap = x.hostmap
      /\ k.updates = x.updates /\ k.pstate = x.pstate /\ k.gstate = x.gstate
      /\ k.rev = x.rev
      /\ \A g \in Group : g \in x.queued /\ g \notin k.queued => g \notin x.unbalanced
    BY <1>1, <1>2, DequeueFields
<1>4. WorkQueued(k)
    BY <1>2, <1>3 DEF WorkQueued, Visited
<1>taken. UpdatesTaken(k, u)
    BY <1>1, <1>3, TakeUpdatesFields
<1>5. /\ u \in Cache
      /\ u.group = k.group /\ u.members = k.members
      /\ u.unassigned = k.unassigned /\ u.pstate = k.pstate
      /\ u.gstate = k.gstate /\ u.queued = k.queued
      /\ \A h \in Host : u.updates[h] = Keep
    BY <1>taken DEF UpdatesTaken
<1>map. \A h \in Host :
          u.hostmap[h] = IF h \in Dels(k) THEN NoRow
                         ELSE IF h \in Sets(k)
                         THEN [proxy |-> k.updates[h], rev |-> k.rev + 1]
                         ELSE k.hostmap[h]
    BY <1>taken DEF UpdatesTaken
<1>lists. \A p \in Proxy :
            u.refs[p] = IF k.group[p] = Gone THEN k.refs[p]
                        ELSE k.refs[p] \cup {h \in Sets(k) : k.updates[h] = p}
    BY <1>taken DEF UpdatesTaken
<1>6. \A h \in Host : \A p \in Proxy : k.updates[h] = p =>
        /\ k.group[p] \in Group /\ h \in k.members[k.group[p]]
        /\ \A q \in Proxy : h \in k.refs[q] => q = p
        /\ \A j \in AllGroups : h \notin k.unassigned[j]
        /\ k.pstate[p] = "online" \/ h \in k.refs[p]
  <2> SUFFICES ASSUME NEW h \in Host, NEW p \in Proxy, k.updates[h] = p
               PROVE  /\ k.group[p] \in Group /\ h \in k.members[k.group[p]]
                      /\ \A q \in Proxy : h \in k.refs[q] => q = p
                      /\ \A j \in AllGroups : h \notin k.unassigned[j]
                      /\ k.pstate[p] = "online" \/ h \in k.refs[p]
      OBVIOUS
  <2> QED BY <1>2, <1>3 DEF Pending, AllGroups
<1>7. \A h \in Host : /\ h \in Sets(k) <=> k.updates[h] \in Proxy
                      /\ h \in Dels(k) <=> k.updates[h] = NoProxy
    BY <1>3, DistinctConstants DEF Sets, Dels, Cache, Keep
<1>8. \A p \in Proxy : \A h \in k.refs[p] : h \in Host /\ h \notin Dels(k)
    BY <1>2, <1>3, <1>7 DEF PoolTrue, Cache
<1>9. \A p \in Proxy : \A h \in u.refs[p] :
        h \in Host /\ (h \in k.refs[p] \/ k.updates[h] = p)
    BY <1>lists, <1>8 DEF Sets
<1>10. \A p \in Proxy : k.refs[p] \subseteq u.refs[p]
    BY <1>lists
<1>11. \A h \in Host : \A p \in Proxy : k.updates[h] = p => h \in u.refs[p]
  <2> SUFFICES ASSUME NEW h \in Host, NEW p \in Proxy, k.updates[h] = p
               PROVE  h \in u.refs[p]
      OBVIOUS
  <2>1. k.group[p] # Gone
      BY <1>6, DistinctConstants
  <2>2. h \in Sets(k)
      BY <1>7
  <2>3. u.refs[p] = k.refs[p] \cup {i \in Sets(k) : k.updates[i] = p}
      BY <1>lists, <2>1
  <2> QED BY <2>2, <2>3
<1>12. ListTrue(u)
  <2> SUFFICES ASSUME NEW p \in Proxy, NEW h \in u.refs[p]
               PROVE  u.hostmap[h].proxy = p /\ u.group[p] \in Group
                      /\ h \in u.members[u.group[p]]
      BY DEF ListTrue
  <2>1. CASE k.updates[h] = p
    <3>1. h \in Host /\ h \in Sets(k) /\ h \notin Dels(k)
        BY <1>7, <1>9, <2>1, DistinctConstants
    <3>2. u.hostmap[h] = [proxy |-> k.updates[h], rev |-> k.rev + 1]
        BY <1>map, <3>1
    <3>3. u.hostmap[h].proxy = p
        BY <2>1, <3>2
    <3> QED BY <1>5, <1>6, <2>1, <3>1, <3>3
  <2>2. CASE h \in k.refs[p] /\ k.updates[h] # p
    <3>1. h \in Host /\ h \notin Dels(k) /\ h \notin Sets(k)
        BY <1>6, <1>7, <1>8, <2>2
    <3>2. u.hostmap[h] = k.hostmap[h]
        BY <1>map, <3>1
    <3> QED BY <1>2, <1>3, <1>5, <2>2, <3>2 DEF ListTrue
  <2> QED BY <1>9, <2>1, <2>2
<1>13. PoolTrue(u)
  <2>1. ASSUME NEW g \in AllGroups, NEW h \in u.unassigned[g]
        PROVE  h \in u.members[g] /\ \A p \in Proxy : h \notin u.refs[p]
      BY <1>2, <1>3, <1>5, <1>6, <1>9 DEF PoolTrue
  <2>2. \A h \in Host : u.updates[h] # NoProxy
      BY <1>5, DistinctConstants DEF Keep
  <2> QED BY <2>1, <2>2 DEF PoolTrue
<1>14. MapListed(u)
  <2> SUFFICES ASSUME NEW h \in Host, u.hostmap[h] # NoRow
               PROVE  h \in u.refs[u.hostmap[h].proxy]
      BY DEF MapListed
  <2>1. h \notin Dels(k)
      BY <1>map
  <2>2. CASE h \in Sets(k)
    <3>1. u.hostmap[h].proxy = k.updates[h] /\ k.updates[h] \in Proxy
      <4>1. u.hostmap[h] = [proxy |-> k.updates[h], rev |-> k.rev + 1]
          BY <1>map, <2>1, <2>2
      <4> QED BY <1>7, <2>2, <4>1
    <3> QED BY <1>11, <3>1
  <2>3. CASE h \notin Sets(k)
    <3>1. u.hostmap[h] = k.hostmap[h] /\ k.hostmap[h] # NoRow /\ k.updates[h] = Keep
        BY <1>3, <1>map, <2>1, <2>3 DEF Sets, Dels
    <3>2. h \in k.refs[k.hostmap[h].proxy] /\ k.hostmap[h].proxy \in Proxy
        BY <1>2, <1>3, <3>1, RowFacts DEF MapListed, Cache
    <3> QED BY <1>10, <3>1, <3>2
  <2> QED BY <2>2, <2>3
<1>15. MembersServed(u)
  <2> SUFFICES ASSUME NEW g \in Group, NEW h \in u.members[g]
               PROVE  h \in u.unassigned[g] \/ \E p \in Proxy : u.group[p] = g /\ h \in u.refs[p]
      BY DEF MembersServed
  <2>1. h \in Host
      BY <1>5 DEF Cache, AllGroups
  <2> QED BY <1>2, <1>3, <1>5, <1>10, <1>11, <2>1 DEF MembersGiven
<1>16. OfflineEmpty(u)
  <2> SUFFICES ASSUME NEW p \in Proxy, u.group[p] \in Group,
                      u.gstate[u.group[p]] = "online", u.pstate[p] # "online",
                      NEW h \in u.refs[p]
               PROVE  FALSE
      BY DEF OfflineEmpty
  <2>1. k.refs[p] = {}
      BY <1>2, <1>3, <1>5 DEF OfflineEmpty
  <2>2. k.updates[h] = p /\ h \in Host
      BY <1>9, <2>1
  <2> QED BY <1>5, <1>6, <2>1, <2>2
<1>17. WorkQueued(u)
    BY <1>4, <1>5 DEF WorkQueued
<1> QED BY <1>3, <1>5, <1>12, <1>13, <1>14, <1>15, <1>16, <1>17 DEF CacheOK

-----------------------------------------------------------------------------
(* The other operators of the cache. *)

\* The largest of some revisions.
LEMMA MaxRevisions ==
  ASSUME NEW S \in SUBSET (0..MaxRevision), S # {}
  PROVE  Max(S) \in S
<1> DEFINE M == 0..MaxRevision
           T == {m..MaxRevision : m \in S}
<1>0. MaxRevision \in Nat
    BY ProxyGroupAssumption
<1>1. FiniteSubsetsOf(M) = SUBSET M
  <2>1. IsFiniteSet(M)
      BY <1>0, FS_Interval
  <2> HIDE DEF M
  <2> QED BY <2>1, FS_FiniteSubsetsOfFinite
<1>2. IsWellFoundedOn(StrictSubsetOrdering(M), SUBSET M)
    BY <1>1, FS_StrictSubsetOrderingWellFounded
<1>3. T \subseteq SUBSET M /\ T # {}
  <2>1. ASSUME NEW m \in S PROVE m..MaxRevision \subseteq M
      BY <1>0
  <2>2. T # {}
      OBVIOUS
  <2> QED BY <2>1, <2>2
<1>4. PICK t \in T : \A r \in T : ~ (<<r, t>> \in StrictSubsetOrdering(M))
  <2> HIDE DEF T, M
  <2> QED BY <1>2, <1>3, WFMin
<1>5. PICK m \in S : t = m..MaxRevision
    BY <1>4
<1>6. \A y \in S : m >= y
  <2> SUFFICES ASSUME NEW y \in S, y > m PROVE FALSE
      BY <1>0
  <2>1. y..MaxRevision \in T /\ y..MaxRevision \subseteq m..MaxRevision
      BY <1>0
  <2>2. m \in m..MaxRevision /\ m \notin y..MaxRevision
      BY <1>0
  <2>3. <<y..MaxRevision, t>> \in StrictSubsetOrdering(M)
      BY <1>3, <1>5, <2>1, <2>2 DEF StrictSubsetOrdering
  <2> QED BY <1>4, <2>1, <2>3
<1> QED BY <1>6 DEF Max

LEMMA UpdatedTyped ==
  ASSUME NEW k \in Cache, proxyGroup \in [Proxy -> AllGroups \cup {Gone}],
         NEW clock, NEW u, u = Updated(k, clock)
  PROVE  u \in Cache /\ u.group = proxyGroup /\ u.members = k.members /\ u.rev = k.rev
<1> DEFINE Aged(S) == {p \in Proxy : clock.age[p] \in S}
           dead == Aged({"dead"})
<1>1. PICK v : v = UpdateProxies(k)
    OBVIOUS
<1>2. PICK w : w = UpdateProxyState(v, dead, clock.alive \ dead, clock.starting)
    OBVIOUS
<1>3. PICK late, timeout : u = UpdateGroupState(w, late, timeout)
    BY <1>1, <1>2 DEF Updated
<1> HIDE DEF Aged, dead
<1>4. v \in Cache /\ v.group = proxyGroup /\ v.members = k.members /\ v.rev = k.rev
    BY <1>1, UpdateProxiesFields
<1>5. w \in Cache /\ w.group = v.group /\ w.members = v.members /\ w.rev = v.rev
    BY <1>2, <1>4, UpdateProxyStateFields
<1>6. GroupStateUpdated(w, u)
    BY <1>3, <1>5, UpdateGroupStateFields
<1> QED BY <1>4, <1>5, <1>6 DEF GroupStateUpdated

HostRemoved(k, g, h, u) ==
  /\ u \in Cache
  /\ u.group = k.group /\ u.hostmap = k.hostmap
  /\ u.pstate = k.pstate /\ u.gstate = k.gstate
  /\ u.members = [k.members EXCEPT ![g] = @ \ {h}]
  /\ u.unassigned = [k.unassigned EXCEPT ![g] = @ \ {h}]
  /\ u.refs = [q \in Proxy |-> IF q = k.hostmap[h].proxy THEN k.refs[q] \ {h}
                               ELSE k.refs[q]]
  /\ u.updates = [i \in Host |-> IF i = h /\ k.hostmap[h] # NoRow
                                 THEN NoProxy ELSE k.updates[i]]
  /\ u.queued = k.queued \cup {g}

\* pg_cache_group_remove_host: the host leaves every list.
LEMMA GroupRemoveHostFields ==
  ASSUME NEW k \in Cache, NEW g \in Group, NEW h \in Host,
         NEW u, u = GroupRemoveHost(k, g, h)
  PROVE  HostRemoved(k, g, h, u)
<1>1. /\ u.group = k.group /\ u.hostmap = k.hostmap
      /\ u.pstate = k.pstate /\ u.gstate = k.gstate /\ u.seen = k.seen
      /\ u.unbalanced = k.unbalanced /\ u.waiting = k.waiting /\ u.rev = k.rev
      /\ u.groupRev = k.groupRev /\ u.lost = k.lost /\ u.synced = k.synced
    BY DEF GroupRemoveHost, Cache
<1>2. u.members = [k.members EXCEPT ![g] = @ \ {h}]
    BY DEF GroupRemoveHost, Cache
<1>3. u.unassigned = [k.unassigned EXCEPT ![g] = @ \ {h}]
    BY DEF GroupRemoveHost, Cache
<1>4. u.refs = [q \in Proxy |-> IF q = k.hostmap[h].proxy THEN k.refs[q] \ {h}
                                ELSE k.refs[q]]
    BY DEF GroupRemoveHost, Cache
<1>5. u.updates = IF k.hostmap[h] # NoRow THEN SetHostProxy(k.updates, {h}, NoProxy)
                  ELSE k.updates
    BY DEF GroupRemoveHost, Cache
<1>6. u.updates = [i \in Host |-> IF i = h /\ k.hostmap[h] # NoRow
                                  THEN NoProxy ELSE k.updates[i]]
  <2>1. CASE k.hostmap[h] # NoRow
      BY <1>5, <2>1 DEF SetHostProxy
  <2>2. CASE k.hostmap[h] = NoRow
      BY <1>5, <2>2 DEF Cache
  <2> QED BY <2>1, <2>2
<1>7. u.queued = k.queued \cup {g}
    BY DEF GroupRemoveHost, Cache
<1>8. IsRecord(u)
    BY DEF GroupRemoveHost, Cache, IsRecord
<1>9. u.members \in [AllGroups -> SUBSET Host]
    BY <1>2 DEF Cache, AllGroups
<1>10. u.unassigned \in [AllGroups -> SUBSET Host]
    BY <1>3 DEF Cache, AllGroups
<1>11. u.refs \in [Proxy -> SUBSET Host]
    BY <1>4 DEF Cache
<1>12. u.updates \in [Host -> Proxy \cup {NoProxy, Keep}]
    BY <1>6 DEF Cache
<1>13. u.queued \in SUBSET AllGroups
    BY <1>7 DEF Cache, AllGroups
<1>14. u \in Cache
    BY <1>1, <1>8, <1>9, <1>10, <1>11, <1>12, <1>13, CacheRecord DEF Cache
<1> QED BY <1>1, <1>2, <1>3, <1>4, <1>6, <1>7, <1>14 DEF HostRemoved

HostAdded(k, g, h, u) ==
  /\ u \in Cache
  /\ u.group = k.group /\ u.hostmap = k.hostmap /\ u.refs = k.refs
  /\ u.updates = k.updates /\ u.pstate = k.pstate /\ u.gstate = k.gstate
  /\ u.unassigned = [k.unassigned EXCEPT ![g] =
                       IF h \in k.members[g] THEN @ ELSE @ \cup {h}]
  /\ u.members = [k.members EXCEPT ![g] = @ \cup {h}]
  /\ u.queued = k.queued \cup {g}

\* pg_cache_group_add_host: a new host of the group has no proxy.
LEMMA GroupAddHostFields ==
  ASSUME NEW k \in Cache, NEW g \in Group, NEW h \in Host,
         NEW u, u = GroupAddHost(k, g, h)
  PROVE  HostAdded(k, g, h, u)
<1>1. /\ u.group = k.group /\ u.hostmap = k.hostmap /\ u.refs = k.refs
      /\ u.updates = k.updates
      /\ u.pstate = k.pstate /\ u.gstate = k.gstate /\ u.seen = k.seen
      /\ u.unbalanced = k.unbalanced /\ u.waiting = k.waiting /\ u.rev = k.rev
      /\ u.groupRev = k.groupRev /\ u.lost = k.lost /\ u.synced = k.synced
    BY DEF GroupAddHost, Cache
<1>2. u.unassigned = [k.unassigned EXCEPT ![g] =
                        IF h \in k.members[g] THEN @ ELSE @ \cup {h}]
    BY DEF GroupAddHost, Cache
<1>3. u.members = [k.members EXCEPT ![g] = @ \cup {h}]
    BY DEF GroupAddHost, Cache
<1>4. u.queued = k.queued \cup {g}
    BY DEF GroupAddHost, Cache
<1>5. IsRecord(u)
    BY DEF GroupAddHost, Cache, IsRecord
<1>6. u.members \in [AllGroups -> SUBSET Host]
    BY <1>3 DEF Cache, AllGroups
<1>7. u.unassigned \in [AllGroups -> SUBSET Host]
    BY <1>2 DEF Cache, AllGroups
<1>8. u.queued \in SUBSET AllGroups
    BY <1>4 DEF Cache, AllGroups
<1>9. u \in Cache
    BY <1>1, <1>5, <1>6, <1>7, <1>8, CacheRecord DEF Cache
<1> QED BY <1>1, <1>2, <1>3, <1>4, <1>9 DEF HostAdded

\* The host of a group is saved with its group: the row is written again.
Saved(k, h) ==
  [k EXCEPT !.updates = SetHostProxy(@, {h}, k.hostmap[h].proxy),
            !.queued = @ \cup ({k.group[q] : q \in {k.hostmap[h].proxy} \cap Proxy}
                               \ {Gone})]

HostSaved(k, h, u) ==
  /\ u \in Cache
  /\ u.group = k.group /\ u.hostmap = k.hostmap /\ u.refs = k.refs
  /\ u.members = k.members /\ u.unassigned = k.unassigned
  /\ u.pstate = k.pstate /\ u.gstate = k.gstate
  /\ u.updates = [i \in Host |-> IF i = h THEN k.hostmap[h].proxy ELSE k.updates[i]]
  /\ k.queued \subseteq u.queued
  /\ \A p \in Proxy : k.hostmap[h].proxy = p /\ k.group[p] # Gone =>
       k.group[p] \in u.queued

LEMMA SavedFields ==
  ASSUME NEW k \in Cache, NEW h \in Host, NEW u, u = Saved(k, h)
  PROVE  HostSaved(k, h, u)
<1>1. /\ u.group = k.group /\ u.hostmap = k.hostmap /\ u.refs = k.refs
      /\ u.members = k.members /\ u.unassigned = k.unassigned
      /\ u.pstate = k.pstate /\ u.gstate = k.gstate /\ u.seen = k.seen
      /\ u.unbalanced = k.unbalanced /\ u.waiting = k.waiting /\ u.rev = k.rev
      /\ u.groupRev = k.groupRev /\ u.lost = k.lost /\ u.synced = k.synced
    BY DEF Saved, Cache
<1>2. u.updates = [i \in Host |-> IF i = h THEN k.hostmap[h].proxy ELSE k.updates[i]]
    BY DEF Saved, Cache, SetHostProxy
<1>3. u.queued = k.queued \cup ({k.group[q] : q \in {k.hostmap[h].proxy} \cap Proxy} \ {Gone})
    BY DEF Saved, Cache
<1>4. IsRecord(u)
    BY DEF Saved, Cache, IsRecord
<1>5. k.hostmap[h].proxy \in Proxy \cup {NoProxy}
    BY RowFacts DEF Cache
<1>6. u.updates \in [Host -> Proxy \cup {NoProxy, Keep}]
    BY <1>2, <1>5 DEF Cache
<1>7. u.queued \in SUBSET AllGroups
    BY <1>3 DEF Cache
<1>8. u \in Cache
    BY <1>1, <1>4, <1>6, <1>7, CacheRecord DEF Cache
<1> QED BY <1>1, <1>2, <1>3, <1>8 DEF HostSaved

(* A row is loaded when its proxy is in the group of its host. *)
Loaded(k) == {h \in Host : row[h] # NoRow /\ k.group[row[h].proxy] = hostGroup[h]}
InGroup(g) == {h \in Host : hostGroup[h] = g}

HostsLoaded(k, u) ==
  /\ u \in Cache
  /\ u.group = k.group /\ u.pstate = k.pstate /\ u.gstate = k.gstate
  /\ u.queued = k.queued
  /\ u.members = [g \in AllGroups |-> InGroup(g)]
  /\ u.unassigned = [g \in AllGroups |-> InGroup(g) \ Loaded(k)]
  /\ u.hostmap = [h \in Host |-> IF h \in Loaded(k) THEN row[h] ELSE NoRow]
  /\ u.refs = [p \in Proxy |-> {h \in Loaded(k) : row[h].proxy = p}]
  /\ u.updates = [h \in Host |-> IF row[h] # NoRow /\ h \notin Loaded(k)
                                 THEN NoProxy ELSE k.updates[h]]

\* pgm_db_get_hosts: what is made of the rows at the start of the server.
LEMMA GetHostsFields ==
  ASSUME NEW k \in Cache, row \in [Host -> Row], NEW u, u = GetHosts(k)
  PROVE  HostsLoaded(k, u)
<1> DEFINE Revs(g) == {row[h].rev : h \in Loaded(k) \cap InGroup(g)}
<1>1. /\ u.group = k.group /\ u.pstate = k.pstate /\ u.gstate = k.gstate
      /\ u.queued = k.queued /\ u.seen = k.seen
      /\ u.unbalanced = k.unbalanced /\ u.waiting = k.waiting /\ u.rev = k.rev
      /\ u.lost = k.lost /\ u.synced = k.synced
    BY DEF GetHosts, Cache
<1>2. u.members = [g \in AllGroups |-> InGroup(g)]
    BY DEF GetHosts, Cache, InGroup
<1>3. u.unassigned = [g \in AllGroups |-> InGroup(g) \ Loaded(k)]
    BY DEF GetHosts, Cache, InGroup, Loaded
<1>4. u.hostmap = [h \in Host |-> IF h \in Loaded(k) THEN row[h] ELSE NoRow]
    BY DEF GetHosts, Cache, Loaded
<1>5. u.refs = [p \in Proxy |-> {h \in Loaded(k) : row[h].proxy = p}]
    BY DEF GetHosts, Cache, Loaded
<1>6. u.updates = [h \in Host |-> IF row[h] # NoRow /\ h \notin Loaded(k)
                                  THEN NoProxy ELSE k.updates[h]]
  <2>1. u.updates = [h \in Host |->
          IF row[h] # NoRow /\ ~(row[h] # NoRow /\ k.group[row[h].proxy] = hostGroup[h])
          THEN NoProxy ELSE k.updates[h]]
      BY DEF GetHosts, Cache
  <2>2. \A h \in Host : h \in Loaded(k) <=>
          (row[h] # NoRow /\ k.group[row[h].proxy] = hostGroup[h])
      BY DEF Loaded
  <2> QED BY <2>1, <2>2
<1>7. u.groupRev = [g \in AllGroups |-> IF Revs(g) = {} THEN 0 ELSE Max(Revs(g))]
    BY DEF GetHosts, Cache, InGroup, Loaded
<1>8. IsRecord(u)
    BY DEF GetHosts, Cache, IsRecord
<1>9. u.groupRev \in [AllGroups -> 0..MaxRevision]
  <2>1. \A g : Revs(g) \subseteq 0..MaxRevision
      BY RowFacts DEF Loaded
  <2> HIDE DEF Revs
  <2>2. \A g : Revs(g) # {} => Max(Revs(g)) \in 0..MaxRevision
      BY <2>1, MaxRevisions
  <2> QED BY <1>7, <2>2, ProxyGroupAssumption
<1>10. u.members \in [AllGroups -> SUBSET Host]
    BY <1>2 DEF InGroup
<1>11. u.unassigned \in [AllGroups -> SUBSET Host]
    BY <1>3 DEF InGroup
<1>12. u.hostmap \in [Host -> Row]
    BY <1>4 DEF Row
<1>13. u.refs \in [Proxy -> SUBSET Host]
    BY <1>5 DEF Loaded
<1>14. u.updates \in [Host -> Proxy \cup {NoProxy, Keep}]
    BY <1>6 DEF Cache
<1>15. u \in Cache
    BY <1>1, <1>8, <1>9, <1>10, <1>11, <1>12, <1>13, <1>14, CacheRecord DEF Cache
<1> QED BY <1>1, <1>2, <1>3, <1>4, <1>5, <1>6, <1>15 DEF HostsLoaded

LEMMA EmptyCacheTyped ==
  ASSUME ids \in 0..MaxRevision
  PROVE  EmptyCache \in Cache
BY ProxyGroupAssumption DEF EmptyCache, Cache, State, GroupState, Row

LEMMA LoadedAtTyped ==
  ASSUME row \in [Host -> Row], ids \in 0..MaxRevision,
         proxyGroup \in [Proxy -> AllGroups \cup {Gone}], NEW clock
  PROVE  LoadedAt(clock) \in Cache /\ LoadedAt(clock).group = proxyGroup
<1>1. PICK k : k = Updated(EmptyCache, clock)
    OBVIOUS
<1>2. k \in Cache /\ k.group = proxyGroup
    BY <1>1, EmptyCacheTyped, UpdatedTyped
<1>3. HostsLoaded(k, GetHosts(k))
    BY <1>2, GetHostsFields
<1> QED BY <1>1, <1>2, <1>3 DEF LoadedAt, HostsLoaded

-----------------------------------------------------------------------------
(* Type correctness. *)

(* A proxy that is gone for the manager is gone. *)
GoneStays == \A p \in Proxy : c.group[p] = Gone => proxyGroup[p] = Gone

TInv == Typed /\ GoneStays

LEMMA TypedInit == Init => TInv
<1> SUFFICES ASSUME Init PROVE TInv
    OBVIOUS
<1> USE ProxyGroupAssumption
<1>1. /\ hostGroup \in [Host -> Group \cup {NoGroup, Gone}]
      /\ proxyGroup \in [Proxy -> AllGroups \cup {Gone}]
    BY DEF Init, AllGroups
<1>2. row \in [Host -> Row] /\ \A h \in Host : row[h].rev \in 0..MaxRevision
  <2>1. \A h \in Host : /\ RowHome[h] # NoProxy => RowHome[h] \in Proxy
                        /\ row[h] = IF RowHome[h] = NoProxy THEN NoRow
                                    ELSE [proxy |-> RowHome[h], rev |-> 1]
      BY DEF Init
  <2>2. 1 \in 0..MaxRevision /\ 0 \in 0..MaxRevision
      OBVIOUS
  <2>3. ASSUME NEW h \in Host PROVE row[h] \in Row
    <3>1. CASE RowHome[h] = NoProxy
        BY <2>1, <3>1 DEF Row
    <3>2. CASE RowHome[h] # NoProxy
      <4>1. [proxy |-> RowHome[h], rev |-> 1] \in [proxy : Proxy, rev : 0..MaxRevision]
          BY <2>1, <2>2, <3>2
      <4> QED BY <2>1, <3>2, <4>1 DEF Row
    <3> QED BY <3>1, <3>2
  <2>4. row = [h \in Host |-> row[h]]
      BY DEF Init
  <2> QED BY <2>3, <2>4, RowFacts
<1>3. ids \in 0..MaxRevision
  <2>1. {row[h].rev : h \in Host} \in SUBSET (0..MaxRevision)
      BY <1>2
  <2>2. {row[h].rev : h \in Host} # {}
    <3>1. PICK i : i \in Host
        BY ProxyGroupAssumption
    <3>2. row[i].rev \in {row[h].rev : h \in Host}
        BY <3>1
    <3> QED BY <3>2
  <2>3. Max({row[h].rev : h \in Host}) \in {row[h].rev : h \in Host}
      BY <2>1, <2>2, MaxRevisions
  <2> QED BY <2>1, <2>3 DEF Init
<1>4. c \in Cache /\ c.group = proxyGroup
    BY <1>1, <1>2, <1>3, LoadedAtTyped DEF Init
<1>5. txn \in Transaction /\ inbox \in Seq(Relocation) /\ loop \in {"top", "flush"}
      /\ events \in 0..MaxEvents
    BY DEF Init, Transaction, Nothing
<1>6. /\ reply \in [Watch -> {Nothing} \cup Reply]
      /\ copy \in [Watch -> [Host -> Proxy \cup {NoProxy}]]
      /\ known \in [Watch -> {Unset} \cup 0..MaxRevision]
      /\ session \in [Watch -> BOOLEAN]
    BY DEF Init
<1> QED BY <1>1, <1>2, <1>3, <1>4, <1>5, <1>6 DEF TInv, Typed, GoneStays

(* What the invariant says of a cache is the same of two caches that differ   *)
(* in what the manager knows of the proxies' copies.                          *)
SameDecisions(k, u) ==
  /\ u.group = k.group /\ u.members = k.members
  /\ u.unassigned = k.unassigned /\ u.refs = k.refs /\ u.hostmap = k.hostmap
  /\ u.updates = k.updates /\ u.pstate = k.pstate /\ u.gstate = k.gstate
  /\ u.queued = k.queued /\ u.rev = k.rev

LEMMA SameDecisionsTyped ==
  ASSUME NEW k \in Cache, NEW u, IsRecord(u), SameDecisions(k, u),
         u.seen = k.seen, u.unbalanced = k.unbalanced, u.waiting = k.waiting,
         u.groupRev \in [AllGroups -> 0..MaxRevision],
         u.lost \in [Proxy -> SUBSET (Host \X (1..MaxRevision))],
         u.synced \in [Proxy -> {"never", "recent", "day"}]
  PROVE  u \in Cache
BY CacheRecord DEF SameDecisions, Cache

\* The revision of the groups follows the commit.
LEMMA CommitCache ==
  ASSUME c \in Cache, txn \in Transaction, Commit
  PROVE  c' \in Cache /\ SameDecisions(c, c')
<1>1. CASE c' = c
    BY <1>1 DEF SameDecisions
<1>2. CASE c' = [c EXCEPT !.groupRev = [g \in AllGroups |->
                            IF g \in txn.groups THEN c.rev ELSE @[g]]]
  <2>1. /\ SameDecisions(c, c') /\ c'.seen = c.seen
        /\ c'.unbalanced = c.unbalanced /\ c'.waiting = c.waiting
        /\ c'.lost = c.lost /\ c'.synced = c.synced
      BY <1>2 DEF SameDecisions, Cache
  <2>2. c'.groupRev \in [AllGroups -> 0..MaxRevision]
      BY <1>2 DEF Cache
  <2>3. IsRecord(c')
      BY <1>2 DEF IsRecord, Cache
  <2>4. /\ c'.lost \in [Proxy -> SUBSET (Host \X (1..MaxRevision))]
        /\ c'.synced \in [Proxy -> {"never", "recent", "day"}]
      BY <2>1 DEF Cache
  <2> QED BY <2>1, <2>2, <2>3, <2>4, SameDecisionsTyped
<1> QED BY <1>1, <1>2 DEF Commit

\* An answer changes what is kept of the rows a proxy was not told of.
LEMMA RequestCache ==
  ASSUME c \in Cache, NEW p \in Watch, RequestConfig(p)
  PROVE  c' \in Cache /\ SameDecisions(c, c')
<1>0. p \in Proxy
    BY ProxyGroupAssumption
<1>1. PICK l, s : /\ c' = [c EXCEPT !.lost[p] = l, !.synced[p] = s]
                  /\ l \subseteq c.lost[p] /\ s \in {c.synced[p], "recent"}
    BY DEF RequestConfig
<1>2. /\ SameDecisions(c, c') /\ c'.seen = c.seen
      /\ c'.unbalanced = c.unbalanced /\ c'.waiting = c.waiting
      /\ c'.groupRev = c.groupRev
    BY <1>1 DEF SameDecisions, Cache
<1>3. c'.groupRev \in [AllGroups -> 0..MaxRevision]
    BY <1>2 DEF Cache
<1>4. IsRecord(c')
    BY <1>1 DEF IsRecord, Cache
<1>5. c'.lost \in [Proxy -> SUBSET (Host \X (1..MaxRevision))]
    BY <1>0, <1>1 DEF Cache
<1>6. c'.synced \in [Proxy -> {"never", "recent", "day"}]
    BY <1>0, <1>1 DEF Cache
<1> QED BY <1>2, <1>3, <1>4, <1>5, <1>6, SameDecisionsTyped

LEMMA DayPassesCache ==
  ASSUME c \in Cache, NEW p \in Watch, DayPasses(p)
  PROVE  c' \in Cache /\ SameDecisions(c, c')
<1>0. p \in Proxy
    BY ProxyGroupAssumption
<1>1. c' = [c EXCEPT !.synced[p] = "day"]
    BY DEF DayPasses
<1>2. /\ SameDecisions(c, c') /\ c'.seen = c.seen
      /\ c'.unbalanced = c.unbalanced /\ c'.waiting = c.waiting
      /\ c'.groupRev = c.groupRev /\ c'.lost = c.lost
    BY <1>1 DEF SameDecisions, Cache
<1>3. /\ c'.groupRev \in [AllGroups -> 0..MaxRevision]
      /\ c'.lost \in [Proxy -> SUBSET (Host \X (1..MaxRevision))]
    BY <1>2 DEF Cache
<1>4. IsRecord(c')
    BY <1>1 DEF IsRecord, Cache
<1>5. c'.synced \in [Proxy -> {"never", "recent", "day"}]
    BY <1>0, <1>1 DEF Cache
<1> QED BY <1>2, <1>3, <1>4, <1>5, SameDecisionsTyped

\* pg_update_host_pgroup: the three things a relocation may do.
Removed(k, m) == IF m.src \in Group THEN GroupRemoveHost(k, m.src, m.host) ELSE k

LEMMA RelocationCases ==
  ASSUME c \in Cache, inbox \in Seq(Relocation), HandleRelocation,
         NEW m, m = Head(inbox)
  PROVE  /\ m \in Relocation
         /\ \/ m.src = m.dst /\ c.hostmap[m.host] = NoRow /\ c' = c
            \/ m.src = m.dst /\ c.hostmap[m.host] # NoRow /\ c' = Saved(c, m.host)
            \/ /\ m.src # m.dst /\ m.dst \in Group
               /\ c' = GroupAddHost(Removed(c, m), m.dst, m.host)
            \/ m.src # m.dst /\ m.dst \notin Group /\ c' = Removed(c, m)
<1>1. inbox # <<>>
    BY DEF HandleRelocation
<1>2. m \in Relocation
    BY <1>1
<1>3. c' = IF m.src = m.dst
           THEN IF c.hostmap[m.host] = NoRow THEN c ELSE Saved(c, m.host)
           ELSE IF m.dst \in Group THEN GroupAddHost(Removed(c, m), m.dst, m.host)
                ELSE Removed(c, m)
    BY DEF HandleRelocation, Saved, Removed
<1> QED BY <1>2, <1>3

LEMMA RemovedTyped ==
  ASSUME NEW k \in Cache, NEW m \in Relocation
  PROVE  Removed(k, m) \in Cache /\ Removed(k, m).group = k.group
<1>1. m.host \in Host
    BY DEF Relocation
<1>2. CASE m.src \in Group
  <2>1. PICK u : u = GroupRemoveHost(k, m.src, m.host)
      OBVIOUS
  <2>2. HostRemoved(k, m.src, m.host, u)
      BY <1>1, <1>2, <2>1, GroupRemoveHostFields
  <2> QED BY <1>2, <2>1, <2>2 DEF Removed, HostRemoved
<1>3. CASE m.src \notin Group
    BY <1>3 DEF Removed
<1> QED BY <1>2, <1>3

LEMMA RelocationTyped ==
  ASSUME c \in Cache, inbox \in Seq(Relocation), HandleRelocation
  PROVE  c' \in Cache /\ c'.group = c.group
<1>1. PICK m : m = Head(inbox)
    OBVIOUS
<1>2. m \in Relocation /\ m.host \in Host
    BY <1>1, RelocationCases DEF Relocation
<1>3. PICK k : k = Removed(c, m)
    OBVIOUS
<1>4. k \in Cache /\ k.group = c.group
    BY <1>2, <1>3, RemovedTyped
<1>5. Saved(c, m.host) \in Cache /\ Saved(c, m.host).group = c.group
  <2>1. PICK u : u = Saved(c, m.host)
      OBVIOUS
  <2>2. HostSaved(c, m.host, u)
      BY <1>2, <2>1, SavedFields
  <2> QED BY <2>1, <2>2 DEF HostSaved
<1>6. m.dst \in Group => /\ GroupAddHost(k, m.dst, m.host) \in Cache
                         /\ GroupAddHost(k, m.dst, m.host).group = c.group
  <2>1. PICK u : u = GroupAddHost(k, m.dst, m.host)
      OBVIOUS
  <2>2. m.dst \in Group => HostAdded(k, m.dst, m.host, u)
      BY <1>2, <1>4, <2>1, GroupAddHostFields
  <2> QED BY <1>4, <2>1, <2>2 DEF HostAdded
<1>7. \/ c' = c \/ c' = Saved(c, m.host)
      \/ m.dst \in Group /\ c' = GroupAddHost(k, m.dst, m.host)
      \/ c' = k
    BY <1>1, <1>3, RelocationCases
<1> QED BY <1>4, <1>5, <1>6, <1>7

LEMMA RowsAfterTyped ==
  ASSUME row \in [Host -> Row], NEW t \in Transaction
  PROVE  RowsAfter(t) \in [Host -> Row]
<1> DEFINE put == {m \in t.mod : row[m[1]] # NoRow} \cup
                  {m \in t.new : HostExists(m[1]) /\ ProxyExists(m[2])}
           chosen(h) == CHOOSE m \in put : m[1] = h
<1>1. RowsAfter(t) = [h \in Host |->
        IF \E m \in put : m[1] = h THEN [proxy |-> chosen(h)[2], rev |-> t.rev]
        ELSE IF h \in t.del THEN NoRow ELSE row[h]]
    BY DEF RowsAfter
<1>2. put \subseteq Host \X Proxy /\ t.rev \in 0..MaxRevision
    BY DEF Transaction
<1>3. ASSUME NEW h \in Host, \E m \in put : m[1] = h
      PROVE  chosen(h) \in Host \X Proxy
    BY <1>2, <1>3
<1> HIDE DEF chosen, put
<1>4. ASSUME NEW h \in Host, \E m \in put : m[1] = h
      PROVE  [proxy |-> chosen(h)[2], rev |-> t.rev] \in Row
    BY <1>2, <1>3, <1>4 DEF Row
<1> QED BY <1>1, <1>4 DEF Row

\* Every step keeps the types, and a proxy that is gone for the manager has
\* been deleted: it cannot come back under the same id.
LEMMA TypedNext == TInv /\ [Next]_vars => TInv'
<1> SUFFICES ASSUME TInv, [Next]_vars PROVE TInv'
    OBVIOUS
<1>ty. Typed /\ c \in Cache /\ GoneStays
    BY DEF TInv, Typed
<1> USE DEF database, config, proxyside
<1>1. CASE Update
  <2>1. PICK clock : c' = Updated(c, clock)
      BY <1>1 DEF Update
  <2>2. c' \in Cache /\ c'.group = proxyGroup
      BY <1>ty, <2>1, UpdatedTyped DEF Typed
  <2> QED BY <1>ty, <1>1, <2>2 DEF Update, TInv, Typed, GoneStays
<1>2. CASE NothingToFlush
    BY <1>ty, <1>2 DEF NothingToFlush, TInv, Typed, GoneStays
<1>3. CASE RebalanceAndTake
  <2>0. PICK due \in SUBSET Group : \E x \in RebalanceGroups(c, due) :
          c' = TakeUpdates(Dequeue(x)).k /\ txn' = TakeUpdates(Dequeue(x)).t
      BY <1>3 DEF RebalanceAndTake
  <2>1. PICK x \in RebalanceGroups(c, due) :
          c' = TakeUpdates(Dequeue(x)).k /\ txn' = TakeUpdates(Dequeue(x)).t
      BY <2>0
  <2>2. x \in Cache /\ x.group = c.group /\ x.rev = c.rev
      BY <1>ty, <2>1, RebalanceGroupsTyped DEF Unchanged
  <2>3. PICK k : k = Dequeue(x)
      OBVIOUS
  <2>4. k \in Cache /\ k.group = c.group /\ k.rev < MaxRevision
      BY <1>3, <2>2, <2>3, DequeueFields DEF RebalanceAndTake
  <2>5. UpdatesTaken(k, c')
      BY <2>1, <2>3, <2>4, TakeUpdatesFields
  <2>6. c' \in Cache /\ c'.group = c.group
      BY <2>4, <2>5 DEF UpdatesTaken
  <2>7. txn' \in Transaction
      BY <2>1, <2>3, <2>4, TransactionTyped
  <2> QED BY <1>ty, <1>3, <2>6, <2>7 DEF RebalanceAndTake, TInv, Typed, GoneStays
<1>4. CASE Commit
  <2>1. c' \in Cache /\ c'.group = c.group
      BY <1>ty, <1>4, CommitCache DEF Typed, SameDecisions
  <2>2. row' \in [Host -> Row] /\ ids' \in 0..MaxRevision
    <3>1. CASE Refused(txn)
        BY <1>ty, <1>4, <3>1 DEF Commit, Typed
    <3>2. CASE ~Refused(txn)
      <4>1. row' = RowsAfter(txn) /\ ids' = txn.rev
          BY <1>4, <3>2 DEF Commit
      <4> QED BY <1>ty, <4>1, RowsAfterTyped DEF Typed, Transaction
    <3> QED BY <3>1, <3>2
  <2>3. txn' \in Transaction
      BY <1>4, ProxyGroupAssumption DEF Commit, Transaction, Nothing
  <2> QED BY <1>ty, <1>4, <2>1, <2>2, <2>3 DEF Commit, TInv, Typed, GoneStays
<1>5. CASE HandleRelocation
  <2>1. c' \in Cache /\ c'.group = c.group
      BY <1>ty, <1>5, RelocationTyped DEF Typed
  <2>2. inbox' \in Seq(Relocation)
      BY <1>ty, <1>5 DEF HandleRelocation, Typed
  <2> QED BY <1>ty, <1>5, <2>1, <2>2 DEF HandleRelocation, TInv, Typed, GoneStays
<1>6. ASSUME NEW p \in Watch, RequestConfig(p) PROVE TInv'
  <2>1. c' \in Cache /\ c'.group = c.group
      BY <1>ty, <1>6, RequestCache DEF SameDecisions
  <2>2. p \in Proxy /\ proxyGroup[p] \in Group
      BY <1>6, ProxyGroupAssumption DEF RequestConfig
  <2>3. c.group[p] \in AllGroups
      BY <1>ty, <2>2, DistinctConstants DEF GoneStays, Cache
  <2>4. c.groupRev[c.group[p]] \in 0..MaxRevision
      BY <1>ty, <2>3 DEF Cache
  <2>5. PICK m \in {"none", "full", "partial"}, w \in BOOLEAN,
             s \in {0, known[p]}, d \in SUBSET Host :
          /\ reply' = [reply EXCEPT ![p] =
               [mode |-> m, whole |-> w, rev |-> c.groupRev[c.group[p]],
                since |-> s, group |-> proxyGroup[p], del |-> d]]
          /\ s = known[p] => s # Unset
    <3> DEFINE full == ~session[p] \/ known[p] = Unset
               rev == IF full THEN 0 ELSE known[p]
               g == c.group[p]
               mode == IF c.groupRev[g] = 0 THEN "none"
                       ELSE IF rev = 0 \/ rev > c.groupRev[g] \/ c.synced[p] # "recent"
                       THEN "full"
                       ELSE IF rev < c.groupRev[g] THEN "partial" ELSE "none"
               lost == {d \in c.lost[p] : d[2] > rev}
               since == IF mode = "full" THEN 0 ELSE rev
               del == IF mode = "partial" THEN {d[1] : d \in lost} ELSE {}
    <3>1. reply' = [reply EXCEPT ![p] =
            [mode |-> mode, whole |-> full, rev |-> c.groupRev[c.group[p]],
             since |-> since, group |-> proxyGroup[p], del |-> del]]
        BY <1>6 DEF RequestConfig
    <3>2. mode \in {"none", "full", "partial"} /\ full \in BOOLEAN
        OBVIOUS
    <3>3. since \in {0, known[p]} /\ (since = known[p] => since # Unset)
        BY DEF Unset
    <3>4. del \in SUBSET Host
        BY <1>ty, <2>2 DEF Cache
    <3> HIDE DEF mode, full, since, del
    <3> QED BY <3>1, <3>2, <3>3, <3>4
  <2>6. s \in 0..MaxRevision
    <3>1. known[p] \in {Unset} \cup 0..MaxRevision
        BY <1>ty DEF Typed
    <3> QED BY <2>5, <3>1, ProxyGroupAssumption
  <2>7. reply' \in [Watch -> {Nothing} \cup Reply]
    <3>1. [mode |-> m, whole |-> w, rev |-> c.groupRev[c.group[p]],
           since |-> s, group |-> proxyGroup[p], del |-> d] \in Reply
        BY <2>2, <2>4, <2>6 DEF Reply
    <3> QED BY <1>ty, <2>5, <3>1 DEF Typed
  <2>8. session' \in [Watch -> BOOLEAN]
      BY <1>ty, <1>6 DEF RequestConfig, Typed
  <2> QED BY <1>ty, <1>6, <2>1, <2>7, <2>8 DEF RequestConfig, TInv, Typed, GoneStays
<1>7. ASSUME NEW p \in Watch, ApplyConfig(p) PROVE TInv'
  <2>1. reply[p] \in Reply
      BY <1>ty, <1>7 DEF ApplyConfig, Typed
  <2>2. known' \in [Watch -> {Unset} \cup 0..MaxRevision]
      BY <1>ty, <1>7, <2>1 DEF ApplyConfig, Typed, Reply
  <2>3. reply' \in [Watch -> {Nothing} \cup Reply]
      BY <1>ty, <1>7 DEF ApplyConfig, Typed
  <2>4. PICK f : copy' = [copy EXCEPT ![p] = f] /\ f = [h \in Host |-> f[h]]
                 /\ \A h \in Host : f[h] \in {copy[p][h], NoProxy, row[h].proxy}
    <3> DEFINE r == reply[p]
               sent == HostmapRows(r.group, r.since)
               stays(h) == /\ ~r.whole /\ h \notin r.del
                           /\ copy[p][h] # NoProxy => proxyGroup[copy[p][h]] = r.group
               new == [h \in Host |->
                         IF r.mode = "none" /\ ~r.whole THEN copy[p][h]
                         ELSE IF h \in sent THEN row[h].proxy
                         ELSE IF stays(h) THEN copy[p][h] ELSE NoProxy]
    <3>1. copy' = [copy EXCEPT ![p] = new]
        BY <1>ty, <1>7 DEF ApplyConfig, Typed
    <3>2. \A h \in Host : new[h] \in {copy[p][h], NoProxy, row[h].proxy}
        OBVIOUS
    <3>3. new = [h \in Host |-> new[h]]
        OBVIOUS
    <3> HIDE DEF new
    <3> QED BY <3>1, <3>2, <3>3
  <2>5. \A h \in Host : f[h] \in Proxy \cup {NoProxy}
      BY <1>ty, <2>4, RowFacts DEF Typed
  <2>6. f \in [Host -> Proxy \cup {NoProxy}]
      BY <2>4, <2>5
  <2>7. copy' \in [Watch -> [Host -> Proxy \cup {NoProxy}]]
      BY <1>ty, <2>4, <2>6 DEF Typed
  <2> QED BY <1>ty, <1>7, <2>2, <2>3, <2>7 DEF ApplyConfig, TInv, Typed, GoneStays
<1>8. ASSUME NEW p \in Watch, LoseConfig(p) PROVE TInv'
    BY <1>ty, <1>8 DEF LoseConfig, TInv, Typed, GoneStays
<1>9. ASSUME NEW p \in Watch, PurgeCopy(p) PROVE TInv'
  <2>1. known' \in [Watch -> {Unset} \cup 0..MaxRevision]
      BY <1>ty, <1>9, ProxyGroupAssumption DEF PurgeCopy, Typed
  <2>2. session' \in [Watch -> BOOLEAN]
      BY <1>ty, <1>9 DEF PurgeCopy, Typed
  <2>3. copy' \in [Watch -> [Host -> Proxy \cup {NoProxy}]]
      BY <1>ty, <1>9 DEF PurgeCopy, Typed
  <2> QED BY <1>ty, <1>9, <2>1, <2>2, <2>3 DEF PurgeCopy, TInv, Typed, GoneStays
<1>10. ASSUME NEW h \in Host, EditHost(h) PROVE TInv'
  <2>1. PICK g \in HostTargets :
          /\ hostGroup' = [hostGroup EXCEPT ![h] = g]
          /\ inbox' = IF {hostGroup[h], IF g = Gone THEN NoGroup ELSE g} = {NoGroup}
                      THEN inbox
                      ELSE Append(inbox, [host |-> h, src |-> hostGroup[h],
                                          dst |-> IF g = Gone THEN NoGroup ELSE g])
          /\ row' = IF g = Gone THEN [row EXCEPT ![h] = NoRow] ELSE row
      BY <1>10 DEF EditHost
  <2>2. g \in Group \cup {NoGroup, Gone} /\ hostGroup[h] \in Group \cup {NoGroup}
      BY <1>ty, <1>10, ProxyGroupAssumption DEF EditHost, Typed
  <2>3. hostGroup' \in [Host -> Group \cup {NoGroup, Gone}]
      BY <1>ty, <2>1, <2>2 DEF Typed
  <2>4. [host |-> h, src |-> hostGroup[h], dst |-> IF g = Gone THEN NoGroup ELSE g]
          \in Relocation
      BY <2>2 DEF Relocation
  <2>5. inbox' \in Seq(Relocation)
      BY <1>ty, <2>1, <2>4 DEF Typed
  <2>6. row' \in [Host -> Row]
      BY <1>ty, <2>1 DEF Typed, Row
  <2>7. events' \in 0..MaxEvents
      BY <1>ty, <1>10, ProxyGroupAssumption DEF EditHost, Happens, Typed
  <2> QED BY <1>ty, <1>10, <2>3, <2>5, <2>6, <2>7 DEF EditHost, TInv, Typed, GoneStays
<1>11. ASSUME NEW p \in Proxy, EditProxy(p) PROVE TInv'
  <2>1. PICK g \in Group \cup {Standalone, Gone} :
          /\ <<proxyGroup[p], g>> \in Moves
          /\ proxyGroup' = [proxyGroup EXCEPT ![p] = g]
          /\ row' = IF g = Gone
                    THEN [h \in Host |-> IF row[h].proxy = p THEN NoRow ELSE row[h]]
                    ELSE row
      BY <1>11 DEF EditProxy
  <2>2. proxyGroup[p] # Gone
      BY <2>1, ProxyGroupAssumption, DistinctConstants
  <2>3. proxyGroup' \in [Proxy -> AllGroups \cup {Gone}]
      BY <1>ty, <2>1 DEF Typed, AllGroups
  <2>4. row' \in [Host -> Row]
      BY <1>ty, <2>1 DEF Typed, Row
  <2>5. events' \in 0..MaxEvents
      BY <1>ty, <1>11, ProxyGroupAssumption DEF EditProxy, Happens, Typed
  <2>6. \A q \in Proxy : c.group[q] = Gone => proxyGroup'[q] = Gone
      BY <1>ty, <2>1, <2>2 DEF GoneStays, Typed
  <2> QED BY <1>ty, <1>11, <2>3, <2>4, <2>5, <2>6 DEF EditProxy, TInv, Typed, GoneStays
<1>12. ASSUME NEW p \in Watch, DayPasses(p) PROVE TInv'
  <2>1. c' \in Cache /\ c'.group = c.group
      BY <1>ty, <1>12, DayPassesCache DEF SameDecisions
  <2>2. session' \in [Watch -> BOOLEAN]
      BY <1>ty, <1>12 DEF DayPasses, Typed
  <2>3. events' \in 0..MaxEvents
      BY <1>ty, <1>12, ProxyGroupAssumption DEF DayPasses, Happens, Typed
  <2> QED BY <1>ty, <1>12, <2>1, <2>2, <2>3 DEF DayPasses, TInv, Typed, GoneStays
<1>13. ASSUME NEW p \in Watch, RestartProxy(p) PROVE TInv'
  <2>1. events' \in 0..MaxEvents
      BY <1>ty, <1>13, ProxyGroupAssumption DEF RestartProxy, Happens, Typed
  <2> QED BY <1>ty, <1>13, <2>1 DEF RestartProxy, TInv, Typed, GoneStays
<1>14. CASE RestartServer
  <2>1. PICK clock : c' = LoadedAt(clock)
      BY <1>14 DEF RestartServer
  <2>2. c' \in Cache /\ c'.group = proxyGroup
      BY <1>ty, <2>1, LoadedAtTyped DEF Typed
  <2>3. events' \in 0..MaxEvents
      BY <1>ty, <1>14, ProxyGroupAssumption DEF RestartServer, Happens, Typed
  <2>4. txn' \in Transaction
      BY <1>14, ProxyGroupAssumption DEF RestartServer, Transaction, Nothing
  <2>5. inbox' \in Seq(Relocation) /\ loop' \in {"top", "flush"}
        /\ reply' \in [Watch -> {Nothing} \cup Reply] /\ session' \in [Watch -> BOOLEAN]
      BY <1>14 DEF RestartServer
  <2> QED BY <1>ty, <1>14, <2>2, <2>3, <2>4, <2>5
          DEF RestartServer, TInv, Typed, GoneStays
<1>15. CASE UNCHANGED vars
    BY <1>ty, <1>15 DEF vars, TInv, Typed, GoneStays
<1>16. BoundReached => UNCHANGED vars
    BY DEF BoundReached
<1> QED BY <1>1, <1>2, <1>3, <1>4, <1>5, <1>6, <1>7, <1>8, <1>9, <1>10, <1>11, <1>12,
           <1>13, <1>14, <1>15, <1>16
        DEF Next, Manager, Service, ProxySide, Environment

\* Type correctness: every step leaves values of their types, among them the
\* revisions, which the updates of the cache never pass their bound.
THEOREM TypeCorrect == Spec => []TypeOK
<1>1. TInv => TypeOK
  <2> SUFFICES ASSUME TInv PROVE TypeOK
      OBVIOUS
  <2>1. Typed /\ c \in Cache
      BY DEF TInv, Typed
  <2>2. DOMAIN c = DOMAIN EmptyCache
      BY <2>1 DEF Cache, EmptyCache
  <2>3. Row \subseteq [proxy : Proxy \cup {NoProxy}, rev : 0..MaxRevision]
      BY ProxyGroupAssumption DEF Row, NoRow
  <2>4. row \in [Host -> [proxy : Proxy \cup {NoProxy}, rev : 0..MaxRevision]]
      BY <2>1, <2>3 DEF Typed
  <2>5. c.hostmap \in [Host -> [proxy : Proxy \cup {NoProxy}, rev : 0..MaxRevision]]
      BY <2>1, <2>3 DEF Cache
  <2> QED BY <2>1, <2>2, <2>4, <2>5
          DEF TypeOK, Typed, Relocation, Cache, State, GroupState
<1> QED BY TypedInit, TypedNext, <1>1, PTL DEF Spec

-----------------------------------------------------------------------------
(* The start of the server, and the updates of the cache. *)

\* An update removes assignments and makes none, and removes only those of
\* hosts that are in a list.
LEMMA UpdatedUpdates ==
  ASSUME NEW k \in Cache, proxyGroup \in [Proxy -> AllGroups \cup {Gone}],
         NEW clock, NEW u, u = Updated(k, clock)
  PROVE  /\ \A h \in Host : u.updates[h] \in {k.updates[h], NoProxy}
         /\ (\A p \in Proxy : k.refs[p] = {}) => \A h \in Host : u.updates[h] = k.updates[h]
<1> DEFINE Aged(S) == {p \in Proxy : clock.age[p] \in S}
           dead == Aged({"dead"})
<1>1. PICK v : v = UpdateProxies(k)
    OBVIOUS
<1>2. PICK w : w = UpdateProxyState(v, dead, clock.alive \ dead, clock.starting)
    OBVIOUS
<1>3. PICK late, timeout : u = UpdateGroupState(w, late, timeout)
    BY <1>1, <1>2 DEF Updated
<1> HIDE DEF Aged, dead
<1>4. /\ v \in Cache
      /\ v.refs = [p \in Proxy |-> IF p \in Left(k) THEN {} ELSE k.refs[p]]
      /\ v.updates = [h \in Host |->
            IF h \in HostsOf(k, Left(k) \ DeletedProxies(Left(k)))
            THEN NoProxy ELSE k.updates[h]]
    BY <1>1, UpdateProxiesFields
<1>5. w \in Cache /\ w.refs = v.refs /\ w.updates = v.updates
    BY <1>2, <1>4, UpdateProxyStateFields
<1>6. GroupStateUpdated(w, u)
    BY <1>3, <1>5, UpdateGroupStateFields
<1>7. u.updates = [h \in Host |->
        IF h \in HostsOf(w, Offline(w, u.gstate)) THEN NoProxy ELSE w.updates[h]]
    BY <1>6 DEF GroupStateUpdated
<1>8. \A h \in Host : u.updates[h] \in {k.updates[h], NoProxy}
    BY <1>4, <1>5, <1>7
<1>9. ASSUME \A p \in Proxy : k.refs[p] = {}
      PROVE  \A h \in Host : u.updates[h] = k.updates[h]
  <2>1. \A h \in Host : h \notin HostsOf(k, Left(k) \ DeletedProxies(Left(k)))
      BY <1>9 DEF HostsOf, Left
  <2>2. \A p \in Proxy : w.refs[p] = {}
      BY <1>4, <1>5, <1>9
  <2>3. \A h \in Host : h \notin HostsOf(w, Offline(w, u.gstate))
      BY <2>2 DEF HostsOf, Offline
  <2> QED BY <1>4, <1>5, <1>7, <2>1, <2>3
<1> QED BY <1>8, <1>9

LEMMA EmptyCacheOK ==
  ASSUME ids \in 0..MaxRevision
  PROVE  /\ CacheOK(EmptyCache)
         /\ \A p \in Proxy : EmptyCache.refs[p] = {}
         /\ \A h \in Host : EmptyCache.updates[h] = Keep
         /\ \A g \in Group : EmptyCache.gstate[g] = "unknown"
         /\ EmptyCache.queued = AllGroups
<1> PICK k : k = EmptyCache
    OBVIOUS
<1>1. /\ \A p \in Proxy : k.refs[p] = {}
      /\ \A h \in Host : k.updates[h] = Keep /\ k.hostmap[h] = NoRow
      /\ \A g \in Group : k.gstate[g] = "unknown"
      /\ \A g \in AllGroups : k.members[g] = {} /\ k.unassigned[g] = {}
      /\ k.queued = AllGroups
    BY DEF EmptyCache
<1>2. ListTrue(k) /\ PoolTrue(k) /\ MapListed(k) /\ OfflineEmpty(k)
    BY <1>1 DEF ListTrue, PoolTrue, MapListed, OfflineEmpty
<1>3. MembersServed(k) /\ WorkQueued(k)
    BY <1>1 DEF MembersServed, WorkQueued, AllGroups
<1> QED BY <1>1, <1>2, <1>3 DEF CacheOK

\* pgm_init, the first pgm_update and pgm_db_get_hosts: the hosts of a row
\* that fits are in the list of its proxy, the others wait for a proxy.
LEMMA LoadedOK ==
  ASSUME Typed, RowsExist, NEW clock, NEW u, u = LoadedAt(clock)
  PROVE  /\ u \in Cache /\ CacheOK(u) /\ u.group = proxyGroup
         /\ \A g \in AllGroups : u.members[g] = {h \in Host : hostGroup[h] = g}
         /\ \A h \in Host : u.updates[h] \notin Proxy
<1>1. PICK k : k = Updated(EmptyCache, clock)
    OBVIOUS
<1>2. /\ row \in [Host -> Row] /\ ids \in 0..MaxRevision
      /\ proxyGroup \in [Proxy -> AllGroups \cup {Gone}]
      /\ hostGroup \in [Host -> Group \cup {NoGroup, Gone}]
    BY DEF Typed
<1>3. EmptyCache \in Cache
    BY <1>2, EmptyCacheTyped
<1>4. /\ k \in Cache /\ CacheOK(k) /\ k.group = proxyGroup
      /\ AllGroups \subseteq k.queued
      /\ \A g \in Group : k.gstate[g] = "online" =>
           \A p \in ProxiesOf(k, g) : k.pstate[p] = "online"
      /\ \A h \in Host : k.updates[h] = Keep
  <2>1. k \in Cache /\ CacheOK(k) /\ k.group = proxyGroup /\ EmptyCache.queued \subseteq k.queued
        /\ \A g \in Group : k.gstate[g] = "online" /\ EmptyCache.gstate[g] = "unknown" =>
             \A p \in ProxiesOf(k, g) : k.pstate[p] = "online"
      BY <1>1, <1>2, <1>3, EmptyCacheOK, UpdatedOK
  <2>2. \A h \in Host : k.updates[h] = EmptyCache.updates[h]
      BY <1>1, <1>2, <1>3, EmptyCacheOK, UpdatedUpdates
  <2> QED BY <1>2, <2>1, <2>2, EmptyCacheOK
<1>5. HostsLoaded(k, u)
    BY <1>1, <1>2, <1>4, GetHostsFields DEF LoadedAt
<1>6. \A h \in Loaded(k) :
        /\ h \in Host /\ row[h].proxy \in Proxy /\ row[h] # NoRow
        /\ k.group[row[h].proxy] = hostGroup[h] /\ hostGroup[h] \in Group
  <2> SUFFICES ASSUME NEW h \in Loaded(k)
               PROVE  /\ h \in Host /\ row[h].proxy \in Proxy /\ row[h] # NoRow
                      /\ k.group[row[h].proxy] = hostGroup[h] /\ hostGroup[h] \in Group
      OBVIOUS
  <2>1. h \in Host /\ row[h] # NoRow /\ k.group[row[h].proxy] = hostGroup[h]
      BY DEF Loaded
  <2>2. row[h].proxy \in Proxy
      BY <1>2, <2>1, RowFacts
  <2>3. hostGroup[h] # Gone
      BY <2>1 DEF RowsExist
  <2>4. k.group[row[h].proxy] \in Group \cup {Standalone, Gone}
      BY <1>4, <2>2 DEF Cache, AllGroups
  <2> QED BY <1>2, <2>1, <2>2, <2>3, <2>4, DistinctConstants
<1>7. /\ u \in Cache
      /\ u.group = k.group /\ u.pstate = k.pstate /\ u.gstate = k.gstate
      /\ u.queued = k.queued
      /\ \A g \in AllGroups : u.members[g] = InGroup(g)
                              /\ u.unassigned[g] = InGroup(g) \ Loaded(k)
      /\ \A h \in Host : u.hostmap[h] = IF h \in Loaded(k) THEN row[h] ELSE NoRow
      /\ \A p \in Proxy : u.refs[p] = {h \in Loaded(k) : row[h].proxy = p}
      /\ \A h \in Host : u.updates[h] = IF row[h] # NoRow /\ h \notin Loaded(k)
                                        THEN NoProxy ELSE k.updates[h]
    BY <1>5 DEF HostsLoaded
<1>8. ListTrue(u)
  <2> SUFFICES ASSUME NEW p \in Proxy, NEW h \in u.refs[p]
               PROVE  u.hostmap[h].proxy = p /\ u.group[p] \in Group
                      /\ h \in u.members[u.group[p]]
      BY DEF ListTrue
  <2>1. h \in Loaded(k) /\ row[h].proxy = p
      BY <1>7
  <2>2. h \in Host /\ k.group[p] = hostGroup[h] /\ hostGroup[h] \in Group
      BY <1>6, <2>1
  <2>3. h \in InGroup(hostGroup[h])
      BY <2>2 DEF InGroup
  <2> QED BY <1>7, <2>1, <2>2, <2>3 DEF AllGroups
<1>9. PoolTrue(u)
  <2>1. ASSUME NEW g \in AllGroups, NEW h \in u.unassigned[g]
        PROVE  h \in u.members[g] /\ \A p \in Proxy : h \notin u.refs[p]
      BY <1>7
  <2>2. \A h \in Host : u.updates[h] = NoProxy => \A p \in Proxy : h \notin u.refs[p]
      BY <1>4, <1>7, DistinctConstants DEF Keep
  <2> QED BY <2>1, <2>2 DEF PoolTrue
<1>10. MapListed(u)
    BY <1>6, <1>7 DEF MapListed
<1>11. MembersServed(u)
  <2> SUFFICES ASSUME NEW g \in Group, NEW h \in u.members[g]
               PROVE  h \in u.unassigned[g]
                      \/ \E p \in Proxy : u.group[p] = g /\ h \in u.refs[p]
      BY DEF MembersServed
  <2>1. h \in Host /\ hostGroup[h] = g
      BY <1>7 DEF InGroup, AllGroups
  <2>2. CASE h \in Loaded(k)
      BY <1>6, <1>7, <2>1, <2>2
  <2>3. CASE h \notin Loaded(k)
      BY <1>7, <2>3 DEF AllGroups
  <2> QED BY <2>2, <2>3
<1>12. OfflineEmpty(u)
    BY <1>4, <1>7 DEF OfflineEmpty, ProxiesOf
<1>13. WorkQueued(u)
    BY <1>4, <1>7 DEF WorkQueued, AllGroups
<1>14. \A h \in Host : u.updates[h] \notin Proxy
    BY <1>4, <1>7, DistinctConstants DEF Keep
<1> QED BY <1>4, <1>7, <1>8, <1>9, <1>10, <1>11, <1>12, <1>13, <1>14
        DEF CacheOK, InGroup

\* After a start nothing is on its way.
LEMMA LoadedInv ==
  ASSUME Typed, RowsExist, NEW clock, c = LoadedAt(clock), inbox = <<>>, loop = "top"
  PROVE  CacheOK(c) /\ OneEdit /\ OnlineServed
<1>1. /\ CacheOK(c) /\ c.group = proxyGroup
      /\ \A g \in AllGroups : c.members[g] = {h \in Host : hostGroup[h] = g}
      /\ \A h \in Host : c.updates[h] \notin Proxy
    BY LoadedOK
<1>2. OneEdit
    BY <1>1 DEF OneEdit, KnownGroup
<1>3. OnlineServed
    BY DEF OnlineServed
<1> QED BY <1>1, <1>2, <1>3

LEMMA SameDecisionsOK ==
  ASSUME NEW k, NEW u, SameDecisions(k, u), CacheOK(k)
  PROVE  CacheOK(u)
BY DEF SameDecisions, CacheOK, ListTrue, PoolTrue, MapListed, MembersServed,
       OfflineEmpty, WorkQueued

\* A host that leaves its group is in no list and waits for no proxy.
LEMMA RemovedOK ==
  ASSUME NEW k \in Cache, CacheOK(k), NEW m \in Relocation,
         \A g \in AllGroups : m.host \in k.members[g] <=> g = m.src,
         k.hostmap[m.host] # NoRow => m.src \in Group,
         NEW u, u = Removed(k, m)
  PROVE  /\ u \in Cache /\ CacheOK(u)
         /\ u.group = k.group /\ u.hostmap = k.hostmap
         /\ u.pstate = k.pstate /\ u.gstate = k.gstate /\ k.queued \subseteq u.queued
         /\ \A p \in Proxy : m.host \notin u.refs[p]
         /\ \A g \in AllGroups : /\ m.host \notin u.members[g]
                                 /\ m.host \notin u.unassigned[g]
         /\ k.hostmap[m.host] # NoRow => u.updates[m.host] = NoProxy
         /\ k.hostmap[m.host] = NoRow => u.updates[m.host] = k.updates[m.host]
         /\ \A h \in Host \ {m.host} :
              /\ u.updates[h] = k.updates[h]
              /\ \A p \in Proxy : h \in u.refs[p] <=> h \in k.refs[p]
              /\ \A g \in AllGroups : /\ h \in u.members[g] <=> h \in k.members[g]
                                      /\ h \in u.unassigned[g] <=> h \in k.unassigned[g]
<1> PICK i : i = m.host
    OBVIOUS
<1>ty. /\ k.members \in [AllGroups -> SUBSET Host]
       /\ k.unassigned \in [AllGroups -> SUBSET Host]
       /\ k.refs \in [Proxy -> SUBSET Host]
       /\ Group \subseteq AllGroups
    BY DEF Cache, AllGroups
<1>0. i \in Host /\ ListTrue(k) /\ PoolTrue(k) /\ MapListed(k) /\ MembersServed(k)
      /\ OfflineEmpty(k) /\ WorkQueued(k)
    BY DEF Relocation, CacheOK
<1>1. CASE m.src \in Group
  <2>1. HostRemoved(k, m.src, i, u)
    <3>1. u = GroupRemoveHost(k, m.src, i)
        BY <1>1 DEF Removed
    <3> QED BY <1>0, <1>1, <3>1, GroupRemoveHostFields
  <2>2. /\ u \in Cache /\ u.group = k.group /\ u.hostmap = k.hostmap
        /\ u.pstate = k.pstate /\ u.gstate = k.gstate
        /\ u.queued = k.queued \cup {m.src}
      BY <2>1 DEF HostRemoved
  <2>3. \A g \in AllGroups : u.members[g] = IF g = m.src THEN k.members[g] \ {i}
                                            ELSE k.members[g]
    <3>1. u.members = [k.members EXCEPT ![m.src] = @ \ {i}]
        BY <2>1 DEF HostRemoved
    <3> QED BY <1>ty, <1>1, <3>1
  <2>4. \A g \in AllGroups : u.unassigned[g] = IF g = m.src THEN k.unassigned[g] \ {i}
                                               ELSE k.unassigned[g]
    <3>1. u.unassigned = [k.unassigned EXCEPT ![m.src] = @ \ {i}]
        BY <2>1 DEF HostRemoved
    <3> QED BY <1>ty, <1>1, <3>1
  <2>5. \A p \in Proxy : u.refs[p] = IF p = k.hostmap[i].proxy THEN k.refs[p] \ {i}
                                     ELSE k.refs[p]
      BY <2>1 DEF HostRemoved
  <2>6. \A h \in Host : u.updates[h] = IF h = i /\ k.hostmap[i] # NoRow THEN NoProxy
                                       ELSE k.updates[h]
      BY <2>1 DEF HostRemoved
  <2>7. \A p \in Proxy : i \notin u.refs[p]
    <3> SUFFICES ASSUME NEW p \in Proxy, i \in u.refs[p] PROVE FALSE
        OBVIOUS
    <3>1. i \in k.refs[p] /\ p # k.hostmap[i].proxy
        BY <2>5
    <3>2. k.hostmap[i].proxy = p
        BY <1>0, <3>1 DEF ListTrue
    <3> QED BY <3>1, <3>2
  <2>8. \A g \in AllGroups : i \notin u.members[g] /\ i \notin u.unassigned[g]
    <3> SUFFICES ASSUME NEW g \in AllGroups
                 PROVE  i \notin u.members[g] /\ i \notin u.unassigned[g]
        OBVIOUS
    <3>1. CASE g = m.src
        BY <2>3, <2>4, <3>1
    <3>2. CASE g # m.src
      <4>1. i \notin k.members[g]
          BY <3>2
      <4>2. i \notin k.unassigned[g]
          BY <1>0, <4>1 DEF PoolTrue
      <4> QED BY <2>3, <2>4, <3>2, <4>1, <4>2
    <3> QED BY <3>1, <3>2
  <2>9. ListTrue(u)
    <3> SUFFICES ASSUME NEW p \in Proxy, NEW h \in u.refs[p]
                 PROVE  u.hostmap[h].proxy = p /\ u.group[p] \in Group
                        /\ h \in u.members[u.group[p]]
        BY DEF ListTrue
    <3>1. h \in k.refs[p] /\ h # i
        BY <2>5, <2>7
    <3>2. k.hostmap[h].proxy = p /\ k.group[p] \in Group /\ h \in k.members[k.group[p]]
        BY <1>0, <3>1 DEF ListTrue
    <3>3. k.group[p] \in AllGroups
        BY <1>ty, <3>2
    <3>4. h \in u.members[k.group[p]]
        BY <2>3, <3>1, <3>2, <3>3
    <3> QED BY <2>2, <3>2, <3>4
  <2>10. PoolTrue(u)
    <3>1. ASSUME NEW g \in AllGroups, NEW h \in u.unassigned[g]
          PROVE  h \in u.members[g] /\ \A p \in Proxy : h \notin u.refs[p]
      <4>1. h \in k.unassigned[g] /\ h # i
          BY <2>4, <2>8
      <4>2. h \in k.members[g] /\ \A p \in Proxy : h \notin k.refs[p]
          BY <1>0, <4>1 DEF PoolTrue
      <4> QED BY <2>3, <2>5, <4>1, <4>2
    <3>2. ASSUME NEW h \in Host, u.updates[h] = NoProxy, NEW p \in Proxy
          PROVE  h \notin u.refs[p]
      <4>1. CASE h = i
          BY <2>7, <4>1
      <4>2. CASE h # i
        <5>1. k.updates[h] = NoProxy
            BY <2>6, <3>2, <4>2
        <5>2. h \notin k.refs[p]
            BY <1>0, <5>1 DEF PoolTrue
        <5> QED BY <2>5, <5>2
      <4> QED BY <4>1, <4>2
    <3> QED BY <3>1, <3>2 DEF PoolTrue
  <2>11. MapListed(u)
    <3> SUFFICES ASSUME NEW h \in Host, u.hostmap[h] # NoRow, u.updates[h] = Keep
                 PROVE  h \in u.refs[u.hostmap[h].proxy]
        BY DEF MapListed
    <3>1. h # i
        BY <2>2, <2>6, DistinctConstants DEF Keep
    <3>2. h \in k.refs[k.hostmap[h].proxy] /\ k.hostmap[h].proxy \in Proxy
        BY <1>0, <2>2, <2>6, <3>1, RowFacts DEF MapListed, Cache
    <3> QED BY <2>2, <2>5, <3>1, <3>2
  <2>12. MembersServed(u)
    <3> SUFFICES ASSUME NEW g \in Group, NEW h \in u.members[g]
                 PROVE  h \in u.unassigned[g]
                        \/ \E p \in Proxy : u.group[p] = g /\ h \in u.refs[p]
        BY DEF MembersServed
    <3>0. g \in AllGroups
        BY <1>ty
    <3>1. h \in k.members[g] /\ h # i /\ g \in AllGroups
      <4>1. h # i
          BY <2>8, <3>0
      <4> QED BY <2>3, <3>0, <4>1
    <3>2. h \in k.unassigned[g] \/ \E p \in Proxy : k.group[p] = g /\ h \in k.refs[p]
        BY <1>0, <3>1 DEF MembersServed
    <3>3. CASE h \in k.unassigned[g]
        BY <2>4, <3>1, <3>3
    <3>4. CASE \E p \in Proxy : k.group[p] = g /\ h \in k.refs[p]
      <4>1. PICK p \in Proxy : k.group[p] = g /\ h \in k.refs[p]
          BY <3>4
      <4>2. h \in u.refs[p]
          BY <2>5, <3>1, <4>1
      <4>3. u.group[p] = g
          BY <2>2, <4>1
      <4> QED BY <4>2, <4>3
    <3> QED BY <3>2, <3>3, <3>4
  <2>13. OfflineEmpty(u)
    <3> SUFFICES ASSUME NEW p \in Proxy, k.group[p] \in Group,
                        k.gstate[k.group[p]] = "online", k.pstate[p] # "online"
                 PROVE  u.refs[p] = {}
        BY <2>2 DEF OfflineEmpty
    <3>1. k.refs[p] = {}
        BY <1>0 DEF OfflineEmpty
    <3> QED BY <2>5, <3>1
  <2>14. WorkQueued(u)
      BY <1>0, <2>2, <2>4 DEF WorkQueued, AllGroups
  <2>15. CacheOK(u)
      BY <2>9, <2>10, <2>11, <2>12, <2>13, <2>14 DEF CacheOK
  <2>16. \A h \in Host \ {i} : /\ u.updates[h] = k.updates[h]
                               /\ \A p \in Proxy : h \in u.refs[p] <=> h \in k.refs[p]
      BY <2>5, <2>6
  <2>17. \A h \in Host \ {i} : \A g \in AllGroups :
           /\ h \in u.members[g] <=> h \in k.members[g]
           /\ h \in u.unassigned[g] <=> h \in k.unassigned[g]
    <3> SUFFICES ASSUME NEW h \in Host \ {i}, NEW g \in AllGroups
                 PROVE  /\ h \in u.members[g] <=> h \in k.members[g]
                        /\ h \in u.unassigned[g] <=> h \in k.unassigned[g]
        OBVIOUS
    <3>1. h \in u.members[g] <=> h \in k.members[g]
        BY <2>3
    <3> QED BY <2>4, <3>1
  <2>18. /\ k.hostmap[i] # NoRow => u.updates[i] = NoProxy
         /\ k.hostmap[i] = NoRow => u.updates[i] = k.updates[i]
      BY <1>0, <2>6
  <2> QED BY <2>2, <2>7, <2>8, <2>15, <2>16, <2>17, <2>18
<1>2. CASE m.src \notin Group
  <2>1. u = k
      BY <1>2 DEF Removed
  <2>2. \A p \in Proxy : i \notin k.refs[p]
      BY <1>0, <1>2 DEF ListTrue, AllGroups
  <2>3. \A g \in AllGroups : i \notin k.members[g]
    <3>1. m.src \notin AllGroups
        BY <1>2, DistinctConstants DEF Relocation, AllGroups
    <3> QED BY <3>1
  <2>4. \A g \in AllGroups : i \notin k.unassigned[g]
      BY <1>0, <2>3 DEF PoolTrue
  <2> QED BY <1>2, <2>1, <2>2, <2>3, <2>4
<1> QED BY <1>1, <1>2

HostJoined(k, g, i, u) ==
  /\ u \in Cache /\ CacheOK(u)
  /\ u.group = k.group /\ u.hostmap = k.hostmap /\ u.refs = k.refs
  /\ u.updates = k.updates
  /\ u.pstate = k.pstate /\ u.gstate = k.gstate /\ k.queued \subseteq u.queued
  /\ \A j \in AllGroups :
       /\ u.members[j] = IF j = g THEN k.members[j] \cup {i} ELSE k.members[j]
       /\ k.unassigned[j] \subseteq u.unassigned[j]

\* A host that joins a group waits for a proxy of it.
LEMMA AddedOK ==
  ASSUME NEW k \in Cache, CacheOK(k), NEW g \in Group, NEW i \in Host,
         \A p \in Proxy : i \notin k.refs[p],
         \A j \in AllGroups : i \notin k.members[j],
         NEW u, u = GroupAddHost(k, g, i)
  PROVE  HostJoined(k, g, i, u)
<1>0. ListTrue(k) /\ PoolTrue(k) /\ MapListed(k) /\ MembersServed(k)
      /\ OfflineEmpty(k) /\ WorkQueued(k)
    BY DEF CacheOK
<1>ty. /\ k.members \in [AllGroups -> SUBSET Host]
       /\ k.unassigned \in [AllGroups -> SUBSET Host]
       /\ k.refs \in [Proxy -> SUBSET Host]
       /\ Group \subseteq AllGroups
    BY DEF Cache, AllGroups
<1>1. HostAdded(k, g, i, u)
    BY GroupAddHostFields
<1>2. /\ u \in Cache /\ u.group = k.group /\ u.hostmap = k.hostmap /\ u.refs = k.refs
      /\ u.updates = k.updates /\ u.pstate = k.pstate /\ u.gstate = k.gstate
      /\ u.queued = k.queued \cup {g}
    BY <1>1 DEF HostAdded
<1>3. \A j \in AllGroups : u.members[j] = IF j = g THEN k.members[j] \cup {i}
                                          ELSE k.members[j]
  <2>1. u.members = [k.members EXCEPT ![g] = @ \cup {i}]
      BY <1>1 DEF HostAdded
  <2> QED BY <1>ty, <2>1
<1>4. \A j \in AllGroups : u.unassigned[j] = IF j = g THEN k.unassigned[j] \cup {i}
                                             ELSE k.unassigned[j]
  <2>1. u.unassigned = [k.unassigned EXCEPT ![g] =
                          IF i \in k.members[g] THEN @ ELSE @ \cup {i}]
      BY <1>1 DEF HostAdded
  <2> QED BY <1>ty, <2>1
<1>5. ListTrue(u)
  <2> SUFFICES ASSUME NEW p \in Proxy, NEW h \in u.refs[p]
               PROVE  u.hostmap[h].proxy = p /\ u.group[p] \in Group
                      /\ h \in u.members[u.group[p]]
      BY DEF ListTrue
  <2>1. k.hostmap[h].proxy = p /\ k.group[p] \in Group /\ h \in k.members[k.group[p]]
      BY <1>0, <1>2 DEF ListTrue
  <2>2. u.hostmap[h].proxy = p /\ u.group[p] = k.group[p]
      BY <1>2, <2>1
  <2>3. k.group[p] \in AllGroups /\ h \in u.members[k.group[p]]
      BY <1>ty, <1>3, <2>1
  <2> QED BY <2>1, <2>2, <2>3
<1>6. PoolTrue(u)
  <2>1. ASSUME NEW j \in AllGroups, NEW h \in u.unassigned[j]
        PROVE  h \in u.members[j] /\ \A p \in Proxy : h \notin u.refs[p]
    <3>1. CASE h \in k.unassigned[j]
        BY <1>0, <1>2, <1>3, <3>1 DEF PoolTrue
    <3>2. CASE h \notin k.unassigned[j]
      <4>1. j = g /\ h = i
          BY <1>4, <3>2
      <4>2. h \in u.members[j]
          BY <1>3, <4>1
      <4> QED BY <1>2, <4>1, <4>2
    <3> QED BY <3>1, <3>2
  <2>2. \A h \in Host : u.updates[h] = NoProxy => \A p \in Proxy : h \notin u.refs[p]
      BY <1>0, <1>2 DEF PoolTrue
  <2> QED BY <2>1, <2>2 DEF PoolTrue
<1>7. MapListed(u) /\ OfflineEmpty(u)
    BY <1>0, <1>2 DEF MapListed, OfflineEmpty
<1>8. MembersServed(u)
  <2> SUFFICES ASSUME NEW j \in Group, NEW h \in u.members[j]
               PROVE  h \in u.unassigned[j]
                      \/ \E p \in Proxy : u.group[p] = j /\ h \in u.refs[p]
      BY DEF MembersServed
  <2>1. j \in AllGroups
      BY <1>ty
  <2>2. CASE h \in k.members[j]
    <3>1. h \in k.unassigned[j] \/ \E p \in Proxy : k.group[p] = j /\ h \in k.refs[p]
        BY <1>0, <2>2 DEF MembersServed
    <3>2. k.unassigned[j] \subseteq u.unassigned[j]
        BY <1>4, <2>1
    <3> QED BY <1>2, <3>1, <3>2
  <2>3. CASE h \notin k.members[j]
      BY <1>3, <1>4, <2>1, <2>3
  <2> QED BY <2>2, <2>3
<1>9. WorkQueued(u)
    BY <1>0, <1>2, <1>4 DEF WorkQueued, AllGroups
<1> QED BY <1>2, <1>3, <1>4, <1>5, <1>6, <1>7, <1>8, <1>9 DEF CacheOK, HostJoined

\* A host that is saved in its group is written again with the proxy it has.
LEMMA SavedOK ==
  ASSUME NEW k \in Cache, CacheOK(k), NEW i \in Host, k.hostmap[i] # NoRow,
         NEW u, u = Saved(k, i)
  PROVE  /\ u \in Cache /\ CacheOK(u)
         /\ u.group = k.group /\ u.hostmap = k.hostmap /\ u.refs = k.refs
         /\ u.members = k.members /\ u.unassigned = k.unassigned
         /\ u.pstate = k.pstate /\ u.gstate = k.gstate /\ k.queued \subseteq u.queued
         /\ \A h \in Host : u.updates[h] = IF h = i THEN k.hostmap[i].proxy ELSE k.updates[h]
<1>0. ListTrue(k) /\ PoolTrue(k) /\ MapListed(k) /\ MembersServed(k)
      /\ OfflineEmpty(k) /\ WorkQueued(k)
    BY DEF CacheOK
<1>1. HostSaved(k, i, u)
    BY SavedFields
<1>2. /\ u \in Cache /\ u.group = k.group /\ u.hostmap = k.hostmap /\ u.refs = k.refs
      /\ u.members = k.members /\ u.unassigned = k.unassigned
      /\ u.pstate = k.pstate /\ u.gstate = k.gstate /\ k.queued \subseteq u.queued
      /\ \A h \in Host : u.updates[h] = IF h = i THEN k.hostmap[i].proxy ELSE k.updates[h]
    BY <1>1 DEF HostSaved
<1>3. k.hostmap[i].proxy \in Proxy
    BY RowFacts DEF Cache
<1>4. PoolTrue(u)
    BY <1>0, <1>2, <1>3, DistinctConstants DEF PoolTrue
<1>5. MapListed(u)
    BY <1>0, <1>2, <1>3, DistinctConstants DEF MapListed, Keep
<1>6. ListTrue(u) /\ MembersServed(u) /\ OfflineEmpty(u)
    BY <1>0, <1>2 DEF ListTrue, MembersServed, OfflineEmpty
<1>7. WorkQueued(u)
    BY <1>0, <1>2 DEF WorkQueued
<1> QED BY <1>2, <1>4, <1>5, <1>6, <1>7 DEF CacheOK

-----------------------------------------------------------------------------
(* The invariant under edits one at a time. *)

(* A cache of the hosts as they are configured, which assigns only hosts that *)
(* are in the list of the proxy or will be.                                   *)
RelocationDone(u) ==
  /\ u \in Cache /\ CacheOK(u) /\ u.group = c.group
  /\ u.pstate = c.pstate /\ u.gstate = c.gstate
  /\ \A g \in AllGroups : u.members[g] = {h \in Host : hostGroup[h] = g}
  /\ \A h \in Host : \A p \in Proxy : u.updates[h] = p =>
       /\ u.hostmap[h].proxy = p /\ u.group[p] \in Group
       /\ h \in u.members[u.group[p]]
       /\ \/ h \in u.refs[p]
          \/ /\ h \in u.unassigned[u.group[p]] /\ loop = "flush"
             /\ u.gstate[u.group[p]] = "online" /\ u.group[p] \in u.queued
             /\ Targets(u, u.group[p]) # {}

\* pg_update_host_pgroup: the service handles the one relocation there is.
LEMMA RelocationOK ==
  ASSUME IInv, HandleRelocation
  PROVE  RelocationDone(c') /\ c.group = proxyGroup /\ Len(inbox) = 1
<1>1. PICK m : m = Head(inbox)
    OBVIOUS
<1>2. /\ c \in Cache /\ inbox \in Seq(Relocation) /\ inbox # <<>>
      /\ hostGroup \in [Host -> Group \cup {NoGroup, Gone}]
    BY DEF IInv, Typed, HandleRelocation
<1>3. /\ m \in Relocation
      /\ \/ m.src = m.dst /\ c.hostmap[m.host] = NoRow /\ c' = c
         \/ m.src = m.dst /\ c.hostmap[m.host] # NoRow /\ c' = Saved(c, m.host)
         \/ /\ m.src # m.dst /\ m.dst \in Group
            /\ c' = GroupAddHost(Removed(c, m), m.dst, m.host)
         \/ m.src # m.dst /\ m.dst \notin Group /\ c' = Removed(c, m)
    BY <1>1, <1>2, RelocationCases
<1>4. PICK i : i = m.host
    OBVIOUS
<1>5. /\ i \in Host /\ m.src \in Group \cup {NoGroup} /\ m.dst \in Group \cup {NoGroup}
      /\ m.host = i
    BY <1>3, <1>4 DEF Relocation
<1>6. /\ Len(inbox) = 1 /\ c.group = proxyGroup
      /\ m.dst = IF hostGroup[i] = Gone THEN NoGroup ELSE hostGroup[i]
      /\ \A g \in AllGroups : c.members[g] = {h \in Host : KnownGroup(h) = g}
      /\ \A h \in Host : \A p \in Proxy : c.updates[h] = p => Confirmable(h, p)
      /\ \A h \in Host : \A p \in Proxy : c.hostmap[h].proxy = p => Confirmable(h, p)
      /\ CacheOK(c)
    BY <1>1, <1>2, <1>4 DEF IInv, OneEdit
<1>7. \A h \in Host : KnownGroup(h) = IF h = i THEN m.src ELSE hostGroup[h]
    BY <1>1, <1>2, <1>4 DEF KnownGroup
<1>8. \A g \in AllGroups : \A h \in Host :
        h \in c.members[g] <=> g = IF h = i THEN m.src ELSE hostGroup[h]
    BY <1>6, <1>7
<1>9. Group \subseteq AllGroups /\ NoGroup \notin AllGroups /\ Gone \notin AllGroups
    BY DistinctConstants DEF AllGroups
<1>10. m.dst \in AllGroups \/ hostGroup[i] \in AllGroups => m.dst = hostGroup[i]
    BY <1>6, <1>9
<1>11. \A p \in Proxy : c.group[p] \in Group => c.group[p] \in AllGroups
    BY <1>9
<1>12. CASE m.src = m.dst /\ c.hostmap[i] = NoRow /\ c' = c
  <2>1. \A g \in AllGroups : c.members[g] = {h \in Host : hostGroup[h] = g}
    <3> SUFFICES ASSUME NEW g \in AllGroups
                 PROVE  c.members[g] = {h \in Host : hostGroup[h] = g}
        OBVIOUS
    <3>1. c.members[g] = {h \in Host : KnownGroup(h) = g}
        BY <1>6
    <3>2. \A h \in Host : KnownGroup(h) = g <=> hostGroup[h] = g
        BY <1>7, <1>10, <1>12
    <3> QED BY <3>1, <3>2
  <2>2. RelocationDone(c)
      BY <1>2, <1>6, <2>1 DEF Confirmable, FlushAssigns, RelocationDone
  <2> QED BY <1>6, <1>12, <2>2
<1>13. CASE m.src = m.dst /\ c.hostmap[i] # NoRow /\ c' = Saved(c, i)
  <2>1. PICK u : u = Saved(c, i)
      OBVIOUS
  <2>2. /\ u \in Cache /\ CacheOK(u)
        /\ u.group = c.group /\ u.hostmap = c.hostmap /\ u.refs = c.refs
        /\ u.members = c.members /\ u.unassigned = c.unassigned
        /\ u.pstate = c.pstate /\ u.gstate = c.gstate /\ c.queued \subseteq u.queued
        /\ \A h \in Host : u.updates[h] = IF h = i THEN c.hostmap[i].proxy ELSE c.updates[h]
      BY <1>2, <1>5, <1>6, <1>13, <2>1, SavedOK
  <2>3. \A g \in AllGroups : c.members[g] = {h \in Host : hostGroup[h] = g}
    <3> SUFFICES ASSUME NEW g \in AllGroups
                 PROVE  c.members[g] = {h \in Host : hostGroup[h] = g}
        OBVIOUS
    <3>1. c.members[g] = {h \in Host : KnownGroup(h) = g}
        BY <1>6
    <3>2. \A h \in Host : KnownGroup(h) = g <=> hostGroup[h] = g
        BY <1>7, <1>10, <1>13
    <3> QED BY <3>1, <3>2
  <2>4. \A h \in Host : \A p \in Proxy : u.updates[h] = p => Confirmable(h, p)
      BY <1>6, <1>13, <2>2
  <2>5. \A g : Targets(u, g) = Targets(c, g)
      BY <2>2 DEF Targets, ProxiesOf
  <2>6. RelocationDone(u)
    <3>1. ASSUME NEW h \in Host, NEW p \in Proxy, u.updates[h] = p
          PROVE  /\ u.hostmap[h].proxy = p /\ u.group[p] \in Group
                 /\ h \in u.members[u.group[p]]
                 /\ \/ h \in u.refs[p]
                    \/ /\ h \in u.unassigned[u.group[p]] /\ loop = "flush"
                       /\ u.gstate[u.group[p]] = "online" /\ u.group[p] \in u.queued
                       /\ Targets(u, u.group[p]) # {}
      <4>1. Confirmable(h, p)
          BY <2>4, <3>1
      <4> QED BY <2>2, <2>5, <4>1 DEF Confirmable, FlushAssigns
    <3> QED BY <2>2, <2>3, <3>1 DEF RelocationDone
  <2> QED BY <1>6, <1>13, <2>1, <2>6
<1>14. CASE m.src # m.dst
  <2>1. PICK k : k = Removed(c, m)
      OBVIOUS
  <2>2. \A g \in AllGroups : i \in c.members[g] <=> g = m.src
      BY <1>5, <1>8
  <2>3. ASSUME c.hostmap[i] # NoRow PROVE m.src \in Group
    <3>1. PICK p \in Proxy : p = c.hostmap[i].proxy
        BY <1>2, <1>5, <2>3, RowFacts DEF Cache
    <3>2. c.group[p] \in Group /\ i \in c.members[c.group[p]]
        BY <1>5, <1>6, <2>3, <3>1 DEF Confirmable
    <3> QED BY <1>9, <2>2, <3>2
  <2>4. /\ k \in Cache /\ CacheOK(k)
        /\ k.group = c.group /\ k.hostmap = c.hostmap
        /\ k.pstate = c.pstate /\ k.gstate = c.gstate /\ c.queued \subseteq k.queued
        /\ \A p \in Proxy : i \notin k.refs[p]
        /\ \A g \in AllGroups : i \notin k.members[g] /\ i \notin k.unassigned[g]
        /\ c.hostmap[i] # NoRow => k.updates[i] = NoProxy
        /\ c.hostmap[i] = NoRow => k.updates[i] = c.updates[i]
        /\ \A h \in Host \ {i} :
             /\ k.updates[h] = c.updates[h]
             /\ \A p \in Proxy : h \in k.refs[p] <=> h \in c.refs[p]
             /\ \A g \in AllGroups : /\ h \in k.members[g] <=> h \in c.members[g]
                                     /\ h \in k.unassigned[g] <=> h \in c.unassigned[g]
      BY <1>2, <1>3, <1>5, <1>6, <2>1, <2>2, <2>3, RemovedOK
  <2>5. k.updates[i] \notin Proxy
    <3>1. CASE c.hostmap[i] = NoRow
      <4> SUFFICES ASSUME NEW p \in Proxy, c.updates[i] = p PROVE FALSE
          BY <2>4, <3>1
      <4>1. c.hostmap[i].proxy = p
          BY <1>5, <1>6 DEF Confirmable
      <4> QED BY <3>1, <4>1, DistinctConstants DEF NoRow
    <3>2. CASE c.hostmap[i] # NoRow
        BY <2>4, <3>2, DistinctConstants
    <3> QED BY <3>1, <3>2
  <2>6. PICK u : u = IF m.dst \in Group THEN GroupAddHost(k, m.dst, i) ELSE k
      OBVIOUS
  <2>7. /\ u \in Cache /\ CacheOK(u)
        /\ u.group = k.group /\ u.hostmap = k.hostmap /\ u.refs = k.refs
        /\ u.updates = k.updates
        /\ u.pstate = k.pstate /\ u.gstate = k.gstate /\ k.queued \subseteq u.queued
        /\ \A j \in AllGroups :
             /\ u.members[j] = IF j = m.dst THEN k.members[j] \cup {i} ELSE k.members[j]
             /\ k.unassigned[j] \subseteq u.unassigned[j]
    <3>1. CASE m.dst \in Group
      <4>1. /\ \A p \in Proxy : i \notin k.refs[p]
            /\ \A j \in AllGroups : i \notin k.members[j]
          BY <2>4
      <4>2. u = GroupAddHost(k, m.dst, i) /\ k \in Cache /\ CacheOK(k)
          BY <2>4, <2>6, <3>1
      <4>3. HostJoined(k, m.dst, i, u)
          BY <1>5, <3>1, <4>1, <4>2, AddedOK
      <4> QED BY <4>3 DEF HostJoined
    <3>2. CASE m.dst \notin Group
      <4>1. m.dst \notin AllGroups
          BY <1>5, <1>9, <3>2
      <4> QED BY <2>4, <2>6, <3>2, <4>1
    <3> QED BY <3>1, <3>2
  <2>8. \A g \in AllGroups : u.members[g] = {h \in Host : hostGroup[h] = g}
    <3> SUFFICES ASSUME NEW g \in AllGroups
                 PROVE  u.members[g] = {h \in Host : hostGroup[h] = g}
        OBVIOUS
    <3>1. u.members[g] \subseteq Host
        BY <2>7 DEF Cache
    <3>2. \A h \in Host \ {i} : h \in u.members[g] <=> hostGroup[h] = g
      <4> SUFFICES ASSUME NEW h \in Host \ {i}
                   PROVE  h \in u.members[g] <=> hostGroup[h] = g
          OBVIOUS
      <4>1. h \in k.members[g] <=> h \in c.members[g]
          BY <2>4
      <4>2. h \in u.members[g] <=> h \in k.members[g]
          BY <2>7
      <4> QED BY <1>8, <4>1, <4>2
    <3>3. i \in u.members[g] <=> hostGroup[i] = g
      <4>1. i \notin k.members[g]
          BY <2>4
      <4>2. i \in u.members[g] <=> g = m.dst
          BY <2>7, <4>1
      <4> QED BY <1>6, <1>9, <1>10, <4>2
    <3> QED BY <3>1, <3>2, <3>3
  <2>9. \A g : Targets(u, g) = Targets(c, g)
      BY <2>4, <2>7 DEF Targets, ProxiesOf
  <2>10. ASSUME NEW h \in Host, NEW p \in Proxy, u.updates[h] = p
         PROVE  /\ u.hostmap[h].proxy = p /\ u.group[p] \in Group
                /\ h \in u.members[u.group[p]]
                /\ \/ h \in u.refs[p]
                   \/ /\ h \in u.unassigned[u.group[p]] /\ loop = "flush"
                      /\ u.gstate[u.group[p]] = "online" /\ u.group[p] \in u.queued
                      /\ Targets(u, u.group[p]) # {}
    <3>1. h # i
        BY <2>5, <2>7, <2>10
    <3>2. c.updates[h] = p
        BY <2>4, <2>7, <2>10, <3>1
    <3>3. Confirmable(h, p)
        BY <1>6, <3>2
    <3>4. c.hostmap[h].proxy = p /\ c.group[p] \in Group /\ h \in c.members[c.group[p]]
        BY <3>3 DEF Confirmable
    <3>5. PICK g \in AllGroups : g = c.group[p]
        BY <1>9, <3>4
    <3>6. h \in u.members[g]
      <4>1. h \in c.members[g]
          BY <3>4, <3>5
      <4>2. h \in k.members[g]
          BY <2>4, <3>1, <4>1
      <4> QED BY <2>7, <4>2
    <3>7. CASE h \in c.refs[p]
      <4>1. h \in u.refs[p]
          BY <2>4, <2>7, <3>1, <3>7
      <4> QED BY <2>4, <2>7, <3>4, <3>5, <3>6, <4>1
    <3>8. CASE h \in c.unassigned[g] /\ FlushAssigns(g)
      <4>1. h \in u.unassigned[g]
          BY <2>4, <2>7, <3>1, <3>8
      <4>2. /\ loop = "flush" /\ u.gstate[g] = "online" /\ g \in u.queued
            /\ Targets(u, g) # {}
          BY <2>4, <2>7, <2>9, <3>8 DEF FlushAssigns
      <4> QED BY <2>4, <2>7, <3>4, <3>5, <3>6, <4>1, <4>2
    <3> QED BY <3>3, <3>5, <3>7, <3>8 DEF Confirmable
  <2>11. RelocationDone(u)
      BY <2>4, <2>7, <2>8, <2>10 DEF RelocationDone
  <2>12. c' = u
      BY <1>3, <1>4, <1>14, <2>1, <2>6
  <2> QED BY <1>6, <2>11, <2>12
<1> QED BY <1>3, <1>4, <1>12, <1>13, <1>14

\* The loop starts from a cache that keeps the invariant.
LEMMA LoopStarts ==
  ASSUME IInv
  PROVE  MidLoop(c, Group)
<1>1. c \in Cache /\ CacheOK(c)
    BY DEF IInv, Typed
<1>2. ListTrue(c) /\ PoolTrue(c) /\ MapListed(c) /\ MembersServed(c)
      /\ OfflineEmpty(c) /\ WorkQueued(c)
    BY <1>1 DEF CacheOK
<1>3. /\ \A g \in AllGroups : c.members[g] = {h \in Host : KnownGroup(h) = g}
      /\ \A h \in Host : \A p \in Proxy : c.updates[h] = p => Confirmable(h, p)
    BY DEF IInv, OneEdit
<1>4. OneGroup(c)
    BY <1>3 DEF OneGroup
<1>5. MembersGiven(c)
    BY <1>2 DEF MembersServed, MembersGiven
<1>6. Visited(c, Group)
    BY DEF Visited
<1>7. Pending(c, Group)
  <2> SUFFICES ASSUME NEW h \in Host, NEW p \in Proxy, c.updates[h] = p
               PROVE  /\ c.group[p] \in Group /\ h \in c.members[c.group[p]]
                      /\ \A q \in Proxy : h \in c.refs[q] => q = p
                      /\ \A j \in AllGroups : h \in c.unassigned[j] =>
                           /\ j \in Group /\ c.gstate[j] = "online" /\ j \in c.queued
                           /\ Targets(c, j) # {}
                      /\ \/ c.pstate[p] = "online" \/ h \in c.refs[p]
                         \/ h \in c.unassigned[c.group[p]]
      BY DEF Pending
  <2>1. Confirmable(h, p)
      BY <1>3
  <2>2. c.hostmap[h].proxy = p /\ c.group[p] \in Group /\ h \in c.members[c.group[p]]
        /\ (h \in c.refs[p] \/ (h \in c.unassigned[c.group[p]] /\ FlushAssigns(c.group[p])))
      BY <2>1 DEF Confirmable
  <2>3. \A q \in Proxy : h \in c.refs[q] => q = p
      BY <1>2, <2>2 DEF ListTrue
  <2>4. ASSUME NEW j \in AllGroups, h \in c.unassigned[j]
        PROVE  /\ j \in Group /\ c.gstate[j] = "online" /\ j \in c.queued
               /\ Targets(c, j) # {}
    <3>1. h \in c.members[j] /\ h \notin c.refs[p]
        BY <1>2, <2>4 DEF PoolTrue
    <3>2. j = c.group[p]
        BY <1>4, <2>2, <3>1 DEF OneGroup, AllGroups
    <3>3. FlushAssigns(j)
        BY <2>2, <3>1, <3>2
    <3> QED BY <2>2, <3>2, <3>3 DEF FlushAssigns
  <2> QED BY <2>2, <2>3, <2>4
<1> QED BY <1>1, <1>2, <1>4, <1>5, <1>6, <1>7 DEF MidLoop

\* A mapped host without a pending update is in the list of its proxy.
LEMMA MappedConfirmable ==
  ASSUME c \in Cache, CacheOK(c), NEW h \in Host, NEW p \in Proxy,
         c.hostmap[h].proxy = p, c.updates[h] = Keep
  PROVE  Confirmable(h, p)
<1>1. c.hostmap[h] # NoRow
    BY DistinctConstants DEF NoRow
<1>2. h \in c.refs[p]
    BY <1>1 DEF CacheOK, MapListed
<1> QED BY <1>2 DEF CacheOK, ListTrue, Confirmable

\* Steps that change nothing the manager decides by.
LEMMA DecisionsKept ==
  ASSUME IInv, Typed', SameDecisions(c, c'), UNCHANGED <<config, inbox, loop>>,
         RowsExist'
  PROVE  IInv'
<1> USE DEF config
<1>1. CacheOK(c')
    BY SameDecisionsOK DEF IInv
<1>2. \A g : Targets(c', g) = Targets(c, g)
    BY DEF SameDecisions, Targets, ProxiesOf
<1>3. OneEdit'
  <2>1. \A h : KnownGroup(h)' = KnownGroup(h)
      BY DEF KnownGroup
  <2>2. \A g : FlushAssigns(g) => FlushAssigns(g)'
      BY <1>2 DEF FlushAssigns, SameDecisions
  <2>3. \A h, p : Confirmable(h, p) => Confirmable(h, p)'
      BY <2>2 DEF Confirmable, SameDecisions
  <2>4. OneEdit
      BY DEF IInv
  <2> QED BY <2>1, <2>3, <2>4 DEF OneEdit, SameDecisions
<1>4. OnlineServed'
    BY <1>2 DEF IInv, OnlineServed, SameDecisions
<1> QED BY <1>1, <1>3, <1>4 DEF IInv

\* pgm_update
LEMMA UpdateKeeps ==
  ASSUME IInv, Typed', Update
  PROVE  IInv'
<1> USE DEF config, database
<1>1. /\ Typed /\ c \in Cache /\ CacheOK(c) /\ OneEdit /\ RowsExist
      /\ proxyGroup \in [Proxy -> AllGroups \cup {Gone}]
    BY DEF IInv, Typed
<1>2. PICK clock : c' = Updated(c, clock)
    BY DEF Update
<1>3. /\ loop = "top" /\ loop' = "flush"
      /\ UNCHANGED <<hostGroup, proxyGroup, row, inbox>>
    BY DEF Update
<1>4. /\ CacheOK(c')
      /\ c'.group = proxyGroup /\ c'.members = c.members
      /\ \A g \in Group : c'.gstate[g] = "online" => Targets(c', g) # {}
      /\ c.group = proxyGroup =>
           /\ c'.hostmap = c.hostmap
           /\ \A h \in Host : c'.updates[h] \in {c.updates[h], NoProxy}
           /\ \A p \in Proxy : \A h \in c.refs[p] :
                \/ h \in c'.refs[p] /\ c'.updates[h] = c.updates[h]
                \/ /\ c'.updates[h] = NoProxy /\ h \in c'.unassigned[c.group[p]]
                   /\ c'.gstate[c.group[p]] = "online" /\ c.group[p] \in c'.queued
    BY <1>1, <1>2, UpdatedOK
<1>5. \A h \in Host : c'.updates[h] \in {c.updates[h], NoProxy}
    BY <1>1, <1>2, UpdatedUpdates
<1>6. \A g : ~FlushAssigns(g)
    BY <1>3 DEF FlushAssigns
<1>7. ASSUME c.group = proxyGroup, NEW h \in Host, NEW p \in Proxy, Confirmable(h, p)
      PROVE  Confirmable(h, p)' /\ (c'.updates[h] = p => h \in c'.refs[p])
  <2>1. c.hostmap[h].proxy = p /\ c.group[p] \in Group /\ h \in c.members[c.group[p]]
        /\ h \in c.refs[p]
      BY <1>6, <1>7 DEF Confirmable
  <2>2. \/ h \in c'.refs[p]
        \/ /\ c'.updates[h] = NoProxy /\ h \in c'.unassigned[c.group[p]]
           /\ c'.gstate[c.group[p]] = "online" /\ c.group[p] \in c'.queued
      BY <1>4, <1>7, <2>1
  <2>3. c'.hostmap[h].proxy = p /\ c'.group[p] = c.group[p]
        /\ h \in c'.members[c'.group[p]]
      BY <1>4, <1>7, <2>1
  <2>4. CASE h \in c'.refs[p]
      BY <2>1, <2>3, <2>4 DEF Confirmable
  <2>5. CASE h \notin c'.refs[p]
    <3>1. /\ h \in c'.unassigned[c'.group[p]] /\ loop' = "flush"
          /\ c'.gstate[c'.group[p]] = "online" /\ c'.group[p] \in c'.queued
          /\ Targets(c', c'.group[p]) # {}
        BY <1>3, <1>4, <2>1, <2>2, <2>3, <2>5
    <3>2. c'.updates[h] # p
        BY <2>2, <2>5, DistinctConstants
    <3> QED BY <2>1, <2>3, <3>1, <3>2 DEF Confirmable, FlushAssigns
  <2> QED BY <2>4, <2>5
<1>8. OneEdit'
  <2>1. \A h : KnownGroup(h)' = KnownGroup(h)
      BY <1>3 DEF KnownGroup
  <2>2. ASSUME NEW h \in Host, NEW p \in Proxy, c'.updates[h] = p
        PROVE  Confirmable(h, p)'
    <3>1. c.updates[h] = p
        BY <1>5, <2>2, DistinctConstants
    <3>2. c.group = proxyGroup
        BY <1>1, <3>1, DistinctConstants DEF OneEdit, Keep
    <3>3. Confirmable(h, p)
        BY <1>1, <3>1 DEF OneEdit
    <3> QED BY <1>7, <3>2, <3>3
  <2>3. ASSUME inbox' # <<>>, NEW h \in Host, NEW p \in Proxy, c'.hostmap[h].proxy = p
        PROVE  Confirmable(h, p)'
    <3>1. c.group = proxyGroup
        BY <1>1, <1>3, <2>3 DEF OneEdit
    <3>2. Confirmable(h, p)
        BY <1>1, <1>3, <1>4, <2>3, <3>1 DEF OneEdit
    <3> QED BY <1>7, <3>1, <3>2
  <2>4. \A g \in AllGroups : c'.members[g] = {h \in Host : KnownGroup(h)' = g}
      BY <1>1, <1>4, <2>1 DEF OneEdit
  <2>5. inbox' = <<>> \/ (Len(inbox') = 1 /\ Head(inbox').dst =
                        IF hostGroup'[Head(inbox').host] = Gone THEN NoGroup
                        ELSE hostGroup'[Head(inbox').host])
      BY <1>1, <1>3 DEF OneEdit
  <2>6. c'.group = proxyGroup'
      BY <1>3, <1>4
  <2> QED BY <2>2, <2>3, <2>4, <2>5, <2>6 DEF OneEdit
<1>9. OnlineServed'
    BY <1>4 DEF OnlineServed
<1>10. RowsExist'
    BY <1>1, <1>3 DEF RowsExist
<1> QED BY <1>4, <1>8, <1>9, <1>10 DEF IInv

\* pgm_rebalance_and_flush_updates: every update that is taken is confirmed.
LEMMA RebalanceKeeps ==
  ASSUME IInv, Typed', RebalanceAndTake
  PROVE  IInv'
<1> USE DEF config, database
<1>1. /\ CacheOK(c) /\ OneEdit /\ RowsExist /\ MidLoop(c, Group)
      /\ UNCHANGED <<hostGroup, proxyGroup, row, inbox>> /\ loop' = "top"
    BY LoopStarts DEF IInv, RebalanceAndTake
<1>2. PICK due \in SUBSET Group : \E x \in RebalanceGroups(c, due) :
        c' = TakeUpdates(Dequeue(x)).k
    BY DEF RebalanceAndTake
<1>3. PICK x \in RebalanceGroups(c, due) : c' = TakeUpdates(Dequeue(x)).k
    BY <1>2
<1>4. MidLoop(x, {}) /\ Unchanged(c, x)
    BY <1>1, <1>3, RebalanceGroupsKeeps
<1>5. x.group = c.group /\ x.members = c.members /\ x.rev < MaxRevision
    BY <1>4 DEF Unchanged, RebalanceAndTake
<1>6. /\ c' \in Cache /\ CacheOK(c')
      /\ c'.group = c.group /\ c'.members = c.members
      /\ \A h \in Host : c'.updates[h] = Keep
    BY <1>3, <1>4, <1>5, TakeUpdatesOK
<1>7. \A h \in Host : \A p \in Proxy : c'.hostmap[h].proxy = p => Confirmable(h, p)'
  <2> SUFFICES ASSUME NEW h \in Host, NEW p \in Proxy, c'.hostmap[h].proxy = p
               PROVE  Confirmable(h, p)'
      OBVIOUS
  <2>1. c'.hostmap[h] # NoRow
      BY DistinctConstants DEF NoRow
  <2>2. h \in c'.refs[p]
      BY <1>6, <2>1 DEF CacheOK, MapListed
  <2> QED BY <1>6, <2>2 DEF CacheOK, ListTrue, Confirmable
<1>8. OneEdit'
  <2>1. \A h : KnownGroup(h)' = KnownGroup(h)
      BY <1>1 DEF KnownGroup
  <2>2. \A g \in AllGroups : c'.members[g] = {h \in Host : KnownGroup(h)' = g}
      BY <1>1, <1>6, <2>1 DEF OneEdit
  <2>3. \A h \in Host : \A p \in Proxy : c'.updates[h] # p
      BY <1>6, DistinctConstants DEF Keep
  <2>4. inbox' = <<>> \/ (Len(inbox') = 1 /\ Head(inbox').dst =
                        IF hostGroup'[Head(inbox').host] = Gone THEN NoGroup
                        ELSE hostGroup'[Head(inbox').host])
      BY <1>1 DEF OneEdit
  <2>5. c'.group # proxyGroup' => inbox' = <<>>
      BY <1>1, <1>6 DEF OneEdit
  <2> QED BY <1>6, <1>7, <2>2, <2>3, <2>4, <2>5 DEF OneEdit
<1>9. OnlineServed' /\ RowsExist'
    BY <1>1 DEF OnlineServed, RowsExist
<1> QED BY <1>6, <1>8, <1>9 DEF IInv

\* Once the update thread found nothing to flush, nothing waits for a flush.
LEMMA NothingToFlushKeeps ==
  ASSUME IInv, Typed', NothingToFlush
  PROVE  IInv'
<1> USE DEF config, database
<1>1. /\ UNCHANGED <<hostGroup, proxyGroup, row, inbox, c>> /\ loop' = "top"
      /\ c.queued = {}
    BY DEF NothingToFlush
<1>2. \A h \in Host : \A p \in Proxy : Confirmable(h, p) => Confirmable(h, p)'
    BY <1>1 DEF Confirmable, FlushAssigns
<1>3. \A h : KnownGroup(h)' = KnownGroup(h)
    BY <1>1 DEF KnownGroup
<1>4. OneEdit'
    BY <1>1, <1>2, <1>3 DEF IInv, OneEdit
<1> QED BY <1>1, <1>4 DEF IInv, OnlineServed, RowsExist, CacheOK, ListTrue, PoolTrue,
           MapListed, MembersServed, OfflineEmpty, WorkQueued

\* The commit writes no row of a host that was deleted.
LEMMA CommitKeeps ==
  ASSUME IInv, Typed', Commit
  PROVE  IInv'
<1>1. c \in Cache /\ txn \in Transaction /\ RowsExist
    BY DEF IInv, Typed
<1>2. SameDecisions(c, c')
    BY <1>1, CommitCache
<1>3. RowsExist'
  <2> SUFFICES ASSUME NEW h \in Host, hostGroup[h] = Gone
               PROVE  row'[h] = NoRow
      BY DEF Commit, config, RowsExist
  <2>1. row[h] = NoRow
      BY <1>1 DEF RowsExist
  <2>2. CASE Refused(txn)
      BY <2>1, <2>2 DEF Commit, database
  <2>3. CASE ~Refused(txn)
    <3> DEFINE put == {m \in txn.mod : row[m[1]] # NoRow} \cup
                      {m \in txn.new : HostExists(m[1]) /\ ProxyExists(m[2])}
    <3>1. \A m \in put : m[1] # h
        BY <2>1 DEF HostExists
    <3>2. row' = [i \in Host |->
            IF \E m \in put : m[1] = i
            THEN [proxy |-> (CHOOSE m \in put : m[1] = i)[2], rev |-> txn.rev]
            ELSE IF i \in txn.del THEN NoRow ELSE row[i]]
        BY <2>3 DEF Commit, RowsAfter
    <3> HIDE DEF put
    <3> QED BY <2>1, <3>1, <3>2
  <2> QED BY <2>2, <2>3
<1> QED BY <1>2, <1>3, DecisionsKept DEF Commit

\* pg_update_host_pgroup
LEMMA HandleRelocationKeeps ==
  ASSUME IInv, Typed', HandleRelocation
  PROVE  IInv'
<1> USE DEF config, database
<1>1. RelocationDone(c') /\ c.group = proxyGroup /\ Len(inbox) = 1
    BY RelocationOK
<1>2. /\ UNCHANGED <<hostGroup, proxyGroup, row, loop>>
      /\ inbox \in Seq(Relocation) /\ inbox' = Tail(inbox)
    BY DEF IInv, Typed, HandleRelocation
<1>3. inbox' = <<>>
    BY <1>1, <1>2
<1>4. \A h : KnownGroup(h)' = hostGroup[h]
    BY <1>2, <1>3 DEF KnownGroup
<1>5. \A g \in AllGroups : c'.members[g] = {h \in Host : KnownGroup(h)' = g}
    BY <1>1, <1>4 DEF RelocationDone
<1>6. \A h \in Host : \A p \in Proxy : c'.updates[h] = p => Confirmable(h, p)'
    BY <1>1, <1>2 DEF RelocationDone, Confirmable, FlushAssigns
<1>7. c'.group = proxyGroup'
    BY <1>1, <1>2 DEF RelocationDone
<1>8. OneEdit'
    BY <1>3, <1>5, <1>6, <1>7 DEF OneEdit
<1>9. OnlineServed' /\ RowsExist'
    BY <1>1, <1>2 DEF RelocationDone, IInv, OnlineServed, RowsExist, Targets, ProxiesOf
<1> QED BY <1>1, <1>8, <1>9 DEF RelocationDone, IInv

\* dc_host_set_proxy_group: an edit finds nothing else on its way.
LEMMA EditHostKeeps ==
  ASSUME OneAtATime, IInv, Typed', NEW i \in Host, EditHost(i)
  PROVE  IInv'
<1> USE DEF config, database
<1>1. /\ Typed /\ c \in Cache /\ CacheOK(c) /\ OneEdit /\ RowsExist
      /\ hostGroup \in [Host -> Group \cup {NoGroup, Gone}] /\ row \in [Host -> Row]
    BY DEF IInv, Typed
<1>2. /\ inbox = <<>> /\ c.group = proxyGroup /\ \A h \in Host : c.updates[h] = Keep
      /\ UNCHANGED <<proxyGroup, c, loop>> /\ hostGroup[i] # Gone
    BY DEF EditHost, Settled
<1>3. PICK g \in HostTargets :
        /\ hostGroup' = [hostGroup EXCEPT ![i] = g]
        /\ inbox' = IF {hostGroup[i], IF g = Gone THEN NoGroup ELSE g} = {NoGroup}
                    THEN inbox
                    ELSE Append(inbox, [host |-> i, src |-> hostGroup[i],
                                        dst |-> IF g = Gone THEN NoGroup ELSE g])
        /\ row' = IF g = Gone THEN [row EXCEPT ![i] = NoRow] ELSE row
    BY DEF EditHost
<1>4. \A h \in Host : hostGroup'[h] = IF h = i THEN g ELSE hostGroup[h]
    BY <1>1, <1>3
<1>5. \A j \in AllGroups : c.members[j] = {h \in Host : hostGroup[h] = j}
    BY <1>1, <1>2 DEF OneEdit, KnownGroup
<1>6. RowsExist'
    BY <1>1, <1>3, <1>4 DEF RowsExist
<1>7. \A h \in Host : \A p \in Proxy : c.hostmap[h].proxy = p => Confirmable(h, p)
    BY <1>1, <1>2, MappedConfirmable
<1>8. \A h \in Host : \A p \in Proxy : Confirmable(h, p) => Confirmable(h, p)'
    BY <1>2 DEF Confirmable, FlushAssigns
<1>9. /\ inbox' = <<>> \/ (Len(inbox') = 1 /\ Head(inbox').dst =
            IF hostGroup'[Head(inbox').host] = Gone THEN NoGroup
            ELSE hostGroup'[Head(inbox').host])
      /\ \A j \in AllGroups : \A h \in Host : KnownGroup(h)' = j <=> hostGroup[h] = j
  <2>1. CASE {hostGroup[i], IF g = Gone THEN NoGroup ELSE g} = {NoGroup}
    <3>1. inbox' = <<>> /\ hostGroup[i] = NoGroup /\ g \in {NoGroup, Gone}
        BY <1>2, <1>3, <2>1
    <3>2. NoGroup \notin AllGroups /\ Gone \notin AllGroups
        BY DistinctConstants DEF AllGroups
    <3>3. \A h \in Host : KnownGroup(h)' = hostGroup'[h]
        BY <3>1 DEF KnownGroup
    <3> QED BY <1>4, <3>1, <3>2, <3>3
  <2>2. CASE {hostGroup[i], IF g = Gone THEN NoGroup ELSE g} # {NoGroup}
    <3>1. PICK m : m = [host |-> i, src |-> hostGroup[i],
                        dst |-> IF g = Gone THEN NoGroup ELSE g]
        OBVIOUS
    <3>2. inbox' = <<m>>
        BY <1>2, <1>3, <2>2, <3>1
    <3>3. Len(inbox') = 1 /\ Head(inbox') = m /\ inbox' # <<>>
        BY <3>2
    <3>4. m.host = i /\ m.src = hostGroup[i] /\ m.dst = IF g = Gone THEN NoGroup ELSE g
        BY <3>1
    <3>5. \A h \in Host : KnownGroup(h)' = hostGroup[h]
        BY <1>4, <3>3, <3>4 DEF KnownGroup
    <3> QED BY <1>4, <3>3, <3>4, <3>5
  <2> QED BY <2>1, <2>2
<1>10. \A j \in AllGroups : c'.members[j] = {h \in Host : KnownGroup(h)' = j}
    BY <1>2, <1>5, <1>9
<1>11. \A h \in Host : \A p \in Proxy : c'.updates[h] # p
    BY <1>2, DistinctConstants DEF Keep
<1>12. OneEdit'
    BY <1>2, <1>7, <1>8, <1>9, <1>10, <1>11 DEF OneEdit
<1>13. CacheOK(c') /\ OnlineServed'
    BY <1>1, <1>2 DEF IInv, OnlineServed
<1> QED BY <1>6, <1>12, <1>13 DEF IInv

\* A proxy is edited when no relocation is on its way.
LEMMA EditProxyKeeps ==
  ASSUME OneAtATime, IInv, Typed', NEW q \in Proxy, EditProxy(q)
  PROVE  IInv'
<1> USE DEF config, database
<1>1. /\ Typed /\ CacheOK(c) /\ OneEdit /\ RowsExist /\ row \in [Host -> Row]
      /\ inbox = <<>> /\ \A h \in Host : c.updates[h] = Keep
      /\ UNCHANGED <<hostGroup, inbox, c, loop>>
    BY DEF IInv, Typed, EditProxy, Settled
<1>2. PICK g : row' = IF g = Gone
                      THEN [h \in Host |-> IF row[h].proxy = q THEN NoRow ELSE row[h]]
                      ELSE row
    BY DEF EditProxy
<1>3. RowsExist'
    BY <1>1, <1>2 DEF RowsExist
<1>4. \A h : KnownGroup(h)' = KnownGroup(h)
    BY <1>1 DEF KnownGroup
<1>5. \A j \in AllGroups : c'.members[j] = {h \in Host : KnownGroup(h)' = j}
    BY <1>1, <1>4 DEF OneEdit
<1>6. \A h \in Host : \A p \in Proxy : c'.updates[h] # p
    BY <1>1, DistinctConstants DEF Keep
<1>7. OneEdit'
    BY <1>1, <1>5, <1>6 DEF OneEdit
<1>8. CacheOK(c') /\ OnlineServed'
    BY <1>1 DEF IInv, OnlineServed
<1> QED BY <1>3, <1>7, <1>8 DEF IInv

\* The server starts with what the tables say.
LEMMA RestartServerKeeps ==
  ASSUME IInv, Typed', RestartServer
  PROVE  IInv'
<1> USE DEF config, database
<1>1. Typed /\ RowsExist
    BY DEF IInv
<1>2. /\ UNCHANGED <<hostGroup, proxyGroup, row>> /\ inbox' = <<>> /\ loop' = "top"
    BY DEF RestartServer
<1>3. PICK clock : c' = LoadedAt(clock)
    BY DEF RestartServer
<1>4. /\ CacheOK(c') /\ c'.group = proxyGroup
      /\ \A g \in AllGroups : c'.members[g] = {h \in Host : hostGroup[h] = g}
      /\ \A h \in Host : c'.updates[h] \notin Proxy
    BY <1>1, <1>3, LoadedOK
<1>5. OneEdit'
    BY <1>2, <1>4 DEF OneEdit, KnownGroup
<1> QED BY <1>1, <1>2, <1>4, <1>5 DEF IInv, OnlineServed, RowsExist

LEMMA InitInv == Init => IInv
<1> SUFFICES ASSUME Init PROVE IInv
    OBVIOUS
<1>1. Typed
    BY TypedInit DEF TInv
<1>2. RowsExist
  <2>1. \A h \in Host : hostGroup[h] # Gone
      BY ProxyGroupAssumption, DistinctConstants DEF Init
  <2> QED BY <2>1 DEF RowsExist
<1>3. PICK clock : c = LoadedAt(clock)
    BY DEF Init
<1>4. inbox = <<>> /\ loop = "top"
    BY DEF Init
<1> QED BY <1>1, <1>2, <1>3, <1>4, LoadedInv DEF IInv

\* Every step keeps the invariant.
LEMMA NextInv ==
  ASSUME OneAtATime
  PROVE  TInv /\ IInv /\ [Next]_vars => IInv'
<1> SUFFICES ASSUME TInv, IInv, [Next]_vars PROVE IInv'
    OBVIOUS
<1>0. Typed' /\ c \in Cache
    BY TypedNext DEF TInv, Typed
<1>1. CASE Update
    BY <1>0, <1>1, UpdateKeeps
<1>2. CASE NothingToFlush
    BY <1>0, <1>2, NothingToFlushKeeps
<1>3. CASE RebalanceAndTake
    BY <1>0, <1>3, RebalanceKeeps
<1>4. CASE Commit
    BY <1>0, <1>4, CommitKeeps
<1>5. CASE HandleRelocation
    BY <1>0, <1>5, HandleRelocationKeeps
<1>same. ASSUME UNCHANGED <<config, database, inbox, loop>>, SameDecisions(c, c')
         PROVE  IInv'
  <2>1. RowsExist'
      BY <1>same DEF IInv, RowsExist, config, database
  <2> QED BY <1>0, <1>same, <2>1, DecisionsKept
<1>c. UNCHANGED c => SameDecisions(c, c')
    BY DEF SameDecisions
<1>6. ASSUME NEW p \in Watch, RequestConfig(p) PROVE IInv'
    BY <1>0, <1>6, <1>same, RequestCache DEF RequestConfig
<1>7. ASSUME NEW p \in Watch, ApplyConfig(p) \/ LoseConfig(p) \/ PurgeCopy(p)
      PROVE  IInv'
    BY <1>7, <1>same, <1>c DEF ApplyConfig, LoseConfig, PurgeCopy
<1>8. ASSUME NEW h \in Host, EditHost(h) PROVE IInv'
    BY <1>0, <1>8, EditHostKeeps
<1>9. ASSUME NEW p \in Proxy, EditProxy(p) PROVE IInv'
    BY <1>0, <1>9, EditProxyKeeps
<1>10. ASSUME NEW p \in Watch, DayPasses(p) PROVE IInv'
    BY <1>0, <1>10, <1>same, DayPassesCache DEF DayPasses
<1>11. ASSUME NEW p \in Watch, RestartProxy(p) PROVE IInv'
    BY <1>11, <1>same, <1>c DEF RestartProxy
<1>12. CASE RestartServer
    BY <1>0, <1>12, RestartServerKeeps
<1>13. CASE UNCHANGED vars
    BY <1>13, <1>same, <1>c DEF vars
<1>14. BoundReached => UNCHANGED vars
    BY DEF BoundReached
<1> QED BY <1>1, <1>2, <1>3, <1>4, <1>5, <1>6, <1>7, <1>8, <1>9, <1>10, <1>11, <1>12,
           <1>13, <1>14
        DEF Next, Manager, Service, ProxySide, Environment

LEMMA InvHolds ==
  ASSUME OneAtATime
  PROVE  Spec => []IInv
<1>1. TInv /\ IInv /\ [Next]_vars => TInv' /\ IInv'
    BY TypedNext, NextInv
<1> QED BY TypedInit, InitInv, <1>1, PTL DEF Spec

\* A host is in the list of no more than one proxy, the one that hostmap
\* names: through updates, relocations, rebalancing, flushes and restarts,
\* for any number of proxies, hosts and groups.
THEOREM ListsTrue ==
  ASSUME OneAtATime
  PROVE  Spec => []RefsTrue
<1>1. IInv => RefsTrue
    BY DEF IInv, CacheOK, ListTrue, RefsTrue
<1> QED BY InvHolds, <1>1, PTL

\* An online group that the manager will not look at has no work left: its
\* hosts are all in the lists of its proxies that are online.
THEOREM NoHostForgotten ==
  ASSUME OneAtATime
  PROVE  Spec => []NoneForgotten
<1>1. IInv => NoneForgotten
  <2> SUFFICES ASSUME IInv, NEW g \in Group, c.gstate[g] = "online",
                      g \notin c.queued, NEW h \in c.members[g]
               PROVE  \E p \in Targets(c, g) : h \in c.refs[p]
      BY DEF NoneForgotten
  <2>1. MembersServed(c) /\ OfflineEmpty(c) /\ WorkQueued(c)
      BY DEF IInv, CacheOK
  <2>2. c.unassigned[g] = {}
      BY <2>1 DEF WorkQueued
  <2>3. PICK p \in Proxy : c.group[p] = g /\ h \in c.refs[p]
      BY <2>1, <2>2 DEF MembersServed
  <2>4. c.pstate[p] = "online"
      BY <2>1, <2>3 DEF OfflineEmpty
  <2> QED BY <2>3, <2>4 DEF Targets, ProxiesOf
<1> QED BY InvHolds, <1>1, PTL
=============================================================================
