----------------------------- MODULE ProxyGroup -----------------------------
(***************************************************************************)
(* The proxy group manager of the server (zabbix_server/pgmanager) and the *)
(* way its assignments reach the proxies (zabbix_server/proxyconfigread,   *)
(* zabbix_proxy/proxyconfigwrite).                                         *)
(*                                                                         *)
(* Hosts belong to proxy groups; the manager gives every host of a group   *)
(* that is online to one of its online proxies.  Its main loop and the     *)
(* thread of its service share a cache under a lock.  The assignments are  *)
(* decided in the cache and written to the table host_proxy in a           *)
(* transaction outside the lock, and every proxy keeps a copy of the table *)
(* for its group, which it updates by revisions and lists of deleted rows. *)
(*                                                                         *)
(* Clocks are abstracted: at every update of the manager the last message  *)
(* of a proxy may have any age, and every delay may have passed or not.    *)
(***************************************************************************)
EXTENDS Integers, Sequences, FiniteSets, FiniteSetsExt

CONSTANTS
  Proxy, Host, Group,
  NoProxy, NoGroup, Standalone, Gone,
  ProxyHome,     \* [Proxy -> Group or Standalone], the groups at the start
  HostHome,      \* [Host -> Group or NoGroup]
  RowHome,       \* [Host -> Proxy or NoProxy], host_proxy at the start
  Watch,         \* proxies whose copy of the table is modelled
  HostTargets,   \* bound: what the group of a host is changed to
  Moves,         \* bound: pairs <<from, to>>, how the group of a proxy changes
  MinOnline,     \* proxy_group.min_online
  UnbalanceLimit, UnbalanceFactor,  \* PG_GROUP_UNBALANCE_LIMIT and _FACTOR
  OneAtATime,    \* assumption: an edit waits until the last one is flushed
  MaxEvents,     \* bound: edits, restarts and days without contact
  MaxRevision    \* bound: revisions of the table host_proxy

ASSUME ProxyGroupAssumption ==
  /\ Watch \subseteq Proxy
  /\ Cardinality({NoProxy, NoGroup, Standalone, Gone}) = 4
  /\ {NoProxy, NoGroup, Standalone, Gone} \cap (Proxy \cup Host \cup Group) = {}
  /\ ProxyHome \in [Proxy -> Group \cup {Standalone}]
  /\ HostHome \in [Host -> Group \cup {NoGroup}]
  /\ RowHome \in [Host -> Proxy \cup {NoProxy}]
  /\ HostTargets \subseteq Group \cup {NoGroup, Gone}
  /\ Moves \subseteq (Group \cup {Standalone}) \X (Group \cup {Standalone, Gone})
  /\ MinOnline \in Nat \ {0}
  /\ UnbalanceLimit \in Nat \ {0} /\ UnbalanceFactor \in Nat \ {0}
  /\ OneAtATime \in BOOLEAN
  /\ MaxEvents \in Nat /\ MaxRevision \in Nat \ {0}
  /\ IsFiniteSet(Proxy) /\ IsFiniteSet(Host) /\ IsFiniteSet(Group)
  /\ Host # {}

VARIABLES
  hostGroup,   \* [Host -> Group, NoGroup or Gone], the configuration
  proxyGroup,  \* [Proxy -> Group, Standalone or Gone], the configuration
  row,         \* [Host -> [proxy, rev]], the table host_proxy
  ids,         \* the revision in the table ids
  inbox,       \* host relocations sent to the service
  c,           \* the cache of the manager
  txn,         \* the updates that are being written to the database
  loop,        \* "top" or "flush": an update of the cache is followed by a flush
  reply,       \* [Watch -> the answer the proxy configuration is built from]
  copy,        \* [Watch -> [Host -> proxy]], host_proxy of the proxy
  known,       \* [Watch -> Nat], hostmap_revision of the proxy, or Unset
  session,     \* [Watch -> whether the server knows the session of the proxy]
  events       \* what has happened, for MaxEvents

config == <<hostGroup, proxyGroup>>
database == <<row, ids>>
proxyside == <<reply, copy, known, session>>
vars == <<config, database, inbox, c, txn, loop, proxyside, events>>

AllGroups == Group \cup {Standalone}
NoRow == [proxy |-> NoProxy, rev |-> 0]
Keep == Gone                  \* no pending update for a host
Unset == -1                   \* the proxy has no configuration yet
Nothing == [mod |-> {}, new |-> {}, del |-> {}, groups |-> {}, rev |-> 0]

-----------------------------------------------------------------------------
(* The cache. *)

ProxiesOf(k, g) == {p \in Proxy : k.group[p] = g}

SetHostProxy(updates, S, p) == [h \in Host |-> IF h \in S THEN p ELSE updates[h]]

GroupRemoveHost(k, g, h) ==
  LET mapped == k.hostmap[h] # NoRow
      p == k.hostmap[h].proxy
  IN  [k EXCEPT !.members[g] = @ \ {h},
                !.unassigned[g] = @ \ {h},
                !.refs = [q \in Proxy |-> IF q = p THEN @[q] \ {h} ELSE @[q]],
                !.updates = IF mapped THEN SetHostProxy(@, {h}, NoProxy) ELSE @,
                !.queued = @ \cup {g}]

GroupAddHost(k, g, h) ==
  [k EXCEPT !.unassigned[g] = IF h \in k.members[g] THEN @ ELSE @ \cup {h},
            !.members[g] = @ \cup {h},
            !.queued = @ \cup {g}]

\* MUTANT: the group of a deleted proxy is queued without a check
GroupsLeftOrJoinedAny(k, left) ==
  {k.group[p] : p \in left} \cup {proxyGroup[p] : p \in left}

\* MUTANT: only the new group of a proxy is queued
GroupsJoined(k, left) == {proxyGroup[p] : p \in left} \ {Gone}

\* The groups that proxies which left their group are removed from and added to
GroupsLeftOrJoined(k, left) ==
  ({k.group[p] : p \in left} \cup {proxyGroup[p] : p \in left}) \ {Gone}

\* MUTANT: a proxy that left its group is taken for a deleted one
LeftProxies(left) == left

DeletedProxies(left) == {p \in left : proxyGroup[p] = Gone}

\* pg_cache_update_proxies: proxies that left their group or were deleted
UpdateProxies(k) ==
  LET left == {p \in Proxy : proxyGroup[p] # k.group[p]}
      deleted == DeletedProxies(left)
      Hosts(S) == UNION {k.refs[p] : p \in S}
  IN  [k EXCEPT
        !.group = proxyGroup,
        !.unassigned = [g \in AllGroups |->
                          @[g] \cup Hosts(left \cap ProxiesOf(k, g))],
        !.updates = SetHostProxy(@, Hosts(left \ deleted), NoProxy),
        !.hostmap = [h \in Host |-> IF h \in Hosts(deleted) THEN NoRow ELSE @[h]],
        !.refs = [p \in Proxy |-> IF p \in left THEN {} ELSE @[p]],
        !.pstate = [p \in Proxy |-> IF p \in deleted THEN "unknown" ELSE @[p]],
        !.seen = @ \ deleted,
        !.lost = [p \in Proxy |-> IF p \in deleted THEN {} ELSE @[p]],
        !.synced = [p \in Proxy |-> IF p \in deleted THEN "never" ELSE @[p]],
        !.queued = @ \cup GroupsLeftOrJoined(k, left)]

\* pg_cache_update_proxy_state: dead proxies have been silent for the failover
\* delay, alive ones have been heard for the failover delay
UpdateProxyState(k, dead, alive, starting) ==
  LET state(p) ==
        CASE p \in dead -> IF starting THEN k.pstate[p] ELSE "offline"
          [] p \notin dead /\ (\/ k.pstate[p] = "unknown"
                               \/ k.group[p] = Standalone
                               \/ p \in alive) -> "online"
          [] OTHER -> k.pstate[p]
      there == {p \in Proxy : k.group[p] # Gone}
  IN  [k EXCEPT
        !.pstate = [p \in Proxy |-> IF p \in there THEN state(p) ELSE @[p]],
        !.seen = (@ \cup (there \ dead)) \ (IF starting THEN {} ELSE dead),
        !.queued = @ \cup {k.group[p] : p \in {q \in there : state(q) # k.pstate[q]}}]

\* the state machine of a group; late proxies have missed the check interval
NextGroupState(k, g, late, timeout) ==
  LET all == ProxiesOf(k, g)
      online == {p \in all : k.pstate[p] = "online"}
      offline == {p \in all : k.pstate[p] = "offline"}
      Enough(S) == Cardinality(S) >= MinOnline
      s == k.gstate[g]
  IN  CASE s \in {"unknown", "recovering"} ->
             IF ~Enough(all \ offline) THEN "offline"
             ELSE IF online = all THEN "online"
             ELSE IF s = "recovering" /\ g \in timeout
                  THEN IF Enough(online) THEN "online" ELSE "offline"
             ELSE "recovering"
        [] s = "degrading" -> IF Enough(online \ late) THEN "online"
                              ELSE IF ~Enough(online) THEN "offline" ELSE s
        [] s = "offline" -> IF Enough(online) THEN "recovering" ELSE s
        [] s = "online" -> IF ~Enough(all \ offline) THEN "offline"
                           ELSE IF ~Enough(online \ late) THEN "degrading" ELSE s

\* MUTANT: the offline proxy keeps its list of hosts
ClearOfflineKeepsList(k, G) ==
  LET off == {p \in Proxy : k.group[p] \in G /\ k.pstate[p] # "online"}
      Hosts(S) == UNION {k.refs[p] : p \in S}
  IN  [k EXCEPT
        !.unassigned = [g \in AllGroups |-> @[g] \cup Hosts(off \cap ProxiesOf(k, g))],
        !.updates = SetHostProxy(@, Hosts(off), NoProxy)]

ClearOfflineProxies(k, G) ==
  LET off == {p \in Proxy : k.group[p] \in G /\ k.pstate[p] # "online"}
      Hosts(S) == UNION {k.refs[p] : p \in S}
  IN  [k EXCEPT
        !.unassigned = [g \in AllGroups |-> @[g] \cup Hosts(off \cap ProxiesOf(k, g))],
        !.updates = SetHostProxy(@, Hosts(off), NoProxy),
        !.refs = [p \in Proxy |-> IF p \in off THEN {} ELSE @[p]]]

UpdateGroupState(k, late, timeout) ==
  LET state == [g \in Group |-> NextGroupState(k, g, late, timeout)]
      online == {g \in Group : state[g] = "online"}
  IN  ClearOfflineProxies(
        [k EXCEPT !.gstate = state,
                  !.queued = @ \cup {g \in online : k.gstate[g] # "online"}],
        online)

\* pgm_update
Updated(k, clock) ==
  LET Aged(S) == {p \in Proxy : clock.age[p] \in S}
      dead == Aged({"dead"})
  IN  UpdateGroupState(
        UpdateProxyState(UpdateProxies(k), dead, clock.alive \ dead, clock.starting),
        Aged({"late", "dead"}), clock.timeout)

\* What the clock may say at an update: the age of the last message of every
\* proxy, the offline proxies that have been alive for the failover delay,
\* whether the manager started less than that ago, the groups that have been
\* recovering for longer
Clocks(k) ==
  [age : [Proxy -> {"recent", "late", "dead"}],
   alive : SUBSET {p \in k.seen : k.pstate[p] = "offline"},
   starting : BOOLEAN,
   timeout : SUBSET {g \in Group : k.gstate[g] = "recovering"}]

-----------------------------------------------------------------------------
(* Balancing. *)

Targets(k, g) == {p \in ProxiesOf(k, g) : k.pstate[p] = "online"}
Load(k, p) == Cardinality(k.refs[p])

IsGroupBalanced(k, g) ==
  LET T == Targets(k, g)
      avg == MapThenSumSet(LAMBDA p : Load(k, p), T) \div Cardinality(T)
      Apart(x, y) == x - y >= UnbalanceLimit /\ y # 0 /\ x \div y >= UnbalanceFactor
  IN  /\ k.unassigned[g] = {}
      /\ ~ \E p \in T, q \in ProxiesOf(k, g) : Load(k, p) = 0 /\ Load(k, q) > 1
      /\ Cardinality(T) >= MinOnline =>
           \A p \in T : ~Apart(Load(k, p), avg) /\ ~Apart(avg, Load(k, p))

\* pg_cache_group_distribute_hosts: each host goes to a proxy with the least
\* hosts; load is what the proxies had before
Distributions(S, T, load) ==
  {f \in [S -> T] :
     LET n == [p \in T |-> load[p] + Cardinality({h \in S : f[h] = p})]
     IN  \A p \in Range(f), q \in T : n[p] - 1 <= n[q]}

\* pg_cache_group_unassign_excess_hosts: hosts that the proxies with the most
\* hosts give up until every proxy can have its share
Excess(k, T) ==
  LET hosts == UNION {k.refs[p] : p \in T}
      share == Max({1, Cardinality(hosts) \div Cardinality(T)})
      short == MapThenSumSet(LAMBDA p : Max({0, share - Load(k, p)}), T)
      Left(S, p) == Cardinality(k.refs[p] \ S)
      Fair(S) == \A p \in T : k.refs[p] \cap S # {} =>
                   /\ Left(S, p) >= share
                   /\ \A q \in T : Left(S, q) <= Left(S, p) + 1
  IN  {S \in SUBSET hosts :
         /\ Cardinality(S) <= short /\ Fair(S)
         /\ Cardinality(S) < short => \A p \in T : Left(S, p) <= share}

\* The results of pg_cache_reassign_hosts: hosts taken away and given
Reassignments(k, g) ==
  LET T == Targets(k, g)
      load(S) == [p \in T |-> Cardinality(k.refs[p] \ S)]
  IN  IF T = {} THEN {}
      ELSE IF k.unassigned[g] # {}
      THEN {[taken |-> {}, given |-> f] :
              f \in Distributions(k.unassigned[g], T, load({}))}
      ELSE UNION {{[taken |-> S, given |-> f] : f \in Distributions(S, T, load(S))}
                    : S \in Excess(k, T)}

Assign(k, g, r) ==
  [k EXCEPT !.unassigned[g] = {},
            !.refs = [p \in Proxy |-> @[p] \ r.taken],
            !.updates = [h \in Host |-> IF h \in DOMAIN r.given THEN r.given[h]
                                        ELSE @[h]]]

\* The caches that pg_cache_rebalance_groups may leave for one group
RebalanceGroup(k, g, due) ==
  LET Balanced(x) == [x EXCEPT !.unbalanced = @ \ {g}, !.waiting = @ \ {g}]
      Unbalanced == [k EXCEPT !.unbalanced = @ \cup {g}, !.waiting = @ \cup {g}]
  IN  IF g \notin k.queued \/ k.gstate[g] # "online" THEN {k}
      ELSE IF IsGroupBalanced(k, g) THEN {Balanced(k)}
      ELSE IF k.unassigned[g] # {}
      THEN IF Targets(k, g) = {} THEN {Unbalanced}
           ELSE {Assign(Unbalanced, g, r) : r \in Reassignments(k, g)}
      ELSE IF g \notin k.waiting \/ g \notin due \/ Targets(k, g) = {} THEN {Unbalanced}
      ELSE {Balanced(Assign(k, g, r)) : r \in Reassignments(k, g)}

RebalanceGroups(k, due) ==
  FoldSet(LAMBDA g, K : UNION {RebalanceGroup(x, g, due) : x \in K}, {k}, Group)

-----------------------------------------------------------------------------
(* Flushing. *)

\* pg_cache_get_hostmap_updates, _add_new_hostmaps and _add_deleted_hostmaps:
\* the cache k after its updates were taken, and the transaction t they make
TakeUpdates(k) ==
  LET S == {h \in Host : k.updates[h] # Keep}
      rev == k.rev + 1
      old(h) == k.hostmap[h].proxy
      del == {h \in S : k.updates[h] = NoProxy}
      set == S \ del
      mod == {h \in set : old(h) # NoProxy}
      GroupsOf(P) == {k.group[p] : p \in P \cap Proxy} \ {Gone}
      told(p) == {h \in del : old(h) \in Proxy /\ k.group[old(h)] = k.group[p]}
  IN  IF S = {} THEN [k |-> k, t |-> Nothing]
      ELSE
      [k |-> [k EXCEPT
                !.rev = rev,
                !.updates = [h \in Host |-> Keep],
                !.hostmap = [h \in Host |->
                               IF h \in del THEN NoRow
                               ELSE IF h \in set
                               THEN [proxy |-> k.updates[h], rev |-> rev] ELSE @[h]],
                !.refs = [p \in Proxy |->
                            IF k.group[p] = Gone THEN @[p]
                            ELSE @[p] \cup {h \in set : k.updates[h] = p}],
                !.lost = [p \in Proxy |->
                            IF \/ k.group[p] \notin Group \/ told(p) = {}
                               \/ k.synced[p] = "never" THEN @[p]
                            ELSE IF k.synced[p] = "day" THEN {}
                            ELSE @[p] \cup {<<h, rev>> : h \in told(p)}]],
       t |-> [mod |-> {<<h, k.updates[h]>> : h \in mod},
              new |-> {<<h, k.updates[h]>> : h \in set \ mod},
              del |-> del,
              groups |-> GroupsOf({old(h) : h \in S} \cup {k.updates[h] : h \in set}),
              rev |-> rev]]

\* pg_cache_get_group_and_proxy_updates
Dequeue(k) ==
  [k EXCEPT !.queued = {g \in @ : \/ g \in Group /\ k.gstate[g] = "recovering"
                                  \/ g \in k.unbalanced}]


\* pgm_rebalance_and_flush_updates up to the unlock
RebalanceAndTake ==
  /\ txn = Nothing /\ c.queued # {} /\ c.rev < MaxRevision
  /\ \E due \in SUBSET Group : \E k \in RebalanceGroups(c, due) :
       LET taken == TakeUpdates(Dequeue(k))
       IN  c' = taken.k /\ txn' = taken.t
  /\ loop' = "top"
  /\ UNCHANGED <<config, database, inbox, proxyside, events>>

\* The rows after the updates, deletes and inserts of a transaction: inserts
\* are left out when the host or the proxy is gone
HostExists(h) == hostGroup[h] # Gone
ProxyExists(p) == proxyGroup[p] # Gone

RowsAfter(t) ==
  LET put == {m \in t.mod : row[m[1]] # NoRow} \cup
             {m \in t.new : HostExists(m[1]) /\ ProxyExists(m[2])}
  IN  [h \in Host |->
         IF \E m \in put : m[1] = h
         THEN [proxy |-> (CHOOSE m \in put : m[1] = h)[2], rev |-> t.rev]
         ELSE IF h \in t.del THEN NoRow ELSE row[h]]

\* proxyid is a foreign key and hostid is unique in host_proxy
Refused(t) ==
  \/ \E m \in t.mod : row[m[1]] # NoRow /\ ~ProxyExists(m[2])
  \/ \E m \in t.new : row[m[1]] # NoRow /\ HostExists(m[1]) /\ ProxyExists(m[2])

\* The commit, which is retried while the database is down, and the revision
\* of the groups, which follows it under the lock
Commit ==
  /\ txn # Nothing
  /\ IF Refused(txn) THEN UNCHANGED <<database, c>>
     ELSE /\ row' = RowsAfter(txn) /\ ids' = txn.rev
          /\ c' = [c EXCEPT !.groupRev = [g \in AllGroups |->
                               IF g \in txn.groups THEN c.rev ELSE @[g]]]
  /\ txn' = Nothing
  /\ UNCHANGED <<config, inbox, loop, proxyside, events>>

\* No group is queued after an update
NothingToFlush ==
  /\ loop = "flush" /\ c.queued = {}
  /\ loop' = "top"
  /\ UNCHANGED <<config, database, inbox, c, txn, proxyside, events>>

\* pgm_update in the main loop, whose next step is a flush
Update ==
  /\ txn = Nothing /\ loop = "top" /\ c.rev < MaxRevision
  /\ loop' = "flush"
  /\ \E clock \in Clocks(c) : c' = Updated(c, clock)
  /\ UNCHANGED <<config, database, inbox, txn, proxyside, events>>

-----------------------------------------------------------------------------
(* The service thread. *)

\* pg_update_host_pgroup
HandleRelocation ==
  /\ inbox # <<>>
  /\ LET m == Head(inbox)
         h == m.host
         p == c.hostmap[h].proxy
         removed == IF m.src \in Group THEN GroupRemoveHost(c, m.src, h) ELSE c
     IN  c' = IF m.src = m.dst
              THEN IF c.hostmap[h] = NoRow THEN c
                   ELSE [c EXCEPT !.updates = SetHostProxy(@, {h}, p),
                                  !.queued = @ \cup ({c.group[q] : q \in {p} \cap Proxy}
                                                     \ {Gone})]
              ELSE IF m.dst \in Group THEN GroupAddHost(removed, m.dst, h) ELSE removed
  /\ inbox' = Tail(inbox)
  /\ UNCHANGED <<config, database, txn, loop, proxyside, events>>

\* pg_get_proxy_sync_data and zbx_proxyconfig_get_data up to it: a proxy of an
\* unknown session, or without a configuration, gets the whole configuration
RequestConfig(p) ==
  /\ reply[p] = Nothing /\ proxyGroup[p] \in Group
  /\ LET full == ~session[p] \/ known[p] = Unset
         g == c.group[p]
         rev == IF full THEN 0 ELSE known[p]
         mode == IF c.groupRev[g] = 0 THEN "none"
                 ELSE IF rev = 0 \/ rev > c.groupRev[g] \/ c.synced[p] # "recent"
                 THEN "full"
                 ELSE IF rev < c.groupRev[g] THEN "partial" ELSE "none"
         lost == {d \in c.lost[p] : d[2] > rev}
     IN  /\ reply' = [reply EXCEPT ![p] =
              [mode |-> mode, whole |-> full, rev |-> c.groupRev[g],
               since |-> IF mode = "full" THEN 0 ELSE rev, group |-> proxyGroup[p],
               del |-> IF mode = "partial" THEN {d[1] : d \in lost} ELSE {}]]
         /\ c' = [c EXCEPT
              !.lost[p] = IF mode = "partial" THEN lost ELSE @,
              !.synced[p] = IF c.groupRev[g] = 0 THEN @ ELSE "recent"]
  /\ session' = [session EXCEPT ![p] = TRUE]
  /\ UNCHANGED <<config, database, inbox, txn, loop, copy, known, events>>

\* proxyconfig_get_hostmap
HostmapRows(g, since) ==
  {h \in Host : /\ hostGroup[h] = g /\ row[h] # NoRow
                /\ row[h].rev > since /\ proxyGroup[row[h].proxy] = g}

\* proxyconfig_sync_proxy_group: the rows are read and reach the proxy.  It
\* looks for full_sync in the whole answer, not in its proxy group object, and
\* clears the rows of proxies that are not in the list of its group.
ApplyConfig(p) ==
  /\ reply[p] # Nothing
  /\ LET r == reply[p]
         sent == HostmapRows(r.group, r.since)
         stays(h) == /\ ~r.whole /\ h \notin r.del
                     /\ copy[p][h] # NoProxy => proxyGroup[copy[p][h]] = r.group
     IN  copy' = [copy EXCEPT ![p] = [h \in Host |->
                    IF r.mode = "none" /\ ~r.whole THEN @[h]
                    ELSE IF h \in sent THEN row[h].proxy
                    ELSE IF stays(h) THEN @[h] ELSE NoProxy]]
  /\ known' = [known EXCEPT ![p] = reply[p].rev]
  /\ reply' = [reply EXCEPT ![p] = Nothing]
  /\ UNCHANGED <<config, database, inbox, c, txn, loop, session, events>>

\* The answer does not arrive, or the proxy cannot store it
LoseConfig(p) ==
  /\ reply[p] # Nothing
  /\ reply' = [reply EXCEPT ![p] = Nothing]
  /\ UNCHANGED <<config, database, inbox, c, txn, loop, copy, known, session, events>>

\* A proxy that is in no group asks for its configuration and purges its copy
PurgeCopy(p) ==
  /\ reply[p] = Nothing /\ proxyGroup[p] = Standalone
  /\ known[p] # 0 \/ ~session[p]
  /\ copy' = [copy EXCEPT ![p] = [h \in Host |-> NoProxy]]
  /\ known' = [known EXCEPT ![p] = 0] /\ session' = [session EXCEPT ![p] = TRUE]
  /\ UNCHANGED <<config, database, inbox, c, txn, loop, reply, events>>

-----------------------------------------------------------------------------
(* The environment. *)

Happens == events < MaxEvents /\ events' = events + 1

\* Every edit has been seen by the manager and taken for the flush
Settled == /\ inbox = <<>> /\ c.group = proxyGroup
           /\ \A h \in Host : c.updates[h] = Keep
Idle == c.queued = {} /\ txn = Nothing /\ loop = "top"

\* The group of a host is changed (dc_host_set_proxy_group), the host is saved
\* in its group, or it is deleted with its row of host_proxy
EditHost(h) ==
  /\ hostGroup[h] # Gone /\ Happens /\ (OneAtATime => Settled)
  /\ \E g \in HostTargets :
       LET Id(x) == IF x = Gone THEN NoGroup ELSE x
       IN  /\ hostGroup' = [hostGroup EXCEPT ![h] = g]
           /\ inbox' = IF {hostGroup[h], Id(g)} = {NoGroup} THEN inbox
                       ELSE Append(inbox, [host |-> h, src |-> hostGroup[h],
                                           dst |-> Id(g)])
           /\ row' = IF g = Gone THEN [row EXCEPT ![h] = NoRow] ELSE row
  /\ UNCHANGED <<proxyGroup, ids, c, txn, loop, proxyside>>

\* The group of a proxy is changed, or it is deleted with its rows (under
\* OneAtATime not when the manager may still move hosts to or from it)
EditProxy(p) ==
  /\ Happens /\ (OneAtATime => Settled)
  /\ \E g \in Group \cup {Standalone, Gone} :
       /\ <<proxyGroup[p], g>> \in Moves
       /\ OneAtATime /\ g = Gone => Idle
       /\ proxyGroup' = [proxyGroup EXCEPT ![p] = g]
       /\ row' = IF g = Gone
                 THEN [h \in Host |-> IF row[h].proxy = p THEN NoRow ELSE row[h]]
                 ELSE row
  /\ UNCHANGED <<hostGroup, ids, inbox, c, txn, loop, proxyside>>

\* A proxy does not ask for its configuration for a day, after 25 hours its
\* session is removed
DayPasses(p) ==
  /\ c.synced[p] = "recent" /\ Happens
  /\ c' = [c EXCEPT !.synced[p] = "day"]
  /\ \E s \in {session[p], FALSE} : session' = [session EXCEPT ![p] = s]
  /\ UNCHANGED <<config, database, inbox, txn, loop, reply, copy, known>>

\* A proxy starts again: its copy of the table is in its database, the
\* revision and the session were in its memory
RestartProxy(p) ==
  /\ reply[p] = Nothing /\ Happens
  /\ known' = [known EXCEPT ![p] = Unset]
  /\ session' = [session EXCEPT ![p] = FALSE]
  /\ UNCHANGED <<config, database, inbox, c, txn, loop, reply, copy>>

-----------------------------------------------------------------------------
(* The start of the server. *)

\* pgm_init, the first pgm_update and pgm_db_get_hosts
EmptyCache ==
  [group |-> [p \in Proxy |-> Gone], members |-> [g \in AllGroups |-> {}],
   unassigned |-> [g \in AllGroups |-> {}], refs |-> [p \in Proxy |-> {}],
   hostmap |-> [h \in Host |-> NoRow], updates |-> [h \in Host |-> Keep],
   pstate |-> [p \in Proxy |-> "unknown"], seen |-> {},
   gstate |-> [g \in Group |-> "unknown"], queued |-> AllGroups,
   unbalanced |-> {}, waiting |-> {}, rev |-> ids,
   groupRev |-> [g \in AllGroups |-> 0],
   lost |-> [p \in Proxy |-> {}], synced |-> [p \in Proxy |-> "never"]]

\* A row is loaded when its proxy is in the group of the host; any other row
\* is queued for removal
GetHosts(k) ==
  LET Fits(h) == row[h] # NoRow /\ k.group[row[h].proxy] = hostGroup[h]
      In(g) == {h \in Host : hostGroup[h] = g}
      loaded == {h \in Host : Fits(h)}
      Revs(g) == {row[h].rev : h \in loaded \cap In(g)}
  IN  [k EXCEPT
        !.members = [g \in AllGroups |-> In(g)],
        !.unassigned = [g \in AllGroups |-> In(g) \ loaded],
        !.hostmap = [h \in Host |-> IF h \in loaded THEN row[h] ELSE NoRow],
        !.refs = [p \in Proxy |-> {h \in loaded : row[h].proxy = p}],
        !.updates = [h \in Host |-> IF row[h] # NoRow /\ ~Fits(h) THEN NoProxy ELSE @[h]],
        !.groupRev = [g \in AllGroups |-> IF Revs(g) = {} THEN 0 ELSE Max(Revs(g))]]

LoadedAt(clock) == GetHosts(Updated(EmptyCache, clock))

\* A host whose row is of a proxy outside its group
Misplaced(h) == /\ hostGroup[h] \in Group /\ row[h] # NoRow
                /\ proxyGroup[row[h].proxy] # hostGroup[h]

\* The server dies and starts, or another node takes over
RestartServer ==
  /\ Happens /\ (OneAtATime => \A h \in Host : ~Misplaced(h))
  /\ \E clock \in Clocks(EmptyCache) : c' = LoadedAt(clock)
  /\ inbox' = <<>> /\ txn' = Nothing /\ loop' = "top"
  /\ reply' = [p \in Watch |-> Nothing]
  /\ session' = [p \in Watch |-> FALSE]
  /\ UNCHANGED <<config, database, copy, known>>

Init ==
  /\ hostGroup = HostHome /\ proxyGroup = ProxyHome
  /\ row = [h \in Host |-> IF RowHome[h] = NoProxy THEN NoRow
                           ELSE [proxy |-> RowHome[h], rev |-> 1]]
  /\ ids = Max({row[h].rev : h \in Host})
  /\ inbox = <<>> /\ txn = Nothing /\ loop = "top" /\ events = 0
  /\ \E clock \in Clocks(EmptyCache) : c = LoadedAt(clock)
  /\ reply = [p \in Watch |-> Nothing]
  /\ copy = [p \in Watch |-> [h \in Host |-> NoProxy]]
  /\ known = [p \in Watch |-> Unset] /\ session = [p \in Watch |-> FALSE]

Manager == Update \/ NothingToFlush \/ RebalanceAndTake \/ Commit
Service == HandleRelocation \/ \E p \in Watch : RequestConfig(p)
ProxySide == \E p \in Watch : ApplyConfig(p) \/ LoseConfig(p) \/ PurgeCopy(p)
Environment == \/ \E h \in Host : EditHost(h)
               \/ \E p \in Proxy : EditProxy(p)
               \/ \E p \in Watch : DayPasses(p) \/ RestartProxy(p)
               \/ RestartServer

\* The end of the bounded behaviours
BoundReached == c.rev = MaxRevision /\ UNCHANGED vars

Next == Manager \/ Service \/ ProxySide \/ Environment \/ BoundReached

Spec == Init /\ [][Next]_vars

-----------------------------------------------------------------------------
(* Properties. *)

\* Type correctness.
TypeOK ==
  /\ hostGroup \in [Host -> Group \cup {NoGroup, Gone}]
  /\ proxyGroup \in [Proxy -> AllGroups \cup {Gone}]
  /\ row \in [Host -> [proxy : Proxy \cup {NoProxy}, rev : 0..MaxRevision]]
  /\ ids \in 0..MaxRevision /\ events \in 0..MaxEvents
  /\ loop \in {"top", "flush"}
  /\ inbox \in Seq([host : Host, src : Group \cup {NoGroup},
                    dst : Group \cup {NoGroup}])
  /\ DOMAIN c = DOMAIN EmptyCache
  /\ c.group \in [Proxy -> AllGroups \cup {Gone}]
  /\ c.members \in [AllGroups -> SUBSET Host]
  /\ c.unassigned \in [AllGroups -> SUBSET Host]
  /\ c.refs \in [Proxy -> SUBSET Host]
  /\ c.hostmap \in [Host -> [proxy : Proxy \cup {NoProxy}, rev : 0..MaxRevision]]
  /\ c.updates \in [Host -> Proxy \cup {NoProxy, Keep}]
  /\ c.pstate \in [Proxy -> {"unknown", "offline", "online"}]
  /\ c.seen \subseteq Proxy /\ c.queued \subseteq AllGroups
  /\ c.gstate \in [Group -> {"unknown", "offline", "recovering", "online",
                             "degrading"}]
  /\ c.unbalanced \subseteq Group /\ c.waiting \subseteq Group
  /\ c.rev \in 0..MaxRevision /\ c.groupRev \in [AllGroups -> 0..MaxRevision]
  /\ c.lost \in [Proxy -> SUBSET (Host \X (1..MaxRevision))]
  /\ c.synced \in [Proxy -> {"never", "recent", "day"}]
  /\ copy \in [Watch -> [Host -> Proxy \cup {NoProxy}]]
  /\ known \in [Watch -> {Unset} \cup 0..MaxRevision] /\ session \in [Watch -> BOOLEAN]

\* A host is in the host list of no more than one proxy: the list of the proxy
\* that hostmap names, which is in the group of the host.  The lists hold
\* pointers into hostmap (pg_cache.c:851), they are kept by every operation of
\* the cache, and a host that is left in a list is taken for a host of the
\* wrong group, or read after it was freed, when the proxy goes offline.
RefsTrue ==
  \A p \in Proxy : \A h \in c.refs[p] :
    c.hostmap[h].proxy = p /\ c.group[p] \in Group /\ h \in c.members[c.group[p]]

\* An online group that is not queued has no work left: every host of the
\* group is assigned to a proxy of the group that is online.  The manager looks
\* only at queued groups (pg_cache.c:669), so a host that is unassigned without
\* the group being queued would not be monitored until something else happens.
NoneForgotten ==
  \A g \in Group : c.gstate[g] = "online" /\ g \notin c.queued =>
    \A h \in c.members[g] :
      \/ \E p \in Targets(c, g) : h \in c.refs[p]
      \/ \E m \in {inbox[i] : i \in DOMAIN inbox} : m.host = h

\* When nothing is waiting to be flushed the table host_proxy holds the
\* assignments of the cache.  Later updates assume it: an assignment that is in
\* the cache is updated by host (pg_manager.c:211), which does nothing when the
\* row is missing, and one that is not is inserted (pg_manager.c:324), which
\* fails with everything else in the transaction when there is a row.
DbAgrees ==
  txn = Nothing /\ Settled =>
    \A h \in Host : HostExists(h) => row[h].proxy = c.hostmap[h].proxy

\* A proxy that the server believes to be up to date.
UpToDate(p) ==
  /\ proxyGroup[p] \in Group /\ Settled /\ txn = Nothing
  /\ session[p] /\ reply[p] = Nothing /\ c.synced[p] = "recent"
  /\ known[p] # 0 /\ known[p] = c.groupRev[proxyGroup[p]]


\* A proxy that applies a full synchronisation of the table is left with no
\* other rows.  pg_cache.c:954 promises one to a proxy that was not told of
\* deleted rows, because it never connected or was away for a day.
FullSyncExact ==
  [][\A p \in Watch : reply[p] # Nothing /\ known'[p] # known[p] =>
       (reply[p].mode = "full" =>
          \A h \in Host \ HostmapRows(reply[p].group, 0) : copy'[p][h] = NoProxy)]_vars

=============================================================================
