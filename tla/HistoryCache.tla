---------------------------- MODULE HistoryCache ----------------------------
(***************************************************************************)
(* The history cache of the server and the history syncers that empty it   *)
(* (libs/zbxcachehistory, zabbix_server/cachehistory, libs/zbxdbsyncer).   *)
(*                                                                         *)
(* Collecting processes append the records of an item to a list in shared  *)
(* memory.  An item with records is either in the history queue or in the  *)
(* batch of one history syncer, which writes the oldest record of every    *)
(* item of its batch, recalculates the triggers it could lock and then     *)
(* puts the items back.  The cache lock is held only to take a batch and   *)
(* to return it: between the two the lists grow, an operator or a disabled *)
(* item clears them, the configuration changes, and the syncer may die.    *)
(* When the server stops, the main process writes what is left.            *)
(*                                                                         *)
(* The queue is ordered by the time stamp of the oldest record of an item; *)
(* time stamps come from outside in any order, so a batch is any selection *)
(* of queued items.                                                        *)
(***************************************************************************)
EXTENDS Integers, Sequences, FiniteSets, FiniteSetsExt, Functions

CONSTANTS
  Item,          \* items
  LogItem,       \* items whose records carry metadata (lastlogsize, mtime)
  Trigger,       \* triggers
  TriggersOf,    \* [Item -> SUBSET Trigger], the triggers that use an item
  Timer,         \* triggers with a time function
  Syncer,        \* history syncers
  Flusher,       \* processes that add records to the cache
  Capacity,      \* records that fit into the history cache
  SyncMax,       \* ZBX_HC_SYNC_MAX, items in a batch
  FlushMax,      \* records that a process collects before it flushes them
  MaxRecords,    \* bound: [Item -> Nat], records of an item
  Unstable,      \* bound: items that may be disabled or deleted
  MaxToggles,    \* bound: triggers that are disabled or enabled
  MaxClears,     \* bound: history_cache_clear commands
  MaxCrashes     \* bound: history syncers that die

ASSUME HistoryCacheAssumption ==
  /\ LogItem \subseteq Item /\ Unstable \subseteq Item
  /\ Timer \subseteq Trigger /\ IsFiniteSet(Item)
  /\ IsFiniteSet(Syncer) /\ IsFiniteSet(Flusher)
  /\ TriggersOf \in [Item -> SUBSET Trigger]
  /\ {Capacity, SyncMax, FlushMax} \subseteq Nat \ {0}
  /\ MaxRecords \in [Item -> Nat]
  /\ {MaxToggles, MaxClears, MaxCrashes} \subseteq Nat

VARIABLES
  cache,      \* [items -> [data, busy, keep]], history_items
  queue,      \* [Item -> Nat], how often an item is in history_queue
  historyNum, \* history_num
  locked,     \* triggers with the locked flag
  enabled,    \* enabled triggers
  status,     \* [Item -> "active", "disabled", "deleted" or "removed"]
  flush,      \* [Flusher -> [pc, todo, added]]
  sync,       \* [Syncer -> [pc, batch, trig, hist, calc, last]]
  main,       \* "run", "stop", "shutdown", "sync" or "end": the main process
  clears,     \* history_cache_clear commands so far
  \* what has happened to the records, for the properties
  accepted,   \* [Item -> Nat], records added or merged
  value,      \* [Item -> SUBSET Nat], those of them that hold a value
  written,    \* [Item -> Seq(Nat)], values written to the database
  meta,       \* [Item -> Nat], the record whose metadata the item has
  gone,       \* [Item -> SUBSET Nat], records cleared or refused by the database
  drift,      \* what history_num counts too much
  toggled     \* triggers that were disabled or enabled

shared == <<cache, queue, historyNum>>
config == <<enabled, status, toggled>>
fate == <<accepted, value, written, meta, gone, drift>>
vars == <<shared, locked, config, flush, sync, main, clears, fate>>

IdleSyncer == [pc |-> "idle", batch |-> {}, trig |-> {}, hist |-> <<>>,
               calc |-> {}, last |-> FALSE]
IdleFlusher == [pc |-> "ready", todo |-> <<>>, added |-> 0]

Init ==
  /\ cache = <<>> /\ queue = [i \in Item |-> 0] /\ historyNum = 0
  /\ locked = {} /\ enabled = Trigger /\ toggled = {}
  /\ status = [i \in Item |-> "active"]
  /\ flush = [f \in Flusher |-> IdleFlusher]
  /\ sync = [s \in Syncer |-> IdleSyncer]
  /\ main = "run" /\ clears = 0
  /\ accepted = [i \in Item |-> 0] /\ value = [i \in Item |-> {}]
  /\ written = [i \in Item |-> <<>>] /\ meta = [i \in Item |-> 0]
  /\ gone = [i \in Item |-> {}] /\ drift = 0

-----------------------------------------------------------------------------
(* the lists of records *)

Data(i) == IF i \in DOMAIN cache THEN cache[i].data ELSE <<>>
Used(c) == SumFunction([i \in DOMAIN c |-> Len(c[i].data)])
With(f, i, x) == [j \in DOMAIN f \union {i} |-> IF j = i THEN x ELSE f[j]]
Numbers(data) == {data[k].n : k \in DOMAIN data}

(* what adding records works on: the cache and the account of the records *)
Store == [cache |-> cache, queue |-> queue, accepted |-> accepted, value |-> value,
          drift |-> drift]

(* the record that the next value or metadata update of an item becomes *)
Record(st, r) ==
  [n |-> st.accepted[r.item] + 1, val |-> r.val,
   meta |-> IF r.item \in LogItem THEN st.accepted[r.item] + 1 ELSE 0, undef |-> FALSE]
Count(st, r) ==
  [st EXCEPT !.accepted[r.item] = @ + 1,
             !.value[r.item] = IF r.val THEN @ \union {st.accepted[r.item] + 1} ELSE @]

(* MUTANT: the newest record takes the metadata even if it is the only one *)
MergesAny(st, r) ==
  ~r.val /\ r.item \in DOMAIN st.cache /\ Len(st.cache[r.item].data) > 0

(* a record without a value is not stored when the item has several records: *)
(* its metadata goes to the newest one, which no syncer is reading           *)
Merges(st, r) ==
  ~r.val /\ r.item \in DOMAIN st.cache /\ Len(st.cache[r.item].data) > 1
(* MUTANT: a record without a value is dropped with its metadata *)
MergeSkips(st, r) == [Count(st, r) EXCEPT !.drift = @ + 1]

Merge(st, r) ==
  [Count(st, r) EXCEPT
     !.cache[r.item].data[Len(st.cache[r.item].data)].meta =
        IF r.item \in LogItem THEN Record(st, r).meta ELSE @,
     !.drift = @ + 1]

(* MUTANT: every record queues its item *)
InsertQueues(st, r, known) ==
  [Count(st, r) EXCEPT
     !.cache = IF known THEN [st.cache EXCEPT ![r.item].data = Append(@, Record(st, r))]
               ELSE With(st.cache, r.item,
                         [data |-> <<Record(st, r)>>, busy |-> FALSE, keep |-> TRUE]),
     !.queue[r.item] = @ + 1]

(* stores a record: an item that had none enters the queue *)
Insert(st, r, known) ==
  [Count(st, r) EXCEPT
     !.cache = IF known THEN [st.cache EXCEPT ![r.item].data = Append(@, Record(st, r))]
               ELSE With(st.cache, r.item,
                         [data |-> <<Record(st, r)>>, busy |-> FALSE, keep |-> TRUE]),
     !.queue[r.item] = IF known /\ st.cache[r.item].data # <<>> THEN @ ELSE @ + 1]
Known(st, r) == r.item \in DOMAIN st.cache

(* adds the k-th record, unless an earlier one did not fit *)
AddOne(p, k, r) ==
  CASE p.added < k - 1 -> p
    [] p.added >= k - 1 /\ Merges(p.st, r) -> [st |-> Merge(p.st, r), added |-> k]
    [] p.added >= k - 1 /\ ~Merges(p.st, r) /\ Used(p.st.cache) < Capacity ->
         [st |-> Insert(p.st, r, Known(p.st, r)), added |-> k]
    [] OTHER -> p

(* adds records until all are added or one does not fit *)
Absorb(start, records) ==
  LET step[k \in 0 .. Len(records)] ==
        IF k = 0 THEN [st |-> start, added |-> 0]
        ELSE AddOne(step[k - 1], k, records[k])
  IN step[Len(records)]

(* the records of an item except the first and the last are cleared; a single *)
(* one is left, and with it the item goes when it has been processed          *)
ClearMiddle(h) ==
  CASE Len(h.data) = 0 -> h
    [] Len(h.data) = 1 -> [h EXCEPT !.keep = FALSE]
    [] OTHER -> [h EXCEPT !.data = <<h.data[1], h.data[Len(h.data)]>>]
Cleared(c, S) == [i \in DOMAIN c |-> IF i \in S THEN ClearMiddle(c[i]) ELSE c[i]]

(* the items of a batch go back: an item that could not be locked keeps its *)
(* records, any other one loses the record that was processed               *)
Available(c, batch) == {i \in batch : ~c[i].busy}
Removed(c, batch) == {i \in Available(c, batch) : ~c[i].keep}
(* MUTANT: a busy item loses a record as well *)
PushItemFallsThrough(h) == [h EXCEPT !.busy = FALSE, !.data = Tail(@)]
(* MUTANT: the record that was processed stays *)
PushItemKeeps(h) == IF h.busy THEN [h EXCEPT !.busy = FALSE] ELSE h
(* MUTANT: a busy item stays busy *)
PushItemStaysBusy(h) == IF h.busy THEN h ELSE [h EXCEPT !.data = Tail(@)]

PushItem(h) == IF h.busy THEN [h EXCEPT !.busy = FALSE] ELSE [h EXCEPT !.data = Tail(@)]
Pushed(c, batch) ==
  [i \in DOMAIN c \ Removed(c, batch) |-> IF i \in batch THEN PushItem(c[i]) ELSE c[i]]
Push(c, batch) ==
  /\ cache' = Pushed(c, batch)
  /\ queue' = [i \in Item |->
                 IF i \in (batch \ Removed(c, batch)) /\ cache'[i].data # <<>>
                 THEN queue[i] + 1 ELSE queue[i]]

(* the records that leave the cache between c and d *)
Cut(c, d) ==
  [i \in Item |-> IF i \notin DOMAIN c THEN {}
                  ELSE Numbers(c[i].data) \ IF i \in DOMAIN d THEN Numbers(d[i].data) ELSE {}]
(* what history_num loses with them: an item that is removed counts its      *)
(* other records here, its first one is counted with those of the batch      *)
CutByClear(c, S) == Used(c) - Used(Cleared(c, S))
(* MUTANT: the first record of a removed item is counted twice *)
CutByPushAll(c, batch) ==
  Cardinality(Available(c, batch))
    + SumFunction([i \in Removed(c, batch) |-> Len(c[i].data)])

CutByPush(c, batch) ==
  Cardinality(Available(c, batch))
    + SumFunction([i \in Removed(c, batch) |-> Len(c[i].data) - 1])
Discarded(c, batch) ==
  [i \in Item |-> IF i \in Removed(c, batch) THEN Numbers(Tail(c[i].data)) ELSE {}]

-----------------------------------------------------------------------------
(* collecting processes *)

(* the records that a process has collected since its last flush *)
Batches ==
  {b \in UNION {[1 .. k -> [item : Item, val : BOOLEAN]] : k \in 1 .. FlushMax} :
     /\ \A k \in DOMAIN b : b[k].val \/ b[k].item \in LogItem
     /\ \A i \in Item :
          Cardinality({k \in DOMAIN b : b[k].item = i})
            <= MaxRecords[i] - accepted[i]
               - SumFunction([f \in Flusher |->
                    Cardinality({k \in DOMAIN flush[f].todo : flush[f].todo[k].item = i})])}

(* what is left to add waits until the syncers have made room *)
Added(f, before, records, result) ==
  /\ cache' = result.st.cache /\ queue' = result.st.queue
  /\ accepted' = result.st.accepted /\ value' = result.st.value
  /\ drift' = result.st.drift
  /\ \E added \in {before + result.added}, left \in {Len(records) - result.added} :
       IF left = 0
       THEN /\ flush' = [flush EXCEPT ![f] = IdleFlusher]
            /\ historyNum' = historyNum + added
       ELSE /\ flush' = [flush EXCEPT ![f] =
                  [pc |-> "waiting", added |-> added,
                   todo |-> SubSeq(records, result.added + 1, Len(records))]]
            /\ UNCHANGED historyNum
  /\ UNCHANGED <<locked, config, sync, main, clears, written, meta, gone>>

Flush(f) ==
  /\ flush[f].pc = "ready"
  /\ \E records \in Batches : Added(f, 0, records, Absorb(Store, records))

(* MUTANT: the item is not looked up again: it is new if it was new before the wait *)
FlushRetryStale(f) ==
  /\ flush[f].pc = "waiting"
  /\ Used(cache) < Capacity
  /\ \E first \in {Head(flush[f].todo)}, rest \in {Tail(flush[f].todo)} :
       Added(f, flush[f].added + 1, rest, Absorb(Insert(Store, first, FALSE), rest))

(* the cache was full: the record is stored even if it could be merged now, *)
(* and the item is looked up again                                          *)
FlushRetry(f) ==
  /\ flush[f].pc = "waiting"
  /\ Used(cache) < Capacity
  /\ \E first \in {Head(flush[f].todo)}, rest \in {Tail(flush[f].todo)} :
       Added(f, flush[f].added + 1, rest,
             Absorb(Insert(Store, first, Known(Store, first)), rest))

-----------------------------------------------------------------------------
(* history syncers *)

Goto(s, pc) == [sync[s] EXCEPT !.pc = pc]
Usable(s) == Available(cache, sync[s].batch)
Queued == {i \in Item : queue[i] > 0}
Batch == Min({SyncMax, Cardinality(Queued)})

Pop(s) ==
  /\ sync[s].pc = "idle"
  /\ \E batch \in SUBSET Queued :
       /\ Cardinality(batch) = Batch
       /\ queue' = [i \in Item |-> IF i \in batch THEN queue[i] - 1 ELSE queue[i]]
       /\ sync' = [sync EXCEPT ![s] =
             [Goto(s, IF batch = {} THEN "timers" ELSE "popped") EXCEPT
                !.batch = batch]]
  /\ UNCHANGED <<cache, historyNum, locked, config, flush, main, clears, fate>>

(* an item is busy when one of its triggers is locked, by this syncer or by *)
(* another one; a record without a value locks nothing                      *)
EnabledTriggers(i) ==
  IF status[i] \in {"active", "disabled"} THEN TriggersOf[i] \cap enabled ELSE {}
Lockable(i) ==
  IF cache[i].data[1].val THEN EnabledTriggers(i) ELSE {}
(* MUTANT: only the triggers that this syncer has locked are looked at *)
LockOneOwn(p, i) ==
  IF Lockable(i) \cap p.trig # {} THEN [p EXCEPT !.busy = @ \union {i}]
  ELSE [p EXCEPT !.trig = @ \union Lockable(i)]

LockOne(p, i) ==
  IF Lockable(i) \cap (locked \union p.trig) # {} THEN [p EXCEPT !.busy = @ \union {i}]
  ELSE [p EXCEPT !.trig = @ \union Lockable(i)]
LockItems(order) ==
  LET step[k \in 0 .. Len(order)] ==
        IF k = 0 THEN [trig |-> {}, busy |-> {}] ELSE LockOne(step[k - 1], order[k])
  IN step[Len(order)]
Orders(S) == {o \in [1 .. Cardinality(S) -> S] : Range(o) = S}

LockTriggers(s) ==
  /\ sync[s].pc = "popped"
  /\ \E r \in {LockItems(order) : order \in Orders(sync[s].batch)} :
       /\ locked' = locked \union r.trig
       /\ cache' = [i \in DOMAIN cache |->
                      IF i \in r.busy THEN [cache[i] EXCEPT !.busy = TRUE] ELSE cache[i]]
       /\ sync' = [sync EXCEPT ![s] =
             [Goto(s, IF r.busy = sync[s].batch THEN "busy" ELSE "locked") EXCEPT
                !.trig = r.trig]]
  /\ UNCHANGED <<queue, historyNum, config, flush, main, clears, fate>>

(* all items are locked by other syncers *)
PushBusy(s) ==
  /\ sync[s].pc = "busy"
  /\ Push(cache, sync[s].batch)
  /\ sync' = [sync EXCEPT ![s] = [Goto(s, "timers") EXCEPT !.batch = {}]]
  /\ UNCHANGED <<historyNum, locked, config, flush, main, clears, fate>>

(* The records are read without a lock.  The record of an item that is not *)
(* active any more will not be written, and its other records are cleared. *)
Unwanted(S) == {i \in S : status[i] # "active"}
Account(lost) == gone' = [i \in Item |-> gone[i] \union lost[i]]
PrepareHistory(s) ==
  /\ sync[s].pc = "locked"
  /\ \E off \in {Unwanted(Usable(s))} :
       /\ cache' = Cleared(cache, off)
       /\ historyNum' = historyNum - CutByClear(cache, off)
       /\ Account(Cut(cache, cache'))
       /\ sync' = [sync EXCEPT ![s] =
             [Goto(s, "prepared") EXCEPT
                !.hist = [i \in Usable(s) |-> [cache[i].data[1] EXCEPT !.undef = i \in off]]]]
  /\ UNCHANGED <<queue, locked, config, flush, main, clears,
                 accepted, value, written, meta, drift>>

(* what the database gets from a set of records, and what the items get *)
AddHistory(hist) ==
  \E ok \in {{i \in DOMAIN hist : ~hist[i].undef}} :
    /\ written' = [i \in Item |-> IF i \in ok /\ hist[i].val
                                  THEN Append(written[i], hist[i].n) ELSE written[i]]
    /\ meta' = [i \in Item |-> IF i \in ok /\ hist[i].meta # 0 THEN hist[i].meta ELSE meta[i]]
Undef(hist) == [i \in Item |-> {hist[j].n : j \in {k \in DOMAIN hist : k = i /\ hist[k].undef}}]
All(hist) == [i \in Item |-> {hist[j].n : j \in {i} \cap DOMAIN hist}]

WriteHistory(s) ==
  /\ sync[s].pc = "prepared"
  /\ AddHistory(sync[s].hist)
  /\ Account(Undef(sync[s].hist))
  /\ sync' = [sync EXCEPT ![s] = Goto(s, "timers")]
  /\ UNCHANGED <<shared, locked, config, flush, main, clears, accepted, value, drift>>
(* the database refuses the values: no triggers either *)
WriteFails(s) ==
  /\ sync[s].pc = "prepared"
  /\ Account(All(sync[s].hist))
  /\ sync' = [sync EXCEPT ![s] = Goto(s, "unlock")]
  /\ UNCHANGED <<shared, locked, config, flush, main, clears,
                 accepted, value, written, meta, drift>>

(* the timers that are due lock their triggers, unless the server stops;    *)
(* then the triggers of the items and of the locked timers are recalculated *)
GetTimers(s) ==
  /\ sync[s].pc = "timers"
  /\ \E due \in SUBSET IF main = "shutdown" THEN {} ELSE (Timer \cap enabled) \ locked :
       /\ locked' = locked \union due
       /\ sync' = [sync EXCEPT ![s] =
             [Goto(s, "unlock") EXCEPT
                !.trig = @ \union due,
                !.calc = due \union
                   UNION {EnabledTriggers(i) :
                            i \in {j \in DOMAIN sync[s].hist : sync[s].hist[j].val}}]]
  /\ UNCHANGED <<shared, config, flush, main, clears, fate>>

(* MUTANT: a syncer does not notice that it has been told to stop *)
RoundForever(r, more) ==
  [r EXCEPT !.pc = "idle", !.batch = {}, !.hist = <<>>, !.trig = {}, !.calc = {}]

(* A syncer goes on at once when there is more to do.  One that has been told *)
(* to stop looks at the queue once more.                                       *)
Round(r, more) ==
  [r EXCEPT !.pc = IF ~more /\ r.last THEN "ended" ELSE "idle",
            !.last = @ \/ (~more /\ main = "shutdown"),
            !.batch = {}, !.hist = <<>>, !.trig = {}, !.calc = {}]

UnlockTriggers(s) ==
  /\ sync[s].pc = "unlock"
  /\ locked' = locked \ sync[s].trig
  /\ sync' = [sync EXCEPT ![s] =
        IF sync[s].batch = {} THEN Round(@, FALSE)
        ELSE [Goto(s, "push") EXCEPT !.trig = {}, !.calc = {}]]
  /\ UNCHANGED <<shared, config, flush, main, clears, fate>>

(* more is done at once if enough of the batch was not locked *)
PushItems(s) ==
  /\ sync[s].pc = "push"
  /\ Push(cache, sync[s].batch)
  /\ historyNum' = historyNum - CutByPush(cache, sync[s].batch)
  /\ Account(Discarded(cache, sync[s].batch))
  /\ sync' = [sync EXCEPT ![s] = Round(@,
        /\ \E i \in Item : queue'[i] > 0
        /\ (100 * Cardinality(Usable(s))) \div Cardinality(@.batch) >= 10)]
  /\ UNCHANGED <<locked, config, flush, main, clears, accepted, value, written, meta, drift>>

-----------------------------------------------------------------------------
(* configuration, operator, shutdown *)

Running == main \in {"run", "stop", "shutdown"}

DisableItem(i) ==
  /\ Running /\ i \in Unstable /\ status[i] = "active"
  /\ status' = [status EXCEPT ![i] = "disabled"]
  /\ UNCHANGED <<enabled, toggled, shared, locked, flush, sync, main, clears, fate>>
(* the configuration syncer deletes an item, later it tells the history cache *)
DeleteItem(i) ==
  /\ Running /\ i \in Unstable /\ status[i] \in {"active", "disabled"}
  /\ status' = [status EXCEPT ![i] = "deleted"]
  /\ UNCHANGED <<enabled, toggled, shared, locked, flush, sync, main, clears, fate>>
RemoveItem(i) ==
  /\ Running /\ status[i] = "deleted"
  /\ status' = [status EXCEPT ![i] = "removed"]
  /\ cache' = IF Data(i) = <<>> THEN [j \in DOMAIN cache \ {i} |-> cache[j]]
              ELSE [cache EXCEPT ![i].keep = FALSE]
  /\ UNCHANGED <<enabled, toggled, queue, historyNum, locked, flush, sync, main, clears, fate>>
ToggleTrigger(t) ==
  /\ Running /\ Cardinality(toggled) < MaxToggles
  /\ enabled' = IF t \in enabled THEN enabled \ {t} ELSE enabled \union {t}
  /\ toggled' = toggled \union {t}
  /\ UNCHANGED <<status, shared, locked, flush, sync, main, clears, fate>>

(* the runtime control command history_cache_clear *)
HistoryCacheClear(i) ==
  /\ Running /\ clears < MaxClears /\ i \in DOMAIN cache
  /\ clears' = clears + 1
  /\ cache' = Cleared(cache, {i})
  /\ historyNum' = historyNum - CutByClear(cache, {i})
  /\ Account(Cut(cache, cache'))
  /\ UNCHANGED <<queue, locked, config, flush, sync, main,
                 accepted, value, written, meta, drift>>

Terminate ==
  /\ main = "run" /\ main' = "stop"
  /\ UNCHANGED <<shared, locked, config, flush, sync, clears, fate>>
(* a process ends its work; one that waits for room is killed in the end *)
EndFlusher(f) ==
  /\ main \in {"stop", "shutdown"} /\ flush[f].pc # "ended"
  /\ flush' = [flush EXCEPT ![f] = [IdleFlusher EXCEPT !.pc = "ended"]]
  /\ drift' = drift - flush[f].added
  /\ UNCHANGED <<shared, locked, config, sync, main, clears,
                 accepted, value, written, meta, gone>>
(* the history syncers are told to shut down *)
ShutdownSyncers ==
  /\ main = "stop" /\ main' = "shutdown"
  /\ UNCHANGED <<shared, locked, config, flush, sync, clears, fate>>
(* the server does not go on without one of its processes *)
Dead == {s \in Syncer : sync[s].pc = "dead"}
SyncerDies(s) ==
  /\ Running /\ sync[s].pc \notin {"ended", "dead"} /\ Cardinality(Dead) < MaxCrashes
  /\ sync' = [sync EXCEPT ![s] = [Goto(s, "dead") EXCEPT !.calc = {}]]
  /\ main' = IF main = "run" THEN "stop" ELSE main
  /\ UNCHANGED <<shared, locked, config, flush, clears, fate>>

(* all other processes have ended: everything that has records is queued *)
FullSync ==
  /\ main = "shutdown"
  /\ \A f \in Flusher : flush[f].pc = "ended"
  /\ \A s \in Syncer : sync[s].pc \in {"ended", "dead"}
  /\ main' = "sync"
  /\ locked' = {}
  /\ cache' = [i \in DOMAIN cache |-> [cache[i] EXCEPT !.busy = @ /\ cache[i].data = <<>>]]
  /\ queue' = [i \in Item |-> IF Data(i) = <<>> THEN 0 ELSE 1]
  /\ sync' = [s \in Syncer |-> [sync[s] EXCEPT !.batch = {}, !.trig = {}, !.hist = <<>>]]
  /\ UNCHANGED <<historyNum, config, flush, clears, fate>>

(* the main process does what a history syncer does, without triggers *)
FullSyncRound ==
  /\ main = "sync"
  /\ IF Queued = {} THEN main' = "end" /\ UNCHANGED <<shared, written, meta, gone>>
     ELSE \E batch \in SUBSET Queued :
            /\ Cardinality(batch) = Batch
            /\ \E hist \in {[i \in Available(cache, batch) |-> 
                       [cache[i].data[1] EXCEPT !.undef = status[i] # "active"]]},
                  off \in {Unwanted(batch)}, ok \in BOOLEAN :
                 /\ IF ok THEN AddHistory(hist) ELSE UNCHANGED <<written, meta>>
                 /\ Account([i \in Item |->
                       Cut(cache, Cleared(cache, off))[i]
                         \union Discarded(Cleared(cache, off), batch)[i]
                         \union IF ok THEN Undef(hist)[i] ELSE All(hist)[i]])
                 /\ cache' = Pushed(Cleared(cache, off), batch)
                 /\ queue' = [i \in Item |->
                       IF i \in DOMAIN cache' /\ cache'[i].data # <<>> THEN 1 ELSE 0]
                 /\ historyNum' = historyNum - CutByClear(cache, off)
                                   - CutByPush(Cleared(cache, off), batch)
            /\ UNCHANGED main
  /\ UNCHANGED <<locked, config, flush, sync, clears, accepted, value, drift>>

Ended == main = "end" /\ UNCHANGED vars

SyncerStep(s) ==
  \/ Pop(s) \/ LockTriggers(s) \/ PushBusy(s) \/ PrepareHistory(s)
  \/ WriteHistory(s) \/ WriteFails(s) \/ GetTimers(s) \/ UnlockTriggers(s)
  \/ PushItems(s)
MainStep == ShutdownSyncers \/ FullSync \/ FullSyncRound
Next ==
  \/ \E s \in Syncer : SyncerStep(s) \/ SyncerDies(s)
  \/ \E f \in Flusher : Flush(f) \/ FlushRetry(f) \/ EndFlusher(f)
  \/ \E i \in Item : DisableItem(i) \/ DeleteItem(i) \/ RemoveItem(i) \/ HistoryCacheClear(i)
  \/ \E t \in Trigger : ToggleTrigger(t)
  \/ Terminate \/ MainStep \/ Ended

Spec == Init /\ [][Next]_vars
(* processes that are alive go on, and an exit is carried through *)
Fairness ==
  /\ \A s \in Syncer : WF_vars(SyncerStep(s))
  /\ \A f \in Flusher : WF_vars(FlushRetry(f)) /\ WF_vars(EndFlusher(f))
  /\ WF_vars(MainStep)
FairSpec == Spec /\ Fairness

-----------------------------------------------------------------------------
(* properties *)

(* Every part of the state has its type: the queue, the lists, the batches. *)
Records == [n : Nat \ {0}, val : BOOLEAN, meta : Nat, undef : BOOLEAN]
TypeOK ==
  /\ DOMAIN cache \subseteq Item
  /\ \A i \in DOMAIN cache :
       /\ cache[i].data \in Seq(Records)
       /\ cache[i].busy \in BOOLEAN /\ cache[i].keep \in BOOLEAN
  /\ Used(cache) <= Capacity
  /\ queue \in [Item -> {0, 1}] /\ historyNum \in Int
  /\ locked \subseteq Trigger /\ enabled \subseteq Trigger /\ toggled \subseteq Trigger
  /\ status \in [Item -> {"active", "disabled", "deleted", "removed"}]
  /\ \A f \in Flusher :
       /\ flush[f].pc \in {"ready", "waiting", "ended"} /\ flush[f].added \in Nat
       /\ flush[f].todo \in Seq([item : Item, val : BOOLEAN])
  /\ \A s \in Syncer :
       /\ sync[s].pc \in {"idle", "popped", "busy", "locked", "prepared", "timers", "unlock",
                          "push", "ended", "dead"}
       /\ sync[s].batch \subseteq Item
       /\ sync[s].trig \subseteq Trigger /\ sync[s].calc \subseteq Trigger
       /\ DOMAIN sync[s].hist \subseteq sync[s].batch
  /\ main \in {"run", "stop", "shutdown", "sync", "end"} /\ clears \in Nat

(* An item with records is in the history queue once or in the batch of one *)
(* history syncer, and an item without records is in neither: two syncers   *)
(* never process the same item, and no item is forgotten                    *)
(* (hc_add_item_values, zbx_hc_pop_items, zbx_hc_push_items).               *)
OneOwner ==
  \A i \in Item :
    queue[i] + Cardinality({s \in Syncer : i \in sync[s].batch})
      = IF Data(i) = <<>> THEN 0 ELSE 1

(* From the moment a syncer reads the records of its batch until it pushes   *)
(* the batch, nobody changes the oldest record of these items, although they *)
(* are read without a lock while new records arrive and items are cleared    *)
(* (the comment in zbx_hc_get_item_values).                                  *)
ReadStable ==
  \A s \in Syncer : \A i \in DOMAIN sync[s].hist :
    /\ Data(i) # <<>>
    /\ [Data(i)[1] EXCEPT !.undef = sync[s].hist[i].undef] = sync[s].hist[i]

(* Two syncers never recalculate the same trigger at the same time, unless  *)
(* the trigger was disabled or enabled meanwhile                            *)
(* (zbx_dc_config_lock_triggers_by_history_items and its comment).          *)
TriggerExclusive ==
  \A s, t \in Syncer : s # t => sync[s].calc \cap sync[t].calc \subseteq toggled

(* The values of an item are written in the order in which they were added, *)
(* each of them once; after the death of a syncer the value that it was     *)
(* writing may be written once more.                                        *)
WrittenOnce ==
  \A i \in Item : \A k, l \in DOMAIN written[i] :
    k < l => \/ written[i][k] < written[i][l]
             \/ written[i][k] = written[i][l] /\ l = k + 1 /\ Dead # {}

(* A value that was added to the cache is in it until it has been written, *)
(* unless it was cleared or refused by the database; when the server has   *)
(* ended, the cache is empty, whoever died on the way (DCsync_all).        *)
NoLoss ==
  /\ \A i \in Item :
       value[i] \subseteq Range(written[i]) \union gone[i] \union Numbers(Data(i))
  /\ main = "end" => \A i \in Item : Data(i) = <<>>

(* When the records of an item have been processed and none was cleared or  *)
(* refused, the item has the metadata of the last record, wherever that was *)
(* merged (the metadata branch of hc_add_item_values).                      *)
MetaKept ==
  \A i \in LogItem :
    Data(i) = <<>> /\ gone[i] = {} => meta[i] = accepted[i]

(* history_num is the number of records in the cache plus the number of      *)
(* records that were counted and never stored; it lags behind while a        *)
(* process waits for room, and it never loses count when items are cleared,  *)
(* removed or processed at the same time (zbx_dc_flush_history,              *)
(* zbx_hc_clear_item_middle, hc_remove_item, zbx_sync_history_cache_server). *)
CounterTrue ==
  historyNum + SumFunction([f \in Flusher |-> flush[f].added]) = Used(cache) + drift

(* A record does not stay in the cache for ever: not when its item is busy *)
(* because of a trigger, nor when the cache is full.                       *)
Processed ==
  \A i \in Item : \A n \in 1 .. MaxRecords[i] :
    (n \in Numbers(Data(i))) ~> (n \notin Numbers(Data(i)))

(* A server that stops comes to its end, and the cache with it. *)
ShutdownEnds == (main = "stop") ~> (main = "end")
=============================================================================
