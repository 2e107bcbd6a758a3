---------------------------- MODULE ProxyBuffer ----------------------------
(***************************************************************************)
(* The history stream of the Zabbix proxy data buffer                      *)
(* (src/libs/zbxproxybuffer): history syncers write collected values, the  *)
(* data sender uploads them to the server.  The buffer lives in shared     *)
(* memory under one mutex and moves between memory and database; the       *)
(* database is used outside of the mutex.                                  *)
(*                                                                         *)
(* A value is a number, in the order in which the values are collected; a  *)
(* row is a value with the identifier given to it by the buffer.           *)
(***************************************************************************)
EXTENDS Integers, FiniteSets

CONSTANTS
  Writers,    \* history syncers
  Modes,      \* values of ProxyBufferMode
  SerialDb,   \* TRUE for SQLite: one mutex serializes all transactions
  Capacity,   \* rows that fit in the memory buffer
  Limit,      \* ZBX_MAX_HRECORDS: rows of an upload
  Events,     \* optional events of a proxy in a mode, see AllEvents
  Syncers,    \* the history syncers of a proxy in a mode
  MaxBatch,   \* bound on the values a syncer writes at once
  MaxValues,  \* bound on the values collected
  MaxStarts   \* bound on the starts of the proxy

VARIABLES
  pb,             \* the state of the buffer in shared memory, zbx_pb_t
  history,        \* its memory rows
  lock,           \* who waits for the database while holding the mutex
  table,          \* committed rows of proxy_history
  lastid_stored,  \* ids.nextid of proxy_history.history_lastid
  nextid,         \* the identifier cache of proxy_history
  txn,            \* who is in a transaction of a serialized database
  handles,        \* [Writers -> zbx_pb_history_data_t]
  sender,         \* proxy_data_sender
  server,         \* the session of the proxy on the server
  proxy,          \* is the proxy running, exiting or off
  nextvalue,      \* the next value to be collected
  discarded       \* values dropped where the code means to drop them

vars == <<pb, history, lock, table, lastid_stored, nextid, txn, handles,
          sender, server, proxy, nextvalue, discarded>>
stored == <<table, lastid_stored>>
outside == <<server, proxy, nextvalue>>

(***************************************************************************)
(*   age      memory rows exceed ProxyMemoryBufferAge                      *)
(*   offline  memory rows exceed ProxyOfflineBuffer                        *)
(*   dbfail   a transaction fails for good and is rolled back              *)
(*   nosend   an upload does not reach the server                          *)
(*   noreply  an upload reaches the server, the response is lost           *)
(*   slow     connecting to the server takes longer than the timeout       *)
(*   exit     the proxy is stopped                                         *)
(*   crash    the proxy is killed                                          *)
(***************************************************************************)
AllEvents ==
  {"age", "offline", "dbfail", "nosend", "noreply", "slow", "exit", "crash"}

ASSUME BufferAssumption ==
  /\ Modes \subseteq {"disk", "memory", "hybrid"}
  /\ SerialDb \in BOOLEAN
  /\ Capacity \in Nat \ {0} /\ Limit \in Nat \ {0}
  /\ Events \in [Modes -> SUBSET AllEvents]
  /\ Syncers \in [Modes -> SUBSET Writers]
  /\ MaxBatch \in Nat /\ MaxValues \in Nat /\ MaxStarts \in Nat

(* what a syncer is not confused with in lock and txn *)
ASSUME WriterAssumption == Writers \cap {"free", "sender"} = {}

Occurs(event) == event \in Events[proxy.mode]

States == {"database", "database_memory", "memory", "memory_database"}
Row == [id : Nat, value : Nat]
Free == "free"

(* MUTANT: a transitional state is used as a place for data. *)
DstSame(state) == state

(* pb_dst and pb_src: where data goes to and is taken from in a state *)
Dst(state) == IF state \in {"database_memory", "memory"} THEN "memory" ELSE "database"
Src(state) == IF state \in {"memory", "memory_database"} THEN "memory" ELSE "database"

Larger(a, b) == IF a < b THEN b ELSE a
LastId(rows) == IF rows = {} THEN 0
                ELSE (CHOOSE r \in rows : \A q \in rows : q.id <= r.id).id
Values(rows) == {r.value : r \in rows}

(* the n rows with the smallest identifiers *)
First(rows, n) == {r \in rows : Cardinality({q \in rows : q.id < r.id}) < n}

IdleHandle == [pc |-> "idle", state |-> "database", rows |-> {}, lastid |-> 0]
IdleSender == [pc |-> "idle", rows |-> {}, more |-> FALSE, lastid |-> 0,
               gapid |-> 0, waiting |-> {}]

---------------------------------------------------------------------------
(* Start and exit. *)

(* the buffer as pb_create allocates it and pb_init_state leaves it *)
InitialPb(mode, rows, lastid) ==
  [mode                |-> mode,
   db_handles_num      |-> 0,
   history_lastid_db   |-> IF mode = "memory" THEN 0 ELSE LastId(rows),
   history_lastid_sent |-> IF mode = "memory" THEN 0
                           ELSE IF lastid < LastId(rows) THEN lastid ELSE LastId(rows),
   state               |-> IF mode = "memory" THEN "memory"
                           ELSE IF mode = "disk" \/ lastid < LastId(rows)
                             THEN "database" ELSE "memory"]

Init ==
  \E mode \in Modes :
    /\ pb = InitialPb(mode, {}, 0)
    /\ proxy = [pc |-> "running", mode |-> mode, starts |-> 1]
    /\ history = {} /\ table = {} /\ lastid_stored = 0 /\ nextid = 1
    /\ lock = Free /\ txn = Free
    /\ handles = [w \in Writers |-> IdleHandle]
    /\ sender = IdleSender
    /\ server = [last_id |-> 0, received |-> {}]
    /\ nextvalue = 1 /\ discarded = {}

(* a new session token, an empty identifier cache *)
Start ==
  /\ proxy.pc = "off"
  /\ pb' = InitialPb(proxy.mode, table, lastid_stored)
  /\ lastid_stored' = IF proxy.mode # "memory" /\ lastid_stored > LastId(table)
                        THEN LastId(table) ELSE lastid_stored
  /\ nextid' = LastId(table) + 1
  /\ server' = [server EXCEPT !.last_id = 0]
  /\ proxy' = [proxy EXCEPT !.pc = "running", !.starts = @ + 1]
  /\ UNCHANGED <<history, lock, table, txn, handles, sender, nextvalue, discarded>>

(* zbx_pb_disable, before the child processes are told to exit *)
Disable ==
  /\ Occurs("exit") /\ proxy.pc = "running" /\ proxy.starts < MaxStarts
  /\ lock = Free
  /\ pb' = IF pb.mode = "hybrid" THEN [pb EXCEPT !.state = "database", !.mode = "disk"]
                                 ELSE pb
  /\ proxy' = [proxy EXCEPT !.pc = "exiting"]
  /\ UNCHANGED <<history, lock, stored, nextid, txn, handles, sender, server,
                 nextvalue, discarded>>

(* a transaction is retried until it is committed, or fails for good *)
DbOutcomes == {TRUE} \union (IF Occurs("dbfail") THEN {FALSE} ELSE {})

(* what pb_flush leaves in the database *)
Flushed == table \union history

FlushedLastid ==
  IF history # {} /\ pb.history_lastid_sent # 0 THEN pb.history_lastid_sent
                                                ELSE lastid_stored

(* zbx_pb_flush, once the children have exited and the caches are synced *)
FlushOnExit ==
  /\ proxy.pc = "exiting"
  /\ \A w \in Writers : handles[w].pc = "idle"
  /\ sender.pc = "idle"
  /\ \E committed \in DbOutcomes :
       IF pb.mode # "memory" /\ committed
         THEN table' = Flushed /\ lastid_stored' = FlushedLastid /\ UNCHANGED discarded
         ELSE discarded' = discarded \union Values(history) /\ UNCHANGED stored
  /\ history' = {}
  /\ proxy' = [proxy EXCEPT !.pc = "off"]
  /\ UNCHANGED <<pb, lock, nextid, txn, handles, sender, server, nextvalue>>

(* everything that is not in the database is gone *)
Crash ==
  /\ Occurs("crash") /\ proxy.pc # "off" /\ proxy.starts < MaxStarts
  /\ discarded' = discarded \union Values(history)
                    \union UNION {Values(handles[w].rows) : w \in Writers}
  /\ history' = {} /\ lock' = Free /\ txn' = Free
  /\ handles' = [w \in Writers |-> IdleHandle]
  /\ sender' = IdleSender
  /\ proxy' = [proxy EXCEPT !.pc = "off"]
  /\ UNCHANGED <<pb, stored, nextid, server, nextvalue>>

---------------------------------------------------------------------------
(* The history syncers. *)

Running == proxy.pc # "off"
SetHandle(w, h) == handles' = [handles EXCEPT ![w] = h]

(* the database library serves a process when no other has the mutex *)
DbFree(p) == SerialDb => txn \in {Free, p}

(* zbx_pb_history_open, and the values written to the new handle *)
Open(w) ==
  /\ Running /\ handles[w].pc = "idle" /\ lock = Free
  /\ w \in Syncers[proxy.mode]
  /\ \E n \in 0..MaxBatch :
       /\ nextvalue + n <= MaxValues + 1
       /\ nextvalue' = nextvalue + n
       /\ SetHandle(w, [pc |-> "open", state |-> Dst(pb.state), lastid |-> 0,
                        rows |-> {[id |-> 0, value |-> nextvalue + i] : i \in 0..n - 1}])
  /\ pb' = [pb EXCEPT !.db_handles_num = IF Dst(pb.state) = "database" THEN @ + 1 ELSE @]
  /\ UNCHANGED <<history, lock, stored, nextid, txn, sender, server, proxy, discarded>>

(* rows numbered from first on, in the order of their values *)
Numbered(rows, first) ==
  {[id |-> first + Cardinality({q \in rows : q.value < r.value}), value |-> r.value]
     : r \in rows}

(* pb_deregister_handle; the sender may wait for the handle *)
Deregister(w) ==
  /\ SetHandle(w, IdleHandle)
  /\ sender' = [sender EXCEPT !.waiting = @ \ {w}]

(* memory rows too old to be kept, the oldest ones *)
Expired ==
  {First(history, n) : n \in IF Occurs("offline") THEN 0..Cardinality(history) ELSE {0}}

(* may pb_history_check_age fail once the expired rows are gone? *)
TooOld(expired) ==
  IF Occurs("age") /\ pb.mode = "hybrid" /\ history # expired THEN BOOLEAN ELSE {FALSE}

(* the rows that fit in memory, next to the rows kept *)
Fits(rows, kept) == First(rows, Larger(0, Capacity - Cardinality(kept)))

Rest(rows, kept) == rows \ Fits(rows, kept)

(* the handle's rows will be inserted in the database *)
ToInsert(rows) == [pc |-> "insert", state |-> "memory", rows |-> rows, lastid |-> 0]

(* zbx_pb_history_close of a memory handle, up to the release of the mutex: *)
(* nothing was written to the handle, or ...                                *)
CloseEmpty(w) ==
  /\ handles[w].pc = "open" /\ handles[w].state = "memory" /\ lock = Free
  /\ handles[w].rows = {}
  /\ Deregister(w)
  /\ UNCHANGED <<pb, history, lock, stored, nextid, txn, outside, discarded>>

(* ... there are rows, for the memory or for the database *)
CloseMemory(w) ==
  /\ handles[w].pc = "open" /\ handles[w].state = "memory" /\ lock = Free
  /\ handles[w].rows # {}
  /\ nextid' = nextid + Cardinality(handles[w].rows)
  /\ LET rows == Numbered(handles[w].rows, nextid)
     IN  \/ (* the state has changed since the handle was opened *)
            /\ Dst(pb.state) = "database"
            /\ SetHandle(w, ToInsert(rows))
            /\ pb' = [pb EXCEPT !.db_handles_num = @ + 1]
            /\ UNCHANGED <<history, lock, sender, discarded>>
         \/ /\ Dst(pb.state) = "memory"
            /\ \E expired \in IF pb.state = "memory" THEN Expired ELSE {{}} :
               \E old \in IF pb.state = "memory" THEN TooOld(expired) ELSE {FALSE} :
                 LET kept == history \ expired
                     all == kept \union rows
                     newest == all \ First(all, Larger(0, Cardinality(all) - Capacity))
                     rest == Rest(rows, kept)
                 IN  \/ (* "cached records are too old" *)
                        /\ old
                        /\ history' = kept
                        /\ discarded' = discarded \union Values(expired)
                        /\ SetHandle(w, [ToInsert(rows) EXCEPT !.pc = "flush"])
                        /\ lock' = w
                        /\ UNCHANGED <<pb, sender>>
                     \/ (* pb_free_space discards the oldest rows *)
                        /\ ~old /\ pb.mode = "memory"
                        /\ history' = newest
                        /\ discarded' = discarded \union Values(expired)
                                          \union Values(all \ newest)
                        /\ Deregister(w)
                        /\ UNCHANGED <<pb, lock>>
                     \/ /\ ~old /\ pb.mode # "memory" /\ rest = {}
                        /\ history' = kept \union Fits(rows, kept)
                        /\ discarded' = discarded \union Values(expired)
                        /\ Deregister(w)
                        /\ UNCHANGED <<pb, lock>>
                     \/ (* "not enough space" *)
                        /\ ~old /\ pb.mode # "memory" /\ rest # {}
                        /\ history' = kept \union Fits(rows, kept)
                        /\ discarded' = discarded \union Values(expired)
                        /\ IF pb.state = "database_memory"
                             THEN /\ SetHandle(w, [ToInsert(rest) EXCEPT !.pc = "flush"])
                                  /\ lock' = w
                                  /\ UNCHANGED pb
                             ELSE /\ SetHandle(w, ToInsert(rest))
                                  /\ pb' = [pb EXCEPT !.state = "memory_database",
                                                      !.db_handles_num = @ + 1]
                                  /\ UNCHANGED lock
                        /\ UNCHANGED sender
  /\ UNCHANGED <<stored, txn, outside>>

(* pd_fallback_to_database: the mutex is held until the rows are committed *)
Fallback(w) ==
  /\ handles[w].pc = "flush" /\ lock = w
  /\ history # {} => DbFree(w)
  /\ \E committed \in DbOutcomes :
       IF committed
         THEN table' = Flushed /\ lastid_stored' = FlushedLastid /\ UNCHANGED discarded
         ELSE UNCHANGED stored /\ discarded' = discarded \union Values(history)
  /\ history' = {}
  /\ pb' = [pb EXCEPT !.state = "database",
                      !.history_lastid_db = Larger(@, LastId(history)),
                      !.db_handles_num = @ + 1]
  /\ SetHandle(w, [handles[w] EXCEPT !.pc = "insert"])
  /\ lock' = Free
  /\ UNCHANGED <<nextid, txn, sender, outside>>

(* a database handle gets its identifiers inside its transaction *)
AssignIds(w) ==
  /\ handles[w].pc = "open" /\ handles[w].state = "database"
  /\ DbFree(w)
  /\ nextid' = nextid + Cardinality(handles[w].rows)
  /\ SetHandle(w, [handles[w] EXCEPT !.pc = "insert", !.rows = Numbered(@, nextid)])
  /\ txn' = IF SerialDb THEN w ELSE txn
  /\ UNCHANGED <<pb, history, lock, stored, sender, outside, discarded>>

Insert(w) ==
  /\ handles[w].pc = "insert"
  /\ DbFree(w)
  /\ \E committed \in DbOutcomes :
       IF committed
         THEN table' = table \union handles[w].rows /\ UNCHANGED discarded
         ELSE UNCHANGED table /\ discarded' = discarded \union Values(handles[w].rows)
  /\ SetHandle(w, [handles[w] EXCEPT !.pc = "done", !.rows = {},
                                     !.lastid = LastId(handles[w].rows)])
  /\ txn' = IF txn = w THEN Free ELSE txn
  /\ UNCHANGED <<pb, history, lock, lastid_stored, nextid, sender, outside>>

(* the end of zbx_pb_history_close of a handle that wrote to the database *)
Close(w) ==
  /\ handles[w].pc = "done" /\ lock = Free
  /\ pb' = [pb EXCEPT !.history_lastid_db = Larger(@, handles[w].lastid),
                      !.db_handles_num = @ - 1]
  /\ Deregister(w)
  /\ UNCHANGED <<history, lock, stored, nextid, txn, outside, discarded>>

---------------------------------------------------------------------------
(* The data sender: proxy_data_sender, or send_proxy_data of a passive     *)
(* proxy.  Both are serialized, so there is one sender at a time.          *)

SetSender(s) == sender' = s

(* zbx_pb_history_get_rows *)
GetRows ==
  /\ Running /\ sender.pc = "idle" /\ lock = Free
  /\ IF Src(pb.state) = "memory"
       THEN SetSender([sender EXCEPT !.pc = "upload", !.rows = First(history, Limit),
                                     !.more = Cardinality(history) >= Limit])
       ELSE /\ DbFree("sender")
            /\ SetSender([sender EXCEPT !.pc = "select", !.lastid = lastid_stored])
  /\ UNCHANGED <<pb, history, lock, stored, nextid, txn, handles, outside, discarded>>

(* the rows the select returns *)
Selected ==
  First({r \in table : r.id > sender.lastid}, Limit - Cardinality(sender.rows))

(* MUTANT: missing identifiers are not waited for. *)
GapNever(r) == FALSE

(* rows are missing before row r, and were not waited for yet *)
Gap(r) ==
  /\ r.id # sender.gapid
  /\ r.id - 1 # sender.lastid
  /\ \A q \in table : q.id # r.id - 1

(* pb_history_get_rows_db: one select, up to a gap *)
Select ==
  /\ sender.pc = "select" /\ DbFree("sender")
  /\ LET gaps == {r \in Selected : Gap(r)}
         taken == {r \in Selected : \A g \in gaps : r.id < g.id}
         rows == sender.rows \union taken
     IN  IF gaps = {}
           THEN SetSender([sender EXCEPT !.pc = "upload", !.rows = rows,
                                         !.more = Cardinality(rows) = Limit,
                                         !.lastid = 0, !.gapid = 0])
           ELSE /\ lock = Free
                /\ SetSender([sender EXCEPT
                     !.pc = "wait", !.rows = rows,
                     !.lastid = Larger(@, LastId(taken)),
                     !.gapid = LastId(First(gaps, 1)),
                     !.waiting = {w \in Writers : handles[w].pc # "idle"}])
  /\ UNCHANGED <<pb, history, lock, stored, nextid, txn, handles, outside, discarded>>

(* pb_wait_handles: the handles open at the time of the select are closed *)
WaitHandles ==
  /\ sender.pc = "wait" /\ sender.waiting = {} /\ lock = Free
  /\ SetSender([sender EXCEPT !.pc = "select"])
  /\ UNCHANGED <<pb, history, lock, stored, nextid, txn, handles, outside, discarded>>

(* the server takes the values it has not seen in this session *)
Received ==
  [last_id  |-> Larger(server.last_id, LastId(sender.rows)),
   received |-> server.received
                  \union Values({r \in sender.rows : r.id > server.last_id})]

(* The upload succeeds.  Without rows it still asks for tasks. *)
Upload ==
  /\ sender.pc = "upload"
  /\ server' = Received
  /\ SetSender([sender EXCEPT !.pc = IF sender.rows = {} THEN "update" ELSE "begin"])
  /\ UNCHANGED <<pb, history, lock, stored, nextid, txn, handles, proxy, nextvalue, discarded>>

(* The upload fails for the proxy. *)
UploadFails ==
  /\ sender.pc = "upload"
  /\ \/ Occurs("nosend") /\ UNCHANGED server
     \/ Occurs("noreply") /\ server' = Received
  /\ SetSender(IdleSender)
  /\ UNCHANGED <<pb, history, lock, stored, nextid, txn, handles, proxy, nextvalue, discarded>>

(* the transaction in which the last identifiers are stored *)
Begin ==
  /\ sender.pc = "begin" /\ DbFree("sender")
  /\ SetSender([sender EXCEPT !.pc = "commit"])
  /\ txn' = IF SerialDb THEN "sender" ELSE txn
  /\ UNCHANGED <<pb, history, lock, stored, nextid, handles, outside, discarded>>

(* pb_history_clear *)
Unsent(lastid) == {r \in history : r.id > lastid}

(* zbx_pb_set_history_lastid and the commit *)
SetLastid ==
  /\ sender.pc = "commit" /\ lock = Free
  /\ LET lastid == LastId(sender.rows)
     IN  /\ pb' = [pb EXCEPT !.history_lastid_sent = lastid]
         /\ IF Src(pb.state) = "memory"
              THEN history' = Unsent(lastid) /\ UNCHANGED lastid_stored
              ELSE /\ UNCHANGED history
                   /\ \E committed \in DbOutcomes :
                        lastid_stored' = IF committed THEN lastid ELSE lastid_stored
  /\ txn' = IF txn = "sender" THEN Free ELSE txn
  /\ SetSender([sender EXCEPT !.pc = "update"])
  /\ UNCHANGED <<lock, table, nextid, handles, outside, discarded>>

(* MUTANT: open database handles do not matter. *)
DatabaseDoneEarly == pb.history_lastid_db <= pb.history_lastid_sent

(* nothing is left in the database, nor on the way to it *)
DatabaseDone ==
  pb.db_handles_num = 0 /\ pb.history_lastid_db <= pb.history_lastid_sent

(* MUTANT: the rows inserted in memory_database state are forgotten. *)
NextStateStuck ==
  CASE pb.state = "database" /\ ~sender.more        -> "database_memory"
    [] pb.state = "database_memory" /\ DatabaseDone -> "memory"
    [] OTHER                                        -> pb.state

(* pb_update_state *)
NextState ==
  CASE pb.state = "memory_database" /\ history = {}      -> "database"
    [] pb.state = "database" /\ ~sender.more              -> "database_memory"
    [] pb.state = "database_memory" /\ DatabaseDone       -> "memory"
    [] OTHER                                              -> pb.state

UpdateState ==
  /\ sender.pc = "update" /\ lock = Free
  /\ IF pb.mode = "hybrid"
       THEN /\ pb' = [pb EXCEPT !.state = NextState]
            /\ IF pb.state = "memory_database" /\ history = {}
                 THEN /\ DbFree("sender")
                      /\ \E committed \in DbOutcomes :
                           lastid_stored' = IF committed /\ pb.history_lastid_sent # 0
                                              THEN pb.history_lastid_sent ELSE lastid_stored
                 ELSE UNCHANGED lastid_stored
       ELSE UNCHANGED <<pb, lastid_stored>>
  /\ SetSender(IdleSender)
  /\ UNCHANGED <<history, lock, table, nextid, txn, handles, outside, discarded>>

(* the elapsed time suggests that connecting was retried *)
UpdateSkipped ==
  /\ Occurs("slow") /\ sender.pc = "update"
  /\ SetSender(IdleSender)
  /\ UNCHANGED <<pb, history, lock, stored, nextid, txn, handles, outside, discarded>>

---------------------------------------------------------------------------

Closing(w) ==
  \/ CloseEmpty(w) \/ CloseMemory(w) \/ Fallback(w)
  \/ AssignIds(w) \/ Insert(w) \/ Close(w)

Sending ==
  \/ GetRows \/ Select \/ WaitHandles \/ Upload \/ UploadFails
  \/ Begin \/ SetLastid \/ UpdateState \/ UpdateSkipped

Next ==
  \/ \E w \in Writers : Open(w) \/ Closing(w)
  \/ Sending
  \/ Start \/ Disable \/ FlushOnExit \/ Crash

Spec == Init /\ [][Next]_vars

(***************************************************************************)
(* The syncers and the sender are processes that run in loops; a server    *)
(* that is down comes back, not every connection takes long and not every  *)
(* transaction fails for good.                                             *)
(***************************************************************************)
Fairness ==
  /\ \A w \in Writers : WF_vars(Closing(w))
  /\ WF_vars(Sending)
  /\ SF_vars(Upload)
  /\ SF_vars(SetLastid /\ stored' # stored)
  /\ SF_vars(UpdateState)
  /\ WF_vars(Start)

FairSpec == Spec /\ Fairness

---------------------------------------------------------------------------
(* Properties. *)

Collected == 1..nextvalue - 1

TypeOK ==
  /\ pb \in [mode : {"disk", "memory", "hybrid"}, state : States, db_handles_num : Nat,
              history_lastid_db : Nat, history_lastid_sent : Nat]
  /\ history \subseteq Row /\ table \subseteq Row
  /\ lastid_stored \in Nat /\ nextid \in Nat \ {0} /\ nextvalue \in Nat \ {0}
  /\ lock \in Writers \union {Free}
  /\ txn \in Writers \union {Free, "sender"}
  /\ handles \in [Writers -> [pc : {"idle", "open", "flush", "insert", "done"},
                              state : {"memory", "database"}, rows : SUBSET Row,
                              lastid : Nat]]
  /\ sender \in [pc : {"idle", "select", "wait", "upload", "begin", "commit", "update"},
                 rows : SUBSET Row, more : BOOLEAN, lastid : Nat, gapid : Nat,
                 waiting : SUBSET Writers]
  /\ server \in [last_id : Nat, received : SUBSET Nat]
  /\ proxy \in [pc : {"running", "exiting", "off"}, mode : {"disk", "memory", "hybrid"},
                starts : Nat]
  /\ discarded \in SUBSET Nat

(* a row that will be uploaded, and not taken for a duplicate *)
Pending(r) ==
  \/ r \in history /\ r.id > server.last_id
  \/ r \in table /\ r.id > lastid_stored /\ (r.id > server.last_id \/ proxy.pc = "off")

(***************************************************************************)
(* No value gets lost: what was collected has been received by the server, *)
(* was dropped where the code means to drop it, is in a handle, or is in a *)
(* place from which it will be uploaded with an identifier the server does *)
(* not take for a duplicate (zbx_pb_history_close, zbx_pb_history_get_rows)*)
(***************************************************************************)
NoLoss ==
  \A v \in Collected :
    \/ v \in server.received \union discarded
    \/ \E w \in Writers : v \in Values(handles[w].rows)
    \/ \E r \in history \union table : r.value = v /\ Pending(r)

(***************************************************************************)
(* In memory state the database holds nothing that was not uploaded, and   *)
(* no handle is about to write to it, so the sender may forget about it    *)
(* (pb_update_state, pb_init_state).                                       *)
(***************************************************************************)
MemoryClean ==
  proxy.pc = "running" /\ pb.mode = "hybrid" /\ pb.state = "memory" =>
    /\ Values(table) \subseteq server.received
    /\ \A w \in Writers : handles[w].state = "database" => handles[w].pc = "idle"

(***************************************************************************)
(* When no more values are collected (MaxValues), all of them are received *)
(* or dropped in the end, whatever the transitions between memory and      *)
(* database, the gaps between identifiers and the restarts.                *)
(***************************************************************************)
Delivered == <>[](Collected \subseteq server.received \union discarded)

(***************************************************************************)
(* A writer that waits for the database while it holds the buffer's mutex  *)
(* never waits for the sender that waits for that mutex                    *)
(* (pd_fallback_to_database and zbx_pb_set_history_lastid).                *)
(***************************************************************************)
NoDeadlock ==
  ~(lock # Free /\ SerialDb /\ history # {} /\ txn = "sender" /\ sender.pc = "commit")
=============================================================================
