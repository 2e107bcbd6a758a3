---------------------------- MODULE PreprocQueue ----------------------------
(***************************************************************************)
(* The preprocessing manager (src/libs/zbxpreproc): a manager thread makes *)
(* tasks of received values, worker threads process them in any order, the *)
(* manager makes tasks for dependent items of the results and passes the   *)
(* results on to the history cache.                                        *)
(*                                                                         *)
(* The n-th value received for a master item is the number n; values of    *)
(* its dependent items keep the number.                                    *)
(***************************************************************************)
EXTENDS Integers, Sequences, FiniteSets, SequencesExt

CONSTANTS
  Items,       \* items known to the senders
  Deps,        \* [Items -> Seq(Items)], dependent items of an item
  Configs,     \* possible contents of manager->items, see Mode
  Reconfigure, \* TRUE when the configuration may change between requests
  Priority,    \* internal items, processed before the others
  LLDRules,    \* low level discovery rules
  Discarded,   \* <<item, n>>: preprocessing discards the value
  Workers,     \* preprocessing workers
  Batch,       \* PP_FINISHED_TASK_BATCH_SIZE
  Stops,       \* run states the supervisor may order
  MaxValues,   \* bound on the values received
  MaxTests     \* bound on the test requests

VARIABLES
  config,      \* manager->items
  queue,       \* manager->queue, see EmptyQueue
  worker,      \* [Workers -> where the thread is and its task]
  manager,     \* where the manager is in its loop and its local variables
  runstate,    \* the run state ordered by the supervisor
  accepted,    \* [Items -> Nat], values received for an item
  delivered,   \* [Items -> Seq(Nat)], values passed to the history cache
  tests        \* test requests that were received and answered

vars == <<config, queue, worker, manager, runstate, accepted, delivered, tests>>

MastersOf(i) == {m \in Items : Contains(Deps[m], i)}
Master(i) == CHOOSE m \in MastersOf(i) : TRUE
Received == {i \in Items : MastersOf(i) = {}}

(***************************************************************************)
(* A configuration has the mode of each item and the items whose first     *)
(* step can use a cache.  Mode "none" is an item that is not in            *)
(* manager->items, or has neither steps nor dependent items.               *)
(***************************************************************************)
Mode(i) == config.mode[i]
Present(i) == Mode(i) # "none"

ASSUME PreprocAssumption ==
  /\ IsFiniteSet(Items) /\ IsFiniteSet(Workers)
  /\ Deps \in [Items -> Seq(Items)]
  /\ \A i \in Items : i \notin ToSet(Deps[i])
  /\ \A i \in LLDRules : Deps[i] = <<>>
  /\ Batch \in Nat \ {0}
  /\ Stops \subseteq {"stopping", "aborting"}

-----------------------------------------------------------------------------
(* Tasks (pp_task.c): the container of a sequence is a task itself. *)

Task(kind, i, n) == [kind |-> kind, item |-> i, n |-> n]
Container(i) == Task("sequence", i, 0)
Test(n) == Task("test", "test", n)
NoTask == Task("none", "none", 0)

ValueTask(i, n) ==
  Task(IF Mode(i) = "parallel" THEN "value" ELSE "value_seq", i, n)

(***************************************************************************)
(* The queue is changed under its mutex.  Each operator below is a         *)
(* function of pp_queue.c or pp_manager.c that is called with the mutex    *)
(* held; signals counts the notifications that it sends.                   *)
(***************************************************************************)
EmptyQueue ==
  [pending |-> <<>>, immediate |-> <<>>, finished |-> <<>>,
   sequences |-> [i \in Items |-> <<>>],  \* tasks that go one after another
   tracked |-> [i \in Items |-> <<>>],    \* "value" tasks in input order
   held |-> [i \in Items |-> {}],          \* those of them that are processed
   pending_num |-> 0, processing_num |-> 0, finished_num |-> 0, signals |-> 0]

(* MUTANT: a queued task wakes no worker. *)
Unnotified(q) == q
Notify(q) == [q EXCEPT !.signals = @ + 1]

Track(q, t) ==
  IF t.kind = "value" THEN [q EXCEPT !.tracked[t.item] = Append(@, t)] ELSE q

(* A new sequence gets its container, which the caller puts in a list. *)
AddSequence(q, t) == [q EXCEPT !.sequences[t.item] = Append(@, t)]
NewSequence(q, t) == q.sequences[t.item] = <<>>

PushImmediate(q, t) ==
  LET p == [Track(q, t) EXCEPT !.pending_num = @ + 1]
  IN CASE t.kind = "sequence" -> [q EXCEPT !.immediate = Append(@, t)]
       [] t.kind \in {"value", "test"} -> [p EXCEPT !.immediate = Append(@, t)]
       [] t.kind \in {"value_seq", "dependent"} ->
            IF ~NewSequence(q, t) THEN AddSequence(p, t)
            ELSE [AddSequence(p, t) EXCEPT !.immediate = Append(@, Container(t.item))]

Push(q, t) ==
  IF t.item \in Priority THEN PushImmediate(q, t)
  ELSE [Track(q, t) EXCEPT !.pending_num = @ + 1, !.pending = Append(@, t)]

PushRequest(q, tasks) ==
  IF tasks = <<>> THEN q ELSE Notify(FoldLeft(Push, q, tasks))

(***************************************************************************)
(* Pending "value_seq" tasks whose item has a sequence move to it and are  *)
(* not taken; the first other task is.                                     *)
(***************************************************************************)
Takeable(q) ==
  {k \in DOMAIN q.pending :
     q.pending[k].kind = "value_seq" => NewSequence(q, q.pending[k])}
Poppable(q) == q.immediate # <<>> \/ Takeable(q) # {}

Moved(q, tasks) == FoldLeft(AddSequence, q, tasks)

(* MUTANT: a task that starts stays counted as pending. *)
StartedUncounted(q) == [q EXCEPT !.processing_num = @ + 1]
Started(q) == [q EXCEPT !.pending_num = @ - 1, !.processing_num = @ + 1]

PopNew(q) ==
  IF q.immediate # <<>>
  THEN [task |-> Head(q.immediate),
        queue |-> Started([q EXCEPT !.immediate = Tail(@)])]
  ELSE IF Takeable(q) = {}
  THEN [task |-> NoTask, queue |-> [Moved(q, q.pending) EXCEPT !.pending = <<>>]]
  ELSE LET k == Min(Takeable(q))
           t == q.pending[k]
           p == [Moved(q, SubSeq(q.pending, 1, k - 1)) EXCEPT
                   !.pending = SubSeq(@, k + 1, Len(@))]
       IN IF t.kind = "value_seq"
          THEN [task |-> Container(t.item), queue |-> Started(AddSequence(p, t))]
          ELSE [task |-> t, queue |-> Started(p)]

(* Tracked tasks wait for the earlier tasks of their item. *)
Ready(s, done) ==
  Max({k \in 0 .. Len(s) : \A j \in 1 .. k : s[j] \in done})

(* MUTANT: a finished task does not wait for the tasks queued before it. *)
PushFinishedAtOnce(q, t) ==
  [q EXCEPT !.processing_num = @ - 1, !.finished = Append(@, t),
            !.finished_num = @ + 1]

PushFinished(q, t) ==
  IF t.kind = "value"
  THEN LET s == q.tracked[t.item]
           held == q.held[t.item] \cup {t}
           k == Ready(s, held)
           rest == SubSeq(s, k + 1, Len(s))
       IN [q EXCEPT !.processing_num = @ - 1,
                    !.tracked[t.item] = rest,
                    !.held[t.item] = held \cap ToSet(rest),
                    !.finished = @ \o SubSeq(s, 1, k), !.finished_num = @ + k]
  ELSE PushFinishedAtOnce(q, t)

-----------------------------------------------------------------------------
(* New tasks in response to results (pp_manager.c) *)

QueueDependent(q, d, n, exclude) ==
  IF d = exclude \/ ~Present(d) THEN q ELSE PushImmediate(q, ValueTask(d, n))
QueueEach(q, deps, n, exclude) ==
  FoldLeft(LAMBDA r, d : QueueDependent(r, d, n, exclude), q, deps)
QueueDependents(q, i, n, exclude) ==
  IF \A d \in ToSet(Deps[i]) : d = exclude \/ ~Present(d) THEN q
  ELSE Notify(QueueEach(q, Deps[i], n, exclude))

(* The first dependent item whose preprocessing fills a cache goes first. *)
ValueResult(q, i, n) ==
  LET cacheable ==
        {k \in DOMAIN Deps[i] : Present(Deps[i][k]) /\ Deps[i][k] \in config.cacheable}
      first == Deps[i][Min(cacheable)]
  IN IF <<i, n>> \in Discarded THEN q
     ELSE IF cacheable = {} THEN QueueDependents(q, i, n, i)
     ELSE Notify(PushImmediate(q, Task("dependent", first, n)))

TaskResult(q, t) ==
  CASE t.kind \in {"value", "value_seq"} -> ValueResult(q, t.item, t.n)
    [] t.kind = "dependent" ->
         QueueDependents(ValueResult(q, t.item, t.n), Master(t.item), t.n, t.item)
    [] OTHER -> q

(* MUTANT: a finished sequence is queued again even if it is empty. *)
RequeueAlways(q, i) == Notify(PushImmediate(q, Container(i)))
RequeueSequence(q, i) ==
  IF q.sequences[i] = <<>> THEN q ELSE RequeueAlways(q, i)

(* One round of the loop of process_finished; r.tasks is what it collected. *)
ProcessFinished(r) ==
  LET q == r.queue
      t == Head(q.finished)
      p == [q EXCEPT !.finished = Tail(@), !.finished_num = @ - 1]
      first == Head(q.sequences[t.item])
      rest == [p EXCEPT !.sequences[t.item] = Tail(@)]
  IN IF q.finished = <<>> THEN r
     ELSE IF t.kind = "sequence"
     THEN [queue |-> RequeueSequence(TaskResult(rest, first), t.item),
           tasks |-> Append(r.tasks, first)]
     ELSE [queue |-> TaskResult(p, t), tasks |-> Append(r.tasks, t)]

-----------------------------------------------------------------------------
Init ==
  /\ config \in Configs
  /\ queue = EmptyQueue
  /\ worker = [w \in Workers |-> [pc |-> "waiting", task |-> NoTask]]
  /\ manager = [pc |-> "receive", tasks |-> <<>>, idle |-> FALSE]
  /\ runstate = "running"
  /\ accepted = [i \in Items |-> 0]
  /\ delivered = [i \in Items |-> <<>>]
  /\ tests = [received |-> 0, answered |-> {}]

Waiting(ws) == {w \in Workers : ws[w].pc = "waiting"}

(***************************************************************************)
(* The critical section ends with queue q and the threads in ws.  Each     *)
(* signal wakes a waiting worker; a signal nobody waits for is lost.       *)
(***************************************************************************)
Unlock(q, ws) ==
  /\ queue' = [q EXCEPT !.signals = 0]
  /\ \E woken \in SUBSET Waiting(ws) :
       /\ Cardinality(woken) =
            IF q.signals < Cardinality(Waiting(ws)) THEN q.signals
            ELSE Cardinality(Waiting(ws))
       /\ worker' = [w \in Workers |->
                       IF w \in woken THEN [ws[w] EXCEPT !.pc = "woken"] ELSE ws[w]]

-----------------------------------------------------------------------------
(* Workers.  The manager sets their stop flags when it frees the queue. *)

Stopped == manager.pc = "free"

(* The top of the worker loop, entered with the mutex held and queue q. *)
Continue(w, q) ==
  LET At(pc, t) == [worker EXCEPT ![w] = [pc |-> pc, task |-> t]]
  IN \/ Stopped /\ Unlock(q, At("exited", NoTask))
     \/ /\ ~Stopped
        /\ \E pop \in {PopNew(q)} :
             \/ pop.task # NoTask /\ Unlock(pop.queue, At("busy", pop.task))
             \/ pop.task = NoTask /\ Unlock(pop.queue, At("waiting", NoTask))

FinishTask(w) ==
  /\ worker[w].pc = "busy"
  /\ \E q \in {PushFinished(queue, worker[w].task)} : Continue(w, q)
  /\ UNCHANGED <<config, manager, runstate, accepted, delivered, tests>>

(* MUTANT: a worker that takes a task wakes nobody for the next one. *)
NotifyNone(q) == q
NotifyNext(q) == IF q.pending_num > 1 THEN Notify(q) ELSE q

Resume(w) ==
  /\ worker[w].pc = "woken"
  /\ \E q \in {NotifyNext(queue)} : Continue(w, q)
  /\ UNCHANGED <<config, manager, runstate, accepted, delivered, tests>>

WakeSpuriously(w) ==
  /\ worker[w].pc = "waiting"
  /\ worker' = [worker EXCEPT ![w].pc = "woken"]
  /\ UNCHANGED <<config, queue, manager, runstate, accepted, delivered, tests>>

-----------------------------------------------------------------------------
(* The manager loop *)

Goto(pc) == manager' = [manager EXCEPT !.pc = pc]

(* Low level discovery values are dropped when the manager stops. *)
Deliver(i, n) ==
  delivered' =
    IF i \in LLDRules /\ runstate # "running" THEN delivered
    ELSE [delivered EXCEPT ![i] = Append(@, n)]

ReceiveRequest ==
  /\ manager.pc = "receive"
  /\ config' \in IF Reconfigure THEN Configs ELSE {config}
  /\ Goto("read")
  /\ UNCHANGED <<queue, worker, runstate, accepted, delivered, tests>>

(***************************************************************************)
(* The next value of the request: it is delivered at once when there is    *)
(* nothing to do for it.  All values of a request have one priority.       *)
(***************************************************************************)
ReadValue(i) ==
  /\ manager.pc = "read"
  /\ FoldFunction(+, 0, accepted) < MaxValues
  /\ \A t \in ToSet(manager.tasks) : t.item \in Priority <=> i \in Priority
  /\ accepted' = [accepted EXCEPT ![i] = @ + 1]
  /\ IF Present(i)
     THEN /\ manager' = [manager EXCEPT
                           !.tasks = Append(@, ValueTask(i, accepted[i] + 1))]
          /\ UNCHANGED delivered
     ELSE Deliver(i, accepted[i] + 1) /\ UNCHANGED manager
  /\ UNCHANGED <<config, queue, worker, runstate, tests>>

QueueRequest ==
  /\ manager.pc = "read"
  /\ Unlock(PushRequest(queue, manager.tasks), worker)
  /\ manager' = [manager EXCEPT !.pc = "collect", !.tasks = <<>>]
  /\ UNCHANGED <<config, runstate, accepted, delivered, tests>>

ReceiveTest ==
  /\ manager.pc = "receive"
  /\ tests.received < MaxTests
  /\ tests' = [tests EXCEPT !.received = @ + 1]
  /\ Unlock(Notify(PushImmediate(queue, Test(tests'.received))), worker)
  /\ Goto("collect")
  /\ UNCHANGED <<config, runstate, accepted, delivered>>

ReceiveNothing ==
  /\ manager.pc = "receive"
  /\ Goto("collect")
  /\ UNCHANGED <<config, queue, worker, runstate, accepted, delivered, tests>>

(* The whole batch is collected in one critical section. *)
Collected ==
  FoldLeft(LAMBDA r, k : ProcessFinished(r),
           [queue |-> queue, tasks |-> <<>>], [k \in 1 .. Batch |-> k])

Collect ==
  /\ manager.pc = "collect"
  /\ \E r \in {Collected} :
       /\ Unlock(r.queue, worker)
       /\ manager' = [pc |-> "flush", tasks |-> r.tasks,
                      idle |-> r.queue.pending_num + r.queue.processing_num = 0]
  /\ UNCHANGED <<config, runstate, accepted, delivered, tests>>

FlushTask ==
  LET t == Head(manager.tasks)
  IN /\ manager.pc = "flush"
     /\ manager.tasks # <<>>
     /\ manager' = [manager EXCEPT !.tasks = Tail(@)]
     /\ IF t.kind = "test"
        THEN tests' = [tests EXCEPT !.answered = @ \cup {t.n}] /\ UNCHANGED delivered
        ELSE /\ IF <<t.item, t.n>> \in Discarded THEN UNCHANGED delivered
                ELSE Deliver(t.item, t.n)
             /\ UNCHANGED tests
     /\ UNCHANGED <<config, queue, worker, runstate, accepted>>

(* MUTANT: an ordered stop does not wait until there is nothing left to do. *)
BreakEarly == runstate # "running"
Break == runstate = "aborting" \/ (runstate = "stopping" /\ manager.idle)

(* The end of the loop, or of the thread: workers are stopped and woken. *)
CheckStop ==
  /\ manager.pc = "flush"
  /\ manager.tasks = <<>>
  /\ IF Break
     THEN /\ Goto("free")
          /\ Unlock([queue EXCEPT !.signals = Cardinality(Workers)], worker)
     ELSE Goto("receive") /\ UNCHANGED <<queue, worker>>
  /\ UNCHANGED <<config, runstate, accepted, delivered, tests>>

(* Workers are joined; what is still queued is freed with the queue. *)
Exited == manager.pc = "free" /\ \A w \in Workers : worker[w].pc = "exited"

Order(state) ==
  /\ state \in Stops
  /\ runstate = "running" \/ (runstate = "stopping" /\ state = "aborting")
  /\ runstate' = state
  /\ UNCHANGED <<config, queue, worker, manager, accepted, delivered, tests>>

-----------------------------------------------------------------------------
WorkerStep(w) == FinishTask(w) \/ Resume(w)

ManagerStep ==
  \/ ReceiveRequest \/ ReceiveTest \/ ReceiveNothing
  \/ \E i \in Received : ReadValue(i)
  \/ QueueRequest \/ Collect \/ FlushTask \/ CheckStop

Next ==
  \/ ManagerStep
  \/ \E w \in Workers : WorkerStep(w) \/ WakeSpuriously(w)
  \/ \E state \in Stops : Order(state)

Spec == Init /\ [][Next]_vars

(* Threads run; nothing is assumed of spurious wake-ups and the supervisor. *)
FairSpec ==
  /\ Spec
  /\ WF_vars(ManagerStep)
  /\ \A w \in Workers : WF_vars(WorkerStep(w))

-----------------------------------------------------------------------------
(* Properties *)

(* All lists that a task can be in, with the tasks that workers have. *)
InWork == {w \in Workers : worker[w].pc = "busy"}
Copies(s, t) == Cardinality({k \in DOMAIN s : s[k] = t})
Begun(i) ==
  Copies(queue.finished, Container(i))
  + Cardinality({w \in InWork : worker[w].task = Container(i)})
Containers(i) == Copies(queue.immediate, Container(i)) + Begun(i)

(***************************************************************************)
(* Values that must be processed one after another are: a sequence that    *)
(* has tasks has one container, in a list or with a worker, and an empty   *)
(* sequence has none (pp_task_queue_add_sequence,                          *)
(* pp_manager_requeue_next_sequence_task).                                 *)
(***************************************************************************)
OneContainer ==
  \A i \in Items : Containers(i) = IF queue.sequences[i] = <<>> THEN 0 ELSE 1

(***************************************************************************)
(* The counters that the stop of the manager, its receive timeout and the  *)
(* wake-up chain of the workers rely on are true, although tasks are       *)
(* counted one by one and queued in containers, each of which stands for   *)
(* the first task of its sequence.                                         *)
(***************************************************************************)
CountersTrue ==
  /\ queue.processing_num = Cardinality(InWork)
  /\ queue.finished_num = Len(queue.finished)
  /\ queue.pending_num =
       Len(queue.pending) + Len(queue.immediate)
       + SumFunctionOnSet([i \in Items |-> Len(queue.sequences[i]) - Containers(i)], Items)

(***************************************************************************)
(* No worker sleeps while there is a task for it and nobody is on the way: *)
(* one signal for a whole request is enough, because a woken worker wakes  *)
(* the next (pp_worker_entry, pp_task_queue_notify).                       *)
(***************************************************************************)
NoLostWakeup ==
  Poppable(queue) /\ Waiting(worker) # {} =>
    \E w \in Workers : worker[w].pc = "woken"

(***************************************************************************)
(* A manager that was stopped and not aborted leaves no value behind that  *)
(* is not processed; the test of the loop reads counters that it copied    *)
(* before it flushed results (preprocessing thread, pp_manager.c).         *)
(***************************************************************************)
CleanStop ==
  manager.pc = "free" /\ runstate = "stopping" =>
    /\ queue.pending = <<>> /\ queue.immediate = <<>>
    /\ \A i \in Items : queue.tracked[i] = <<>> /\ queue.held[i] = {}
    /\ \A i \in Items : Len(queue.sequences[i]) = Begun(i)

(***************************************************************************)
(* The values of an item are passed on in the order in which they were     *)
(* received: "flush values for an item in the same order they were sent to *)
(* preprocessing" (ChangeLog, ZBX-26426).                                  *)
(***************************************************************************)
OutputOrder ==
  \A i \in Items : \A j, k \in DOMAIN delivered[i] :
    j < k => delivered[i][j] < delivered[i][k]

(***************************************************************************)
(* With a configuration that stays, preprocessing implements ItemStream:   *)
(* nothing is lost, doubled or reordered, a dependent value follows its    *)
(* master value, and while the manager runs everything is delivered.       *)
(***************************************************************************)
Stream == INSTANCE ItemStream WITH
  active <- {i \in Items : Present(i)},
  running <- runstate = "running"
StreamSpec == Stream!Spec

(* A test request is answered while the manager runs. *)
TestsAnswered ==
  \A n \in 1 .. MaxTests :
    tests.received >= n ~> (n \in tests.answered \/ runstate # "running")
=============================================================================
