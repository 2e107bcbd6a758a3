------------------------ MODULE PreprocQueue_proofs ------------------------
EXTENDS PreprocQueue, FoldTheorems, SequenceTheorems

(***************************************************************************)
(* Safety of the preprocessing queue for every set of items, workers and   *)
(* dependencies.  The proofs rest on one inductive invariant, Sound:       *)
(*   WorkersTrue   a worker has a task exactly while it processes it;      *)
(*   Balanced      the lists of the queue, the counters and the tasks of   *)
(*                 the workers fit together.  Its parts are Followed (a    *)
(*                 value whose order is tracked waits for one before it,   *)
(*                 or is in a list or with a worker), Single (a sequence   *)
(*                 that has tasks has its container in exactly one place)  *)
(*                 and the three counters;                                 *)
(*   Awake         a worker that sleeps beside a task has somebody on the  *)
(*                 way to it;                                              *)
(*   ManagerTrue   what the manager has in its hands.                      *)
(* Balanced takes the queue, the tasks of the workers and the items whose  *)
(* container the manager holds as parameters, so that every function of    *)
(* the code is one lemma about queues: pushes, results, a round of         *)
(* process_finished, the hand-over of a worker, the pop.  The step lemmas  *)
(* say which functions a critical section calls.  StopIsClean needs one    *)
(* invariant more, Settled: between finding nothing to do and its end the  *)
(* manager leaves the counters at zero.                                    *)
(***************************************************************************)

-----------------------------------------------------------------------------
(* Copies of a task in a list. *)

\* A task has a number of copies in a list.
LEMMA CopiesType ==
  ASSUME NEW A, NEW s \in Seq(A), NEW t
  PROVE  /\ IsFiniteSet({k \in DOMAIN s : s[k] = t})
         /\ Copies(s, t) \in Nat
<1>1. DOMAIN s = 1 .. Len(s) /\ Len(s) \in Nat
    OBVIOUS
<1>2. IsFiniteSet(1 .. Len(s))
    BY <1>1, FS_Interval
<1>3. {k \in DOMAIN s : s[k] = t} \in SUBSET (1 .. Len(s))
    BY <1>1
<1>4. IsFiniteSet({k \in DOMAIN s : s[k] = t})
    BY <1>2, <1>3, FS_Subset
<1> QED BY <1>4, FS_CardinalityType DEF Copies

\* A task that is not in a list has no copy there.
LEMMA CopiesNone ==
  ASSUME NEW A, NEW s \in Seq(A), NEW t, \A k \in DOMAIN s : s[k] # t
  PROVE  Copies(s, t) = 0
<1>1. {k \in DOMAIN s : s[k] = t} = {}
    OBVIOUS
<1> QED BY <1>1, FS_EmptySet DEF Copies

\* A task that is in a list has a copy there.
LEMMA CopiesSome ==
  ASSUME NEW A, NEW s \in Seq(A), NEW k \in DOMAIN s
  PROVE  Copies(s, s[k]) >= 1
<1>1. IsFiniteSet({j \in DOMAIN s : s[j] = s[k]}) /\ Copies(s, s[k]) \in Nat
    BY CopiesType
<1>2. {j \in DOMAIN s : s[j] = s[k]} # {}
    OBVIOUS
<1>3. Copies(s, s[k]) # 0
    BY <1>1, <1>2, FS_EmptySet DEF Copies
<1> QED BY <1>1, <1>3

\* Other tasks added to a list add no copy.
LEMMA CopiesConcat ==
  ASSUME NEW A, NEW s \in Seq(A), NEW r \in Seq(A), NEW t, \A k \in DOMAIN r : r[k] # t
  PROVE  Copies(s \o r, t) = Copies(s, t)
<1>1. /\ s \o r \in Seq(A) /\ Len(s \o r) = Len(s) + Len(r)
      /\ \A k \in 1 .. Len(s) + Len(r) :
           (s \o r)[k] = IF k <= Len(s) THEN s[k] ELSE r[k - Len(s)]
    BY ConcatProperties
<1>2. /\ DOMAIN s = 1 .. Len(s) /\ DOMAIN r = 1 .. Len(r)
      /\ DOMAIN (s \o r) = 1 .. (Len(s) + Len(r)) /\ Len(s) \in Nat /\ Len(r) \in Nat
    BY <1>1
<1>3. \A k \in 1 .. Len(s) + Len(r) :
        IF k <= Len(s) THEN k \in DOMAIN s ELSE k - Len(s) \in DOMAIN r
    BY <1>2
<1>4. {k \in DOMAIN (s \o r) : (s \o r)[k] = t} = {k \in DOMAIN s : s[k] = t}
  <2> DEFINE c == s \o r
  <2>1. \A k \in 1 .. Len(s) + Len(r) : c[k] = t <=> (k <= Len(s) /\ s[k] = t)
      BY <1>1, <1>3
  <2>2. \A k : k \in DOMAIN s <=> k \in 1 .. Len(s) + Len(r) /\ k <= Len(s)
      BY <1>2
  <2> HIDE DEF c
  <2>3. DOMAIN c = 1 .. (Len(s) + Len(r))
      BY <1>2 DEF c
  <2> QED BY <2>1, <2>2, <2>3 DEF c
<1> QED BY <1>4 DEF Copies

\* A task added to a list (zbx_list_append) is one copy more.
LEMMA CopiesAppend ==
  ASSUME NEW A, NEW s \in Seq(A), NEW x \in A, NEW t
  PROVE  Copies(Append(s, x), t) = Copies(s, t) + (IF x = t THEN 1 ELSE 0)
<1> DEFINE S == {k \in DOMAIN s : s[k] = t}
           a == Append(s, x)
<1>1. /\ DOMAIN a = 1 .. (Len(s) + 1) /\ DOMAIN s = 1 .. Len(s) /\ Len(s) \in Nat
      /\ \A k \in 1 .. Len(s) : a[k] = s[k]
      /\ a[Len(s) + 1] = x
    OBVIOUS
<1>2. IsFiniteSet(S) /\ Copies(s, t) \in Nat
    BY CopiesType
<1> HIDE DEF a
<1>3. \A k : k \in DOMAIN a <=> k \in DOMAIN s \/ k = Len(s) + 1
    BY <1>1
<1>4. {k \in DOMAIN a : a[k] = t} = IF x = t THEN S \cup {Len(s) + 1} ELSE S
    BY <1>1, <1>3
<1>5. Len(s) + 1 \notin S
    BY <1>1
<1>6. CASE x = t
  <2> HIDE DEF S
  <2>1. Cardinality(S \cup {Len(s) + 1}) = Cardinality(S) + 1
      BY <1>2, <1>5, FS_AddElement
  <2> QED BY <1>4, <1>6, <2>1 DEF Copies, S, a
<1>7. CASE x # t
  <2>1. Copies(a, t) = Copies(s, t)
      BY <1>4, <1>7 DEF Copies
  <2> QED BY <1>2, <1>7, <2>1 DEF a
<1> QED BY <1>6, <1>7

\* A task taken from a list (zbx_list_pop) is one copy less.
LEMMA CopiesTail ==
  ASSUME NEW A, NEW s \in Seq(A), s # <<>>, NEW t
  PROVE  Copies(s, t) = Copies(Tail(s), t) + (IF Head(s) = t THEN 1 ELSE 0)
<1> DEFINE r == Tail(s)
           S == {k \in DOMAIN s : s[k] = t} \ {1}
           R == {k \in DOMAIN r : r[k] = t}
           g == [k \in R |-> k + 1]
<1>1. /\ r \in Seq(A) /\ DOMAIN r = 1 .. (Len(s) - 1) /\ DOMAIN s = 1 .. Len(s)
      /\ Len(s) \in Nat /\ Len(s) >= 1
      /\ \A k \in 1 .. (Len(s) - 1) : r[k] = s[k + 1]
      /\ Head(s) = s[1]
    BY HeadTailProperties
<1>2. IsFiniteSet(R) /\ Copies(r, t) \in Nat
    BY <1>1, CopiesType
<1>3. IsFiniteSet({k \in DOMAIN s : s[k] = t}) /\ Copies(s, t) \in Nat
    BY CopiesType
<1> HIDE DEF r
<1>4. \A k \in S : k - 1 \in R /\ (k - 1) + 1 = k
    BY <1>1
<1>5. \A k \in R : k \in Nat /\ k + 1 \in S
    BY <1>1
<1>6. g \in Bijection(R, S)
  <2>1. g \in [R -> S]
      BY <1>5
  <2>2. \A a, b \in R : g[a] = g[b] => a = b
      BY <1>5
  <2>3. \A y \in S : \E x \in R : g[x] = y
      BY <1>4
  <2> HIDE DEF g, R, S
  <2> QED BY <2>1, <2>2, <2>3 DEF Bijection, Injection, Surjection, IsInjective
<1>7. ExistsBijection(R, S)
  <2> HIDE DEF g, R, S
  <2> QED BY <1>6 DEF ExistsBijection
<1>8. Cardinality(S) = Cardinality(R) /\ IsFiniteSet(S)
  <2> HIDE DEF g, R, S
  <2> QED BY <1>2, <1>7, FS_Bijection
<1>9. 1 \in DOMAIN s
    BY <1>1
<1>10. CASE Head(s) = t
  <2> DEFINE T == {k \in DOMAIN s : s[k] = t}
  <2>1. 1 \in T /\ S = T \ {1}
      BY <1>1, <1>9, <1>10
  <2>2. Cardinality(T) \in Nat /\ IsFiniteSet(T)
      BY <1>3 DEF Copies
  <2> HIDE DEF T, S, R
  <2>3. Cardinality(T \ {1}) = Cardinality(T) - 1
      BY <2>1, <2>2, FS_RemoveElement
  <2>4. Cardinality(T) = Cardinality(R) + 1
      BY <1>8, <2>1, <2>2, <2>3
  <2> QED BY <1>10, <2>4 DEF Copies, T, R, r
<1>11. CASE Head(s) # t
  <2>1. S = {k \in DOMAIN s : s[k] = t}
      BY <1>1, <1>11
  <2>2. Copies(s, t) = Copies(r, t)
      BY <1>8, <2>1 DEF Copies
  <2> QED BY <1>2, <1>11, <2>2 DEF r
<1> QED BY <1>10, <1>11

-----------------------------------------------------------------------------
(* The tasks of each list. *)

ValueTasks == [kind : {"value"}, item : Items, n : Nat]
RequestTasks == [kind : {"value", "value_seq"}, item : Items, n : Nat]
SerialTasks ==
  {t \in [kind : {"value_seq", "dependent"}, item : Items, n : Nat] :
     t.kind = "dependent" => MastersOf(t.item) # {}}
Serial(i) == {t \in SerialTasks : t.item = i}
ContainerTasks == {Container(i) : i \in Items}
TestTasks == [kind : {"test"}, item : {"test"}, n : Nat]
Jobs == ValueTasks \cup ContainerTasks \cup TestTasks

Sequenced == {sq \in [Items -> Seq(SerialTasks)] : \A i \in Items : sq[i] \in Seq(Serial(i))}
Queues ==
  [pending : Seq(RequestTasks), immediate : Seq(Jobs), finished : Seq(Jobs),
   sequences : Sequenced, tracked : [Items -> Seq(ValueTasks)], held : [Items -> SUBSET ValueTasks],
   pending_num : Int, processing_num : Int, finished_num : Int, signals : Nat]
Works == [Workers -> Jobs \cup {NoTask}]

\* The kind of a task says what it is; containers differ from item to item.
LEMMA TaskKinds ==
  /\ \A t \in Jobs : t.kind \in {"value", "sequence", "test"}
  /\ \A t \in Jobs : t.kind = "value" => t \in ValueTasks
  /\ \A t \in Jobs : t.kind = "test" => t \in TestTasks
  /\ \A t \in Jobs : t.kind = "sequence" => t.item \in Items /\ t = Container(t.item)
  /\ \A t \in ValueTasks \cup TestTasks : \A i : t \in Jobs /\ t # Container(i) /\ t.kind # "sequence"
  /\ \A i \in Items : Container(i) \in Jobs /\ Container(i).kind = "sequence"
                      /\ Container(i).item = i
  /\ NoTask \notin Jobs /\ \A i : NoTask # Container(i)
  /\ \A i, j : Container(i) = Container(j) => i = j
  /\ \A t \in RequestTasks : t.kind = "value" => t \in ValueTasks
  /\ \A t \in RequestTasks : t.kind = "value_seq" => t \in Serial(t.item)
<1>1. \A i : Container(i).kind = "sequence" /\ Container(i).item = i
    BY DEF Container, Task
<1>2. NoTask.kind = "none"
    BY DEF NoTask, Task
<1> QED BY <1>1, <1>2 DEF Jobs, ValueTasks, TestTasks, ContainerTasks, RequestTasks, Serial, SerialTasks

-----------------------------------------------------------------------------
(* The tasks that wait in sequences.  M is the set of items whose container *)
(* the manager has in its hands.                                           *)

Behind(sq, M) ==
  [i \in Items |-> Len(sq[i]) - (IF sq[i] = <<>> \/ i \in M THEN 0 ELSE 1)]
Later(sq, M) == SumFunctionOnSet(Behind(sq, M), Items)

\* The sequence of an item holds serial tasks of that item.
LEMMA SequencedAt ==
  ASSUME NEW sq \in Sequenced, NEW i \in Items
  PROVE  /\ sq[i] \in Seq(Serial(i)) /\ Len(sq[i]) \in Nat
         /\ sq[i] # <<>> => Len(sq[i]) > 0 /\ Head(sq[i]) \in Serial(i)
                            /\ Tail(sq[i]) \in Seq(Serial(i))
                            /\ Len(Tail(sq[i])) = Len(sq[i]) - 1
<1>1. sq[i] \in Seq(Serial(i))
    BY DEF Sequenced
<1> QED BY <1>1, HeadTailProperties

\* The tasks behind the first of each sequence can be counted.
LEMMA LaterInt ==
  ASSUME NEW sq \in Sequenced, NEW M
  PROVE  /\ \A i \in Items : Behind(sq, M)[i] \in Nat
         /\ Later(sq, M) \in Nat
<1>1. \A i \in Items : Behind(sq, M)[i] \in Nat
    BY SequencedAt DEF Behind
<1> QED BY <1>1, SumNat, PreprocAssumption DEF Later

Replaced(sq, i, s, sr) == sr = [sq EXCEPT ![i] = s]

\* A sequence that is replaced leaves the others alone.
LEMMA SequencedChange ==
  ASSUME NEW sq \in Sequenced, NEW i \in Items, NEW s \in Seq(Serial(i)),
         NEW sr, Replaced(sq, i, s, sr)
  PROVE  sr \in Sequenced /\ sr[i] = s /\ \A j \in Items : j # i => sr[j] = sq[j]
<1>1. sq \in [Items -> Seq(SerialTasks)] /\ \A j \in Items : sq[j] \in Seq(Serial(j))
    BY DEF Sequenced
<1>2. Serial(i) \subseteq SerialTasks
    BY DEF Serial
<1>3. s \in Seq(SerialTasks)
    BY <1>2, SeqMonotonic
<1>4. /\ sr \in [Items -> Seq(SerialTasks)]
      /\ sr[i] = s /\ \A j \in Items : j # i => sr[j] = sq[j]
    BY <1>1, <1>3 DEF Replaced
<1>5. \A j \in Items : sr[j] \in Seq(Serial(j))
    BY <1>1, <1>4
<1> QED BY <1>4, <1>5 DEF Sequenced

\* Only one item changes: the count changes by what that item changes.
LEMMA LaterChange ==
  ASSUME NEW sq \in Sequenced, NEW sr \in Sequenced, NEW i \in Items, NEW M, NEW K,
         \A j \in Items : j # i => sr[j] = sq[j] /\ (j \in M <=> j \in K)
  PROVE  Later(sr, K) = Later(sq, M) - Behind(sq, M)[i] + Behind(sr, K)[i]
<1>1. /\ \A j \in Items : Behind(sq, M)[j] \in Int
      /\ Behind(sr, K)[i] \in Int
    BY LaterInt
<1>2. \A j \in Items : j # i => Behind(sr, K)[j] = Behind(sq, M)[j]
    BY DEF Behind
<1> QED BY <1>1, <1>2, SumChanged, PreprocAssumption DEF Later

\* A task that joins a sequence waits behind others; the first task of a
\* sequence is in the list that has its container.
LEMMA LaterJoin ==
  ASSUME NEW sq \in Sequenced, NEW i \in Items, NEW M,
         NEW s \in Seq(Serial(i)), Len(s) = Len(sq[i]) + 1, s # <<>>,
         NEW sr, Replaced(sq, i, s, sr)
  PROVE  /\ sr \in Sequenced /\ sr[i] # <<>>
         /\ \A j \in Items : j # i => sr[j] = sq[j]
         /\ Later(sr, M) = Later(sq, M) + (IF sq[i] = <<>> /\ i \notin M THEN 0 ELSE 1)
<1>1. sq[i] \in Seq(Serial(i)) /\ Len(sq[i]) \in Nat
    BY SequencedAt
<1>2. s \in Seq(Serial(i)) /\ Len(s) = Len(sq[i]) + 1 /\ s # <<>>
    OBVIOUS
<1>3. Replaced(sq, i, s, sr)
    OBVIOUS
<1>4. sr \in Sequenced /\ sr[i] = s /\ \A j \in Items : j # i => sr[j] = sq[j]
    BY <1>2, <1>3, SequencedChange
<1>5. Later(sr, M) = Later(sq, M) - Behind(sq, M)[i] + Behind(sr, M)[i]
    BY <1>4, LaterChange
<1>6. /\ Behind(sq, M)[i] = Len(sq[i]) - (IF sq[i] = <<>> \/ i \in M THEN 0 ELSE 1)
      /\ Behind(sr, M)[i] = Len(s) - (IF i \in M THEN 0 ELSE 1)
    BY <1>2, <1>4 DEF Behind
<1>7. Later(sq, M) \in Nat /\ (sq[i] = <<>> => Len(sq[i]) = 0)
    BY LaterInt
<1>8. Later(sr, M) = Later(sq, M) + (IF sq[i] = <<>> /\ i \notin M THEN 0 ELSE 1)
  <2> DEFINE m == Len(sq[i])
             z == Later(sq, M)
  <2>1. m \in Nat /\ z \in Nat /\ Len(s) = m + 1
      BY <1>1, <1>2, <1>7
  <2>2. Later(sr, M) = z - (m - (IF sq[i] = <<>> \/ i \in M THEN 0 ELSE 1))
                         + (m + 1 - (IF i \in M THEN 0 ELSE 1))
      BY <1>5, <1>6, <2>1
  <2> HIDE DEF m, z
  <2>3. Later(sr, M) = z + (IF sq[i] = <<>> /\ i \notin M THEN 0 ELSE 1)
      BY <1>7, <2>1, <2>2
  <2> QED BY <2>3 DEF z
<1> QED BY <1>2, <1>4, <1>8

\* The manager takes the container of a sequence and its first task.
LEMMA LaterTake ==
  ASSUME NEW sq \in Sequenced, NEW i \in Items, sq[i] # <<>>, NEW M, i \notin M,
         NEW K, i \in K, \A j \in Items : j # i => (j \in M <=> j \in K),
         NEW s \in Seq(Serial(i)), Len(s) = Len(sq[i]) - 1,
         NEW sr, Replaced(sq, i, s, sr)
  PROVE  /\ sr \in Sequenced
         /\ \A j \in Items : j # i => sr[j] = sq[j]
         /\ Later(sr, K) = Later(sq, M)
<1>1. Len(sq[i]) \in Nat /\ Len(s) \in Nat
    BY SequencedAt
<1>3. /\ sr \in Sequenced /\ sr[i] = s
      /\ \A j \in Items : j # i => sr[j] = sq[j] /\ (j \in M <=> j \in K)
    BY <1>1, SequencedChange
<1>4. Later(sr, K) = Later(sq, M) - Behind(sq, M)[i] + Behind(sr, K)[i]
    BY <1>3, LaterChange
<1>5. Behind(sq, M)[i] = Len(sq[i]) - 1 /\ Behind(sr, K)[i] = Len(s)
  <2>1. Behind(sr, K)[i] = Len(s) - 0 /\ Len(s) \in Nat
      BY <1>1, <1>3 DEF Behind
  <2>2. Behind(sq, M)[i] = Len(sq[i]) - 1
      BY DEF Behind
  <2>3. Behind(sr, K)[i] = Len(s)
      BY <2>1
  <2> QED BY <2>2, <2>3
<1>6. Later(sr, K) = Later(sq, M)
    BY <1>1, <1>4, <1>5, LaterInt
<1> QED BY <1>3, <1>6

\* It gives the container back, when there are tasks left.
LEMMA LaterPut ==
  ASSUME NEW sq \in Sequenced, NEW i \in Items, NEW M, i \in M
  PROVE  Later(sq, M \ {i}) = Later(sq, M) - (IF sq[i] = <<>> THEN 0 ELSE 1)
<1> DEFINE K == M \ {i}
<1>1. \A j \in Items : j # i => sq[j] = sq[j] /\ (j \in M <=> j \in K)
    OBVIOUS
<1>2. Later(sq, K) = Later(sq, M) - Behind(sq, M)[i] + Behind(sq, K)[i]
  <2> HIDE DEF K
  <2> QED BY <1>1, LaterChange
<1>3. /\ Behind(sq, M)[i] = Len(sq[i])
      /\ Behind(sq, K)[i] = Len(sq[i]) - (IF sq[i] = <<>> THEN 0 ELSE 1)
      /\ Len(sq[i]) \in Nat
    BY SequencedAt DEF Behind
<1> DEFINE m == Len(sq[i])
<1> HIDE DEF K, m
<1>4. Later(sq, K) = Later(sq, M) - m + (m - (IF sq[i] = <<>> THEN 0 ELSE 1)) /\ m \in Nat
    BY <1>2, <1>3 DEF m
<1>5. Later(sq, K) = Later(sq, M) - (IF sq[i] = <<>> THEN 0 ELSE 1)
    BY <1>4, LaterInt
<1> QED BY <1>5 DEF K

-----------------------------------------------------------------------------
(* The containers: each sequence that has tasks has one in a list, with a   *)
(* worker or in the hands of the manager.                                   *)

Having(b, t) == {w \in Workers : b[w] = t}
Places(im, fi, b, i) ==
  Copies(im, Container(i)) + Copies(fi, Container(i)) + Cardinality(Having(b, Container(i)))
Single(im, fi, sq, b, M) ==
  \A i \in Items : Places(im, fi, b, i) = IF sq[i] = <<>> \/ i \in M THEN 0 ELSE 1
Working(b) == {w \in Workers : b[w] # NoTask}

\* The workers that have a task, or any task, are finitely many.
LEMMA HavingType ==
  ASSUME NEW b, NEW t
  PROVE  /\ IsFiniteSet(Having(b, t)) /\ Cardinality(Having(b, t)) \in Nat
         /\ IsFiniteSet(Working(b)) /\ Cardinality(Working(b)) \in Nat
<1>1. IsFiniteSet(Having(b, t)) /\ IsFiniteSet(Working(b))
    BY FS_Subset, PreprocAssumption DEF Having, Working
<1> QED BY <1>1, FS_CardinalityType

\* The places of the container of an item can be counted.
LEMMA PlacesType ==
  ASSUME NEW im \in Seq(Jobs), NEW fi \in Seq(Jobs), NEW b, NEW i
  PROVE  /\ Copies(im, Container(i)) \in Nat /\ Copies(fi, Container(i)) \in Nat
         /\ Cardinality(Having(b, Container(i))) \in Nat
         /\ Places(im, fi, b, i) \in Nat
<1>1. Copies(im, Container(i)) \in Nat /\ Copies(fi, Container(i)) \in Nat
    BY CopiesType
<1>2. Cardinality(Having(b, Container(i))) \in Nat
    BY HavingType
<1> QED BY <1>1, <1>2 DEF Places

\* A worker without a task takes one.
LEMMA WorkTaken ==
  ASSUME NEW b \in Works, NEW w \in Workers, b[w] = NoTask, NEW t \in Jobs, NEW i
  PROVE  /\ [b EXCEPT ![w] = t] \in Works
         /\ Cardinality(Working([b EXCEPT ![w] = t])) = Cardinality(Working(b)) + 1
         /\ Cardinality(Having([b EXCEPT ![w] = t], Container(i)))
              = Cardinality(Having(b, Container(i))) + (IF t = Container(i) THEN 1 ELSE 0)
<1> DEFINE c == [b EXCEPT ![w] = t]
<1>1. t # NoTask /\ NoTask # Container(i)
    BY TaskKinds
<1>2. c \in Works
    BY DEF Works
<1>3. Working(c) = Working(b) \cup {w} /\ w \notin Working(b)
    BY <1>1 DEF Works, Working
<1>4. Having(c, Container(i)) =
        IF t = Container(i) THEN Having(b, Container(i)) \cup {w} ELSE Having(b, Container(i))
    BY <1>1 DEF Works, Having
<1>5. w \notin Having(b, Container(i))
    BY <1>1 DEF Having
<1> HIDE DEF c
<1>6. Cardinality(Working(c)) = Cardinality(Working(b)) + 1
    BY <1>3, HavingType, FS_AddElement
<1>7. Cardinality(Having(b, Container(i)) \cup {w}) = Cardinality(Having(b, Container(i))) + 1
    BY <1>5, HavingType, FS_AddElement
<1>8. Cardinality(Having(c, Container(i)))
        = Cardinality(Having(b, Container(i))) + (IF t = Container(i) THEN 1 ELSE 0)
  <2>1. Cardinality(Having(b, Container(i))) \in Nat
      BY HavingType
  <2>2. CASE t = Container(i)
      BY <1>4, <1>7, <2>2
  <2>3. CASE t # Container(i)
      BY <1>4, <2>1, <2>3
  <2> QED BY <2>2, <2>3
<1> QED BY <1>2, <1>6, <1>8 DEF c

\* A worker gives its task away.
LEMMA WorkDone ==
  ASSUME NEW b \in Works, NEW w \in Workers, b[w] \in Jobs, NEW i
  PROVE  /\ [b EXCEPT ![w] = NoTask] \in Works /\ [b EXCEPT ![w] = NoTask][w] = NoTask
         /\ Cardinality(Working([b EXCEPT ![w] = NoTask])) = Cardinality(Working(b)) - 1
         /\ Cardinality(Having(b, Container(i)))
              = Cardinality(Having([b EXCEPT ![w] = NoTask], Container(i)))
                + (IF b[w] = Container(i) THEN 1 ELSE 0)
<1> DEFINE c == [b EXCEPT ![w] = NoTask]
<1>1. c \in Works /\ c[w] = NoTask
    BY DEF Works
<1>2. [c EXCEPT ![w] = b[w]] = b
    BY DEF Works
<1> HIDE DEF c
<1>3. /\ Cardinality(Working(b)) = Cardinality(Working(c)) + 1
      /\ Cardinality(Having(b, Container(i)))
           = Cardinality(Having(c, Container(i))) + (IF b[w] = Container(i) THEN 1 ELSE 0)
    BY <1>1, <1>2, WorkTaken
<1>4. Cardinality(Working(c)) \in Nat
    BY HavingType
<1>5. Cardinality(Working(c)) = Cardinality(Working(b)) - 1
    BY <1>3, <1>4
<1> QED BY <1>1, <1>3, <1>5 DEF c

-----------------------------------------------------------------------------
(* The values whose order is tracked: each is processed, and waits for      *)
(* values before it, or is on its way in a list or with a worker.           *)

Underway(pe, im, b) == ToSet(pe) \cup ToSet(im) \cup {b[w] : w \in Workers}
Followed(S, tr, he) ==
  \A i \in Items :
    /\ \A k \in DOMAIN tr[i] : tr[i][k].item = i /\ tr[i][k] \in he[i] \cup S
    /\ he[i] \subseteq ToSet(tr[i])
    /\ tr[i] # <<>> => tr[i][1] \notin he[i]

\* The members of a list that gains or loses a task.
LEMMA InList ==
  ASSUME NEW A, NEW s \in Seq(A), NEW x \in A
  PROVE  /\ ToSet(Append(s, x)) = ToSet(s) \cup {x}
         /\ s # <<>> => ToSet(s) = ToSet(Tail(s)) \cup {Head(s)}
<1>1. ToSet(Append(s, x)) = ToSet(s) \cup {x}
  <2> DEFINE r == Append(s, x)
  <2>1. /\ DOMAIN r = 1 .. (Len(s) + 1) /\ DOMAIN s = 1 .. Len(s) /\ Len(s) \in Nat
        /\ \A k \in 1 .. Len(s) : r[k] = s[k]
        /\ r[Len(s) + 1] = x
      OBVIOUS
  <2> HIDE DEF r
  <2>2. \A k : k \in DOMAIN r <=> k \in DOMAIN s \/ k = Len(s) + 1
      BY <2>1
  <2>3. \A y : (\E k \in DOMAIN r : r[k] = y) <=> (\E k \in DOMAIN s : s[k] = y) \/ y = x
      BY <2>1, <2>2
  <2> QED BY <2>3 DEF ToSet, r
<1>2. ASSUME s # <<>> PROVE ToSet(s) = ToSet(Tail(s)) \cup {Head(s)}
  <2> DEFINE r == Tail(s)
  <2>1. /\ DOMAIN r = 1 .. (Len(s) - 1) /\ DOMAIN s = 1 .. Len(s)
        /\ Len(s) \in Nat /\ Len(s) >= 1
        /\ \A k \in 1 .. (Len(s) - 1) : r[k] = s[k + 1]
        /\ Head(s) = s[1]
      BY <1>2, HeadTailProperties
  <2> HIDE DEF r
  <2>2. \A k \in DOMAIN s : k = 1 \/ (k - 1 \in DOMAIN r /\ r[k - 1] = s[k])
      BY <2>1
  <2>3. \A k \in DOMAIN r : k + 1 \in DOMAIN s /\ s[k + 1] = r[k]
      BY <2>1
  <2>4. 1 \in DOMAIN s
      BY <2>1
  <2>5. \A y : (\E k \in DOMAIN s : s[k] = y) <=> (\E k \in DOMAIN r : r[k] = y) \/ y = Head(s)
      BY <2>1, <2>2, <2>3, <2>4
  <2> QED BY <2>5 DEF ToSet, r
<1> QED BY <1>1, <1>2

\* Values that stay on their way, wherever they are, are still followed.
LEMMA FollowedStill ==
  ASSUME NEW S, NEW R, NEW tr \in [Items -> Seq(ValueTasks)], NEW he, Followed(S, tr, he),
         \A t \in ValueTasks : t \in S => t \in R
  PROVE  Followed(R, tr, he)
BY DEF Followed

\* A value that joins is on its way.
LEMMA FollowedMore ==
  ASSUME NEW S, NEW R, NEW tr \in [Items -> Seq(ValueTasks)], NEW he, Followed(S, tr, he),
         \A t \in ValueTasks : t \in S => t \in R,
         NEW t \in ValueTasks, t \in R,
         NEW tt \in [Items -> Seq(ValueTasks)], tt[t.item] = Append(tr[t.item], t),
         \A i \in Items : i # t.item => tt[i] = tr[i]
  PROVE  Followed(R, tt, he)
<1> SUFFICES ASSUME NEW i \in Items
             PROVE  /\ \A k \in DOMAIN tt[i] : tt[i][k].item = i /\ tt[i][k] \in he[i] \cup R
                    /\ he[i] \subseteq ToSet(tt[i])
                    /\ tt[i] # <<>> => tt[i][1] \notin he[i]
    BY DEF Followed
<1>1. /\ \A k \in DOMAIN tr[i] : tr[i][k].item = i /\ tr[i][k] \in he[i] \cup S
      /\ he[i] \subseteq ToSet(tr[i])
      /\ tr[i] # <<>> => tr[i][1] \notin he[i]
    BY DEF Followed
<1> DEFINE s == tr[i]
           r == tt[i]
<1>2. s \in Seq(ValueTasks)
    OBVIOUS
<1>3. \A k \in DOMAIN s : s[k] \in ValueTasks
    BY <1>2
<1>4. CASE i # t.item
    BY <1>1, <1>3, <1>4
<1>5. CASE i = t.item
  <2>1. r = Append(s, t)
      BY <1>5
  <2> HIDE DEF s, r
  <2>2. /\ DOMAIN r = 1 .. (Len(s) + 1) /\ DOMAIN s = 1 .. Len(s) /\ Len(s) \in Nat
        /\ \A k \in 1 .. Len(s) : r[k] = s[k]
        /\ r[Len(s) + 1] = t
      BY <1>2, <2>1
  <2>3. \A k : k \in DOMAIN r <=> k \in DOMAIN s \/ k = Len(s) + 1
      BY <2>2
  <2>4. \A k \in DOMAIN r : r[k].item = i /\ r[k] \in he[i] \cup R
      BY <1>1, <1>3, <1>5, <2>2, <2>3 DEF s
  <2>5. he[i] \subseteq ToSet(r)
    <3>1. ToSet(r) = ToSet(s) \cup {t}
        BY <1>2, <2>1, InList
    <3> QED BY <1>1, <3>1 DEF s
  <2>6. r[1] \notin he[i]
    <3>1. CASE s = <<>>
      <4>1. ToSet(s) = {}
          BY <3>1 DEF ToSet
      <4> QED BY <1>1, <4>1 DEF s
    <3>2. CASE s # <<>>
      <4>1. 1 \in 1 .. Len(s)
          BY <1>2, <3>2, EmptySeq
      <4> QED BY <1>1, <2>2, <3>2, <4>1 DEF s
    <3> QED BY <3>1, <3>2
  <2> QED BY <2>4, <2>5, <2>6 DEF r
<1> QED BY <1>4, <1>5

\* A worker gets a task; other values leave no list.
LEMMA FollowedTaken ==
  ASSUME NEW pe, NEW im, NEW b \in Works, NEW w \in Workers, b[w] = NoTask, NEW x \in Jobs,
         NEW qe, NEW qm,
         \A u \in ValueTasks : u \in ToSet(pe) \cup ToSet(im) =>
           u = x \/ u \in ToSet(qe) \cup ToSet(qm),
         NEW tr \in [Items -> Seq(ValueTasks)], NEW he, Followed(Underway(pe, im, b), tr, he)
  PROVE  Followed(Underway(qe, qm, [b EXCEPT ![w] = x]), tr, he)
<1> DEFINE S == Underway(pe, im, b)
           c == [b EXCEPT ![w] = x]
           R == Underway(qe, qm, c)
<1>1. c[w] = x /\ \A v \in Workers : v # w => c[v] = b[v]
    BY DEF Works
<1>2. NoTask \notin ValueTasks
    BY TaskKinds DEF Jobs
<1> HIDE DEF c
<1>3. ASSUME NEW u \in ValueTasks, u \in S PROVE u \in R
  <2>1. CASE u \in ToSet(pe) \cup ToSet(im)
      BY <1>1, <2>1 DEF Underway
  <2>2. CASE u \in {b[v] : v \in Workers}
    <3>1. PICK v \in Workers : u = b[v]
        BY <2>2
    <3>2. v # w
        BY <1>2, <3>1
    <3> QED BY <1>1, <3>1, <3>2 DEF Underway
  <2> QED BY <1>3, <2>1, <2>2 DEF Underway
<1>4. Followed(S, tr, he)
    OBVIOUS
<1> HIDE DEF S, R
<1> QED BY <1>3, <1>4, FollowedStill DEF R, c

\* A worker gives a task away that is no value.
LEMMA FollowedLess ==
  ASSUME NEW pe, NEW im, NEW b \in Works, NEW w \in Workers, b[w] \notin ValueTasks,
         NEW tr \in [Items -> Seq(ValueTasks)], NEW he, Followed(Underway(pe, im, b), tr, he)
  PROVE  Followed(Underway(pe, im, [b EXCEPT ![w] = NoTask]), tr, he)
<1> DEFINE S == Underway(pe, im, b)
           c == [b EXCEPT ![w] = NoTask]
           R == Underway(pe, im, c)
<1>1. \A v \in Workers : v # w => c[v] = b[v]
    BY DEF Works
<1> HIDE DEF c
<1>2. \A u \in ValueTasks : u \in S => u \in R
    BY <1>1 DEF Underway
<1>3. Followed(S, tr, he)
    OBVIOUS
<1> HIDE DEF S, R
<1> QED BY <1>2, <1>3, FollowedStill DEF R, c

\* What follows the first k elements of a list.
RestOf(s, k, rest) == rest = SubSeq(s, k + 1, Len(s))

\* Its elements are the elements of the list after position k.
LEMMA RestOfList ==
  ASSUME NEW A, NEW s \in Seq(A), NEW k \in 0 .. Len(s), NEW rest, RestOf(s, k, rest)
  PROVE  /\ rest \in Seq(A) /\ Len(rest) = Len(s) - k /\ DOMAIN rest = 1 .. (Len(s) - k)
         /\ \A j \in 1 .. (Len(s) - k) : k + j \in DOMAIN s /\ rest[j] = s[k + j]
<1>1. Len(s) \in Nat /\ DOMAIN s = 1 .. Len(s) /\ k + 1 \in Int
    OBVIOUS
<1>2. /\ SubSeq(s, k + 1, Len(s)) \in Seq(A)
      /\ Len(SubSeq(s, k + 1, Len(s))) = Len(s) - k
      /\ \A j \in 1 .. (Len(s) - k) : SubSeq(s, k + 1, Len(s))[j] = s[k + j]
  <2> DEFINE m == k + 1
             n == Len(s)
  <2>1. m \in 1 .. Len(s) + 1 /\ n \in m - 1 .. Len(s) /\ n - m + 1 = Len(s) - k
      BY <1>1
  <2>2. \A j \in 1 .. (Len(s) - k) : m + j - 1 = k + j
      BY <1>1
  <2> HIDE DEF m, n
  <2>3. /\ SubSeq(s, m, n) \in Seq(A) /\ Len(SubSeq(s, m, n)) = n - m + 1
        /\ \A j \in 1 .. n - m + 1 : SubSeq(s, m, n)[j] = s[m + j - 1]
      BY <2>1, SubSeqProperties
  <2> QED BY <2>1, <2>2, <2>3 DEF m, n
<1>3. rest \in Seq(A) /\ Len(rest) = Len(s) - k /\ \A j \in 1 .. (Len(s) - k) : rest[j] = s[k + j]
    BY <1>2 DEF RestOf
<1>4. \A j \in 1 .. (Len(s) - k) : k + j \in DOMAIN s
    BY <1>1
<1>5. DOMAIN rest = 1 .. Len(rest)
    BY <1>3
<1> QED BY <1>3, <1>4, <1>5

\* An element after position k is in the rest.
LEMMA RestHas ==
  ASSUME NEW A, NEW s \in Seq(A), NEW k \in 0 .. Len(s), NEW rest, RestOf(s, k, rest),
         NEW j \in DOMAIN s, k < j
  PROVE  s[j] \in ToSet(rest)
<1>1. Len(s) \in Nat /\ DOMAIN s = 1 .. Len(s)
    OBVIOUS
<1>2. j - k \in 1 .. (Len(s) - k) /\ k + (j - k) = j
    BY <1>1
<1>3. j - k \in DOMAIN rest /\ rest[j - k] = s[j]
    BY <1>2, RestOfList
<1> QED BY <1>3 DEF ToSet

\* Ready values go as far as the first that is not processed.
LEMMA ReadyMost ==
  ASSUME NEW A, NEW s \in Seq(A), NEW done, Ready(s, done) < Len(s)
  PROVE  s[Ready(s, done) + 1] \notin done
<1> DEFINE S == {k \in 0 .. Len(s) : \A j \in 1 .. k : s[j] \in done}
           k == Ready(s, done)
<1>1. Len(s) \in Nat /\ 0 \in S
    OBVIOUS
<1>2. Max(S) \in S /\ \A x \in S : x <= Max(S)
  <2>1. S \in SUBSET (0 .. Len(s)) /\ S # {}
      BY <1>1
  <2> HIDE DEF S
  <2> QED BY <1>1, <2>1, MaxIn
<1>3. k = Max(S)
    BY DEF Ready
<1> HIDE DEF k
<1>4. k \in 0 .. Len(s) /\ (\A j \in 1 .. k : s[j] \in done) /\ k + 1 \notin S /\ k < Len(s)
  <2>1. k \in S /\ k \in Int /\ \A x \in S : x <= k
      BY <1>2, <1>3
  <2>2. k < Len(s)
      BY DEF k
  <2> QED BY <2>1, <2>2
<1>5. k + 1 \in 0 .. Len(s)
    BY <1>1, <1>4
<1>6. \E j \in 1 .. (k + 1) : s[j] \notin done
    BY <1>4, <1>5
<1>7. \A j \in 1 .. (k + 1) : j \in 1 .. k \/ j = k + 1
    BY <1>4
<1>8. s[k + 1] \notin done
    BY <1>4, <1>6, <1>7
<1> QED BY <1>8 DEF k

\* The first k values have waited long enough.
Waited(s, done, k) == k = Ready(s, done)

Advanced(tr, he, t, rest, tt, hh) ==
  /\ tt[t.item] = rest /\ hh[t.item] = (he[t.item] \cup {t}) \cap ToSet(rest)
  /\ \A i \in Items : i # t.item => tt[i] = tr[i] /\ hh[i] = he[i]

\* A processed value passes the values that waited for it, or waits itself.
LEMMA FollowedDone ==
  ASSUME NEW S, NEW R, NEW tr \in [Items -> Seq(ValueTasks)],
         NEW he \in [Items -> SUBSET ValueTasks], Followed(S, tr, he),
         NEW t \in ValueTasks, \A u \in ValueTasks : u \in S => u = t \/ u \in R,
         NEW k \in 0 .. Len(tr[t.item]), Waited(tr[t.item], he[t.item] \cup {t}, k),
         NEW rest, RestOf(tr[t.item], k, rest),
         NEW tt \in [Items -> Seq(ValueTasks)], NEW hh, Advanced(tr, he, t, rest, tt, hh)
  PROVE  Followed(R, tt, hh)
<1> SUFFICES ASSUME NEW i \in Items
             PROVE  /\ \A j \in DOMAIN tt[i] : tt[i][j].item = i /\ tt[i][j] \in hh[i] \cup R
                    /\ hh[i] \subseteq ToSet(tt[i])
                    /\ tt[i] # <<>> => tt[i][1] \notin hh[i]
    BY DEF Followed
<1> DEFINE s == tr[i]
           r == tt[i]
           h == he[i]
<1>1. /\ \A j \in DOMAIN s : s[j].item = i /\ s[j] \in h \cup S
      /\ h \subseteq ToSet(s)
      /\ s # <<>> => s[1] \notin h
    BY DEF Followed
<1>2. s \in Seq(ValueTasks) /\ t.item \in Items
    BY DEF ValueTasks
<1>3. \A j \in DOMAIN s : s[j] \in ValueTasks
    BY <1>2
<1>4. CASE i # t.item
  <2>1. r = s /\ hh[i] = h
      BY <1>4 DEF Advanced
  <2> HIDE DEF s, r, h
  <2>2. \A j \in DOMAIN s : s[j] # t
      BY <1>1, <1>4
  <2>3. \A j \in DOMAIN s : s[j] \in h \cup R
      BY <1>1, <1>3, <2>2
  <2>4. \A j \in DOMAIN r : r[j].item = i /\ r[j] \in hh[i] \cup R
      BY <1>1, <2>1, <2>3
  <2>5. hh[i] \subseteq ToSet(r) /\ (r # <<>> => r[1] \notin hh[i])
      BY <1>1, <2>1
  <2> QED BY <2>4, <2>5 DEF r
<1>5. CASE i = t.item
  <2> DEFINE d == h \cup {t}
  <2>1. r = rest /\ hh[i] = d \cap ToSet(rest) /\ Waited(s, d, k)
        /\ RestOf(s, k, rest) /\ k \in 0 .. Len(s)
      BY <1>5 DEF Advanced
  <2> HIDE DEF s, r, h
  <2>2. /\ Len(rest) = Len(s) - k /\ DOMAIN rest = 1 .. (Len(s) - k)
        /\ \A j \in 1 .. (Len(s) - k) : k + j \in DOMAIN s /\ rest[j] = s[k + j]
        /\ rest \in Seq(ValueTasks) /\ Len(s) \in Nat
      BY <1>2, <2>1, RestOfList
  <2>3. \A u \in d \cup S : u \in ValueTasks => u \in d \cup R
      OBVIOUS
  <2>4. \A j \in DOMAIN rest : rest[j].item = i /\ rest[j] \in d \cup R
    <3>1. \A j \in DOMAIN s : s[j].item = i /\ s[j] \in d \cup R
      <4>1. \A j \in DOMAIN s : s[j] \in d \cup S
          BY <1>1
      <4> HIDE DEF d
      <4> QED BY <1>1, <1>3, <2>3, <4>1
    <3> HIDE DEF d
    <3>2. \A j \in DOMAIN rest : \E x \in DOMAIN s : rest[j] = s[x]
        BY <2>2
    <3> QED BY <3>1, <3>2
  <2>5. \A j \in DOMAIN rest : rest[j] \in ToSet(rest)
      BY DEF ToSet
  <2>6. rest # <<>> => rest[1] \notin d
    <3> SUFFICES ASSUME rest # <<>> PROVE rest[1] \notin d
        OBVIOUS
    <3>1. 1 \in 1 .. (Len(s) - k) /\ k < Len(s)
      <4>1. Len(rest) # 0
          BY <2>2, EmptySeq
      <4> QED BY <2>1, <2>2, <4>1
    <3>2. s[k + 1] \notin d
      <4>1. s[Ready(s, d) + 1] \notin d
          BY <1>2, <2>1, <3>1, ReadyMost DEF Waited
      <4> QED BY <2>1, <4>1 DEF Waited
    <3> QED BY <2>2, <3>1, <3>2
  <2> HIDE DEF d
  <2> QED BY <2>1, <2>4, <2>5, <2>6 DEF r
<1> QED BY <1>4, <1>5

-----------------------------------------------------------------------------
(* The counters of the queue. *)

Balanced(q, b, M) ==
  /\ q \in Queues /\ b \in Works
  /\ Followed(Underway(q.pending, q.immediate, b), q.tracked, q.held)
  /\ Single(q.immediate, q.finished, q.sequences, b, M)
  /\ q.pending_num = Len(q.pending) + Len(q.immediate) + Later(q.sequences, M)
  /\ q.processing_num = Cardinality(Working(b))
  /\ q.finished_num = Len(q.finished)

\* The lists that a push may change.
Others(q, r) ==
  /\ r.finished = q.finished /\ r.processing_num = q.processing_num
  /\ r.finished_num = q.finished_num /\ r.signals = q.signals /\ r.held = q.held

\* The types of the lists and counters of a queue.
LEMMA QueueFields ==
  ASSUME NEW q \in Queues
  PROVE  /\ q.pending \in Seq(RequestTasks) /\ q.immediate \in Seq(Jobs)
         /\ q.finished \in Seq(Jobs) /\ q.sequences \in Sequenced
         /\ q.tracked \in [Items -> Seq(ValueTasks)] /\ q.held \in [Items -> SUBSET ValueTasks]
         /\ q.pending_num \in Int /\ q.processing_num \in Int
         /\ q.finished_num \in Int /\ q.signals \in Nat
         /\ Len(q.pending) \in Nat /\ Len(q.immediate) \in Nat /\ Len(q.finished) \in Nat
<1>1. /\ q.pending \in Seq(RequestTasks) /\ q.immediate \in Seq(Jobs)
      /\ q.finished \in Seq(Jobs) /\ q.sequences \in Sequenced
      /\ q.tracked \in [Items -> Seq(ValueTasks)] /\ q.held \in [Items -> SUBSET ValueTasks]
      /\ q.pending_num \in Int /\ q.processing_num \in Int
      /\ q.finished_num \in Int /\ q.signals \in Nat
    BY DEF Queues
<1> QED BY <1>1, LenProperties

\* A list that gets a task that is no container has the same containers.
LEMMA SingleAppend ==
  ASSUME NEW im \in Seq(Jobs), NEW fi \in Seq(Jobs), NEW sq, NEW b, NEW M,
         Single(im, fi, sq, b, M), NEW t \in ValueTasks \cup TestTasks
  PROVE  Single(Append(im, t), fi, sq, b, M)
<1> SUFFICES ASSUME NEW i \in Items
             PROVE  Places(Append(im, t), fi, b, i) = Places(im, fi, b, i)
    BY DEF Single
<1>1. t \in Jobs /\ t # Container(i)
    BY TaskKinds
<1>2. Copies(Append(im, t), Container(i)) = Copies(im, Container(i))
  <2>1. Copies(im, Container(i)) \in Nat
      BY PlacesType
  <2> QED BY <1>1, <2>1, CopiesAppend
<1> QED BY <1>2 DEF Places

\* A sequence that has tasks, or whose container the manager has, may get another.
LEMMA SingleJoin ==
  ASSUME NEW im, NEW fi, NEW sq \in Sequenced, NEW sr \in Sequenced, NEW b, NEW M,
         Single(im, fi, sq, b, M),
         \A i \in Items : i \in M \/ (sq[i] = <<>> <=> sr[i] = <<>>)
  PROVE  Single(im, fi, sr, b, M)
BY DEF Single

\* A sequence that gets its first task gets its container.
LEMMA SingleNew ==
  ASSUME NEW im \in Seq(Jobs), NEW fi \in Seq(Jobs), NEW sq \in Sequenced,
         NEW sr \in Sequenced, NEW b, NEW M, NEW K, Single(im, fi, sq, b, M), NEW i \in Items,
         sq[i] = <<>> \/ i \in M, sr[i] # <<>>, i \notin K,
         \A j \in Items : j # i => sr[j] = sq[j] /\ (j \in K <=> j \in M)
  PROVE  Single(Append(im, Container(i)), fi, sr, b, K)
<1> SUFFICES ASSUME NEW j \in Items
             PROVE  Places(Append(im, Container(i)), fi, b, j)
                      = IF sr[j] = <<>> \/ j \in K THEN 0 ELSE 1
    BY DEF Single
<1>1. Container(i) \in Jobs /\ (Container(i) = Container(j) <=> i = j)
    BY TaskKinds
<1>2. Copies(Append(im, Container(i)), Container(j))
        = Copies(im, Container(j)) + (IF i = j THEN 1 ELSE 0)
    BY <1>1, CopiesAppend
<1>3. Places(im, fi, b, j) = IF sq[j] = <<>> \/ j \in M THEN 0 ELSE 1
    BY DEF Single
<1>4. Places(Append(im, Container(i)), fi, b, j)
        = Places(im, fi, b, j) + (IF i = j THEN 1 ELSE 0)
  <2> DEFINE c == Copies(im, Container(j))
             d == Copies(fi, Container(j))
             e == Cardinality(Having(b, Container(j)))
  <2>1. c \in Nat /\ d \in Nat /\ e \in Nat
      BY PlacesType
  <2>2. Places(Append(im, Container(i)), fi, b, j) = c + (IF i = j THEN 1 ELSE 0) + d + e
      BY <1>2 DEF Places
  <2>3. Places(im, fi, b, j) = c + d + e
      BY DEF Places
  <2> HIDE DEF c, d, e
  <2> QED BY <2>1, <2>2, <2>3
<1> QED BY <1>3, <1>4

-----------------------------------------------------------------------------
(* The pushes. *)

\* Tracking a value (zbx_pp_value_task_track) changes the tracked lists only.
LEMMA TrackFields ==
  ASSUME NEW q \in Queues, NEW t, t.kind = "value" => t \in ValueTasks
  PROVE  /\ Track(q, t) \in Queues
         /\ Track(q, t) = [q EXCEPT !.tracked = Track(q, t).tracked]
<1>1. CASE t.kind # "value"
    BY <1>1 DEF Track, Queues
<1>2. CASE t.kind = "value"
  <2>1. t \in ValueTasks /\ t.item \in Items
      BY <1>2 DEF ValueTasks
  <2>2. q.tracked \in [Items -> Seq(ValueTasks)]
      BY QueueFields
  <2>3. Append(q.tracked[t.item], t) \in Seq(ValueTasks)
      BY <2>1, <2>2, AppendProperties
  <2>4. [q.tracked EXCEPT ![t.item] = Append(@, t)] \in [Items -> Seq(ValueTasks)]
      BY <2>2, <2>3
  <2>5. Track(q, t) = [q EXCEPT !.tracked = [q.tracked EXCEPT ![t.item] = Append(@, t)]]
      BY <1>2 DEF Track, Queues
  <2> DEFINE tr == [q.tracked EXCEPT ![t.item] = Append(@, t)]
  <2> HIDE DEF tr
  <2>6. [q EXCEPT !.tracked = tr] \in Queues /\ [q EXCEPT !.tracked = tr].tracked = tr
      BY <2>4 DEF tr, Queues
  <2> QED BY <2>5, <2>6 DEF tr
<1> QED BY <1>1, <1>2

\* A tracked value is followed when it is on its way.
LEMMA TrackFollowed ==
  ASSUME NEW q \in Queues, NEW t, t.kind = "value" => t \in ValueTasks,
         NEW S, NEW R, Followed(S, q.tracked, q.held),
         \A u \in ValueTasks : u \in S => u \in R, t.kind = "value" => t \in R
  PROVE  Followed(R, Track(q, t).tracked, q.held)
<1>1. q.tracked \in [Items -> Seq(ValueTasks)]
    BY QueueFields
<1>2. CASE t.kind # "value"
  <2>1. Track(q, t) = q
      BY <1>2 DEF Track
  <2>2. Followed(R, q.tracked, q.held)
      BY <1>1, FollowedStill
  <2> QED BY <2>1, <2>2
<1>3. CASE t.kind = "value"
  <2> DEFINE tr == q.tracked
             tt == Track(q, t).tracked
             he == q.held
  <2>1. t \in ValueTasks /\ t.item \in Items /\ t \in R
      BY <1>3 DEF ValueTasks
  <2>2. tt = [q.tracked EXCEPT ![t.item] = Append(@, t)]
      BY <1>3 DEF Track, Queues
  <2>3. /\ tt[t.item] = Append(tr[t.item], t)
        /\ \A i \in Items : i # t.item => tt[i] = tr[i]
      BY <1>1, <2>1, <2>2
  <2>4. tt \in [Items -> Seq(ValueTasks)]
      BY <1>3, TrackFields, QueueFields
  <2>5. Followed(S, tr, he) /\ tr \in [Items -> Seq(ValueTasks)]
      BY <1>1
  <2> HIDE DEF tr, tt, he
  <2> QED BY <2>1, <2>3, <2>4, <2>5, FollowedMore DEF tt, he
<1> QED BY <1>2, <1>3

\* A task added to a list is on its way.
LEMMA UnderwayMore ==
  ASSUME NEW A, NEW B, NEW pe \in Seq(A), NEW im \in Seq(B), NEW b, NEW x
  PROVE  /\ x \in A => Underway(Append(pe, x), im, b) = Underway(pe, im, b) \cup {x}
         /\ x \in B => Underway(pe, Append(im, x), b) = Underway(pe, im, b) \cup {x}
BY InList DEF Underway

\* What a push does to a queue: its result is balanced, and only the lists
\* of tasks that wait have changed.
Pushed(q, r, b, M) == Balanced(r, b, M) /\ Others(q, r)

\* A task of a request joins the pending list.
LEMMA PushRequestTask ==
  ASSUME NEW q, NEW b, NEW M, Balanced(q, b, M), NEW t \in RequestTasks
  PROVE  Pushed(q, [Track(q, t) EXCEPT !.pending_num = @ + 1, !.pending = Append(@, t)], b, M)
<1> DEFINE tr == Track(q, t).tracked
           pn == q.pending_num + 1
           pe == Append(q.pending, t)
           r == [q EXCEPT !.tracked = tr, !.pending_num = pn, !.pending = pe]
<1>1. q \in Queues
    BY DEF Balanced
<1>2. Track(q, t) \in Queues /\ Track(q, t) = [q EXCEPT !.tracked = tr]
    BY <1>1, TaskKinds, TrackFields
<1>3. tr \in [Items -> Seq(ValueTasks)]
    BY <1>2, QueueFields
<1> HIDE DEF tr
<1>4. [Track(q, t) EXCEPT !.pending_num = @ + 1, !.pending = Append(@, t)] = r
    BY <1>1, <1>2 DEF Queues
<1>5. pe \in Seq(RequestTasks) /\ Len(pe) = Len(q.pending) + 1 /\ pn \in Int
    BY <1>1, QueueFields, AppendProperties
<1>9. Followed(Underway(pe, q.immediate, b), tr, q.held)
  <2> DEFINE S == Underway(q.pending, q.immediate, b)
             R == Underway(pe, q.immediate, b)
  <2>1. R = S \cup {t}
      BY <1>1, QueueFields, UnderwayMore
  <2>2. Followed(S, q.tracked, q.held)
      BY DEF Balanced
  <2>3. t.kind = "value" => t \in ValueTasks
      BY TaskKinds
  <2> HIDE DEF S, R
  <2> QED BY <1>1, <2>1, <2>2, <2>3, TrackFollowed DEF R, tr
<1> HIDE DEF pe, pn
<1>6. r \in Queues
    BY <1>1, <1>3, <1>5 DEF Queues
<1>7. /\ r.pending = pe /\ r.pending_num = pn
      /\ r.immediate = q.immediate /\ r.sequences = q.sequences /\ Others(q, r)
      /\ r.tracked = tr
    BY <1>1 DEF Queues, Others
<1> HIDE DEF r
<1>8. r.pending_num = Len(r.pending) + Len(r.immediate) + Later(r.sequences, M)
  <2>1. q.pending_num = Len(q.pending) + Len(q.immediate) + Later(q.sequences, M)
      BY DEF Balanced
  <2>2. /\ Len(q.pending) \in Nat /\ Len(q.immediate) \in Nat
        /\ Later(q.sequences, M) \in Nat
      BY <1>1, QueueFields, LaterInt
  <2> DEFINE x == Len(q.pending) y == Len(q.immediate) z == Later(q.sequences, M)
  <2>3. r.pending_num = (x + y + z) + 1
      BY <1>7, <2>1 DEF pn
  <2>4. Len(r.pending) = x + 1 /\ Len(r.immediate) = y /\ Later(r.sequences, M) = z
      BY <1>5, <1>7
  <2>5. x \in Nat /\ y \in Nat /\ z \in Nat
      BY <2>2
  <2> HIDE DEF x, y, z
  <2> QED BY <2>3, <2>4, <2>5
<1> QED BY <1>4, <1>6, <1>7, <1>8, <1>9 DEF Pushed, Balanced, Others

\* A value or a test joins the immediate list.
LEMMA PushJob ==
  ASSUME NEW q, NEW b, NEW M, Balanced(q, b, M), NEW t \in ValueTasks \cup TestTasks
  PROVE  /\ Pushed(q, PushImmediate(q, t), b, M)
         /\ PushImmediate(q, t).pending = q.pending
<1> DEFINE tr == Track(q, t).tracked
           pn == q.pending_num + 1
           im == Append(q.immediate, t)
           r == [q EXCEPT !.tracked = tr, !.pending_num = pn, !.immediate = im]
<1>1. q \in Queues
    BY DEF Balanced
<1>2. t \in Jobs /\ t.kind \in {"value", "test"} /\ (t.kind = "value" => t \in ValueTasks)
    BY TaskKinds DEF ValueTasks, TestTasks
<1>3. Track(q, t) \in Queues /\ Track(q, t) = [q EXCEPT !.tracked = tr]
    BY <1>1, <1>2, TrackFields
<1>4. tr \in [Items -> Seq(ValueTasks)]
    BY <1>3, QueueFields
<1> HIDE DEF tr
<1>5. PushImmediate(q, t) = r
  <2>1. PushImmediate(q, t)
          = [[Track(q, t) EXCEPT !.pending_num = @ + 1] EXCEPT !.immediate = Append(@, t)]
      BY <1>2 DEF PushImmediate
  <2> QED BY <1>1, <1>3, <2>1 DEF Queues
<1>6. im \in Seq(Jobs) /\ Len(im) = Len(q.immediate) + 1 /\ pn \in Int
    BY <1>1, <1>2, QueueFields, AppendProperties
<1>11. Followed(Underway(q.pending, im, b), tr, q.held)
  <2> DEFINE S == Underway(q.pending, q.immediate, b)
             R == Underway(q.pending, im, b)
  <2>1. R = S \cup {t}
      BY <1>1, <1>2, QueueFields, UnderwayMore
  <2>2. Followed(S, q.tracked, q.held)
      BY DEF Balanced
  <2> HIDE DEF S, R
  <2> QED BY <1>1, <1>2, <2>1, <2>2, TrackFollowed DEF R, tr
<1> HIDE DEF pn
<1>7. r \in Queues
    BY <1>1, <1>4, <1>6 DEF Queues
<1>8. /\ r.immediate = Append(q.immediate, t) /\ r.pending_num = pn
      /\ r.pending = q.pending /\ r.sequences = q.sequences /\ Others(q, r)
      /\ r.tracked = tr
    BY <1>1 DEF Queues, Others
<1> HIDE DEF r
<1>9. r.pending_num = Len(r.pending) + Len(r.immediate) + Later(r.sequences, M)
  <2>1. q.pending_num = Len(q.pending) + Len(q.immediate) + Later(q.sequences, M)
      BY DEF Balanced
  <2>2. /\ Len(q.pending) \in Nat /\ Len(q.immediate) \in Nat
        /\ Later(q.sequences, M) \in Nat
      BY <1>1, QueueFields, LaterInt
  <2> DEFINE x == Len(q.pending) y == Len(q.immediate) z == Later(q.sequences, M)
  <2>3. r.pending_num = (x + y + z) + 1
      BY <1>8, <2>1 DEF pn
  <2>4. Len(r.pending) = x /\ Len(r.immediate) = y + 1 /\ Later(r.sequences, M) = z
      BY <1>6, <1>8
  <2>5. x \in Nat /\ y \in Nat /\ z \in Nat
      BY <2>2
  <2> HIDE DEF x, y, z
  <2> QED BY <2>3, <2>4, <2>5
<1>10. Single(r.immediate, r.finished, r.sequences, b, M)
    BY <1>1, <1>8, SingleAppend, QueueFields DEF Balanced, Others
<1> QED BY <1>5, <1>7, <1>8, <1>9, <1>10, <1>11 DEF Pushed, Balanced, Others

\* A task that must wait for its predecessors joins its sequence, and the first
\* one puts the container into the immediate list.
LEMMA PushSerial ==
  ASSUME NEW q, NEW b, NEW M, Balanced(q, b, M), NEW t \in SerialTasks, t.item \notin M
  PROVE  /\ Pushed(q, PushImmediate(q, t), b, M)
         /\ PushImmediate(q, t).pending = q.pending
<1> DEFINE i == t.item
           sq == q.sequences
           sr == [sq EXCEPT ![i] = Append(@, t)]
           im == IF sq[i] = <<>> THEN Append(q.immediate, Container(i)) ELSE q.immediate
           pn == q.pending_num + 1
           r == [q EXCEPT !.sequences = sr, !.pending_num = pn, !.immediate = im]
<1>1. q \in Queues /\ sq \in Sequenced /\ i \in Items /\ t \in Serial(i) /\ i \notin M
    BY QueueFields DEF Balanced, SerialTasks, Serial
<1>2. t.kind \in {"value_seq", "dependent"}
    BY DEF SerialTasks
<1>3. PushImmediate(q, t) = r
  <2>1. Track(q, t) = q
      BY <1>2 DEF Track
  <2>2. CASE sq[i] = <<>>
    <3>1. PushImmediate(q, t)
            = [AddSequence([q EXCEPT !.pending_num = @ + 1], t)
                 EXCEPT !.immediate = Append(@, Container(i))]
        BY <1>2, <2>1, <2>2 DEF PushImmediate, NewSequence
    <3> QED BY <1>1, <2>2, <3>1 DEF AddSequence, Queues
  <2>3. CASE sq[i] # <<>>
    <3>1. PushImmediate(q, t) = AddSequence([q EXCEPT !.pending_num = @ + 1], t)
        BY <1>2, <2>1, <2>3 DEF PushImmediate, NewSequence
    <3> QED BY <1>1, <2>3, <3>1 DEF AddSequence, Queues
  <2> HIDE DEF r, sq, i
  <2> QED BY <2>2, <2>3
<1>4. /\ sr \in Sequenced /\ sr[i] # <<>>
      /\ \A j \in Items : j # i => sr[j] = sq[j]
      /\ Later(sr, M) = Later(sq, M) + (IF sq[i] = <<>> /\ i \notin M THEN 0 ELSE 1)
  <2> DEFINE s == Append(sq[i], t)
  <2>1. Replaced(sq, i, s, sr)
      BY DEF Replaced
  <2> HIDE DEF i, sq, sr
  <2>2. s \in Seq(Serial(i)) /\ Len(s) = Len(sq[i]) + 1 /\ s # <<>>
      BY <1>1, SequencedAt, AppendProperties
  <2> HIDE DEF s
  <2> QED BY <1>1, <2>1, <2>2, LaterJoin
<1> HIDE DEF sr
<1>6. im \in Seq(Jobs) /\ Len(im) = Len(q.immediate) + (IF sq[i] = <<>> THEN 1 ELSE 0)
  <2>1. Container(i) \in Jobs
      BY <1>1, TaskKinds
  <2>2. q.immediate \in Seq(Jobs) /\ Len(q.immediate) \in Nat
      BY <1>1, QueueFields
  <2>3. /\ Append(q.immediate, Container(i)) \in Seq(Jobs)
        /\ Len(Append(q.immediate, Container(i))) = Len(q.immediate) + 1
      BY <2>1, <2>2, AppendProperties
  <2>4. CASE sq[i] = <<>>
      BY <2>3, <2>4
  <2>5. CASE sq[i] # <<>>
      BY <2>2, <2>5
  <2> QED BY <2>4, <2>5
<1>7. Single(im, q.finished, sr, b, M)
  <2>1. Single(q.immediate, q.finished, sq, b, M)
      BY DEF Balanced
  <2>2. CASE sq[i] = <<>>
    <3>1. im = Append(q.immediate, Container(i))
        BY <2>2
    <3> HIDE DEF i, sq
    <3> QED BY <1>1, <1>4, <2>1, <2>2, <3>1, SingleNew, QueueFields
  <2>3. CASE sq[i] # <<>>
    <3>1. im = q.immediate
        BY <2>3
    <3>2. \A j \in Items : sq[j] = <<>> <=> sr[j] = <<>>
        BY <1>4, <2>3
    <3> HIDE DEF i, sq
    <3> QED BY <1>1, <1>4, <2>1, <3>1, <3>2, SingleJoin
  <2> QED BY <2>2, <2>3
<1>11. Followed(Underway(q.pending, im, b), q.tracked, q.held)
  <2> DEFINE S == Underway(q.pending, q.immediate, b)
             R == Underway(q.pending, im, b)
  <2>1. S \subseteq R
    <3>1. Container(i) \in Jobs
        BY <1>1, TaskKinds
    <3>2. Underway(q.pending, Append(q.immediate, Container(i)), b) = S \cup {Container(i)}
        BY <1>1, <3>1, QueueFields, UnderwayMore
    <3> QED BY <3>2
  <2>2. Followed(S, q.tracked, q.held)
      BY DEF Balanced
  <2> HIDE DEF S, R
  <2> QED BY <1>1, <2>1, <2>2, FollowedStill, QueueFields DEF R
<1>5. pn \in Int
    BY <1>1, QueueFields
<1> HIDE DEF im, pn
<1>8. r \in Queues
    BY <1>1, <1>4, <1>5, <1>6 DEF Queues
<1>9. /\ r.immediate = im /\ r.pending_num = pn
      /\ r.pending = q.pending /\ r.sequences = sr /\ Others(q, r)
      /\ r.tracked = q.tracked
    BY <1>1 DEF Queues, Others
<1> HIDE DEF r
<1>10. r.pending_num = Len(r.pending) + Len(r.immediate) + Later(r.sequences, M)
  <2>1. q.pending_num = Len(q.pending) + Len(q.immediate) + Later(sq, M)
      BY DEF Balanced
  <2> DEFINE x == Len(q.pending) y == Len(q.immediate) z == Later(sq, M)
             e == IF sq[i] = <<>> THEN 1 ELSE 0
  <2>2. x \in Nat /\ y \in Nat /\ z \in Nat
      BY <1>1, QueueFields, LaterInt
  <2>3. r.pending_num = (x + y + z) + 1
      BY <1>9, <2>1 DEF pn
  <2>4. Len(r.pending) = x /\ Len(r.immediate) = y + e
      BY <1>6, <1>9
  <2>6. Later(r.sequences, M) = z + (1 - e)
    <3>1. 1 - e = IF sq[i] = <<>> /\ i \notin M THEN 0 ELSE 1
        BY <1>1
    <3>2. Later(r.sequences, M) = z + (IF sq[i] = <<>> /\ i \notin M THEN 0 ELSE 1)
        BY <1>4, <1>9
    <3> HIDE DEF e, z
    <3> QED BY <3>1, <3>2
  <2>5. e \in Int
      OBVIOUS
  <2> HIDE DEF x, y, z, e
  <2> QED BY <2>2, <2>3, <2>4, <2>5, <2>6
<1> QED BY <1>3, <1>7, <1>8, <1>9, <1>10, <1>11 DEF Pushed, Balanced, Others

\* A push after a push is a push.
LEMMA OthersChain ==
  ASSUME NEW q, NEW r, NEW s, NEW b, NEW M, Others(q, r), Pushed(r, s, b, M)
  PROVE  Pushed(q, s, b, M)
BY DEF Pushed, Others

\* A task of a request is pushed.
LEMMA PushOne ==
  ASSUME NEW q, NEW b, Balanced(q, b, {}), NEW t \in RequestTasks
  PROVE  Pushed(q, Push(q, t), b, {})
<1>1. CASE t.item \notin Priority
    BY <1>1, PushRequestTask DEF Push
<1>2. CASE t.item \in Priority
  <2>1. t \in ValueTasks \/ (t \in SerialTasks /\ t.item \notin {})
      BY TaskKinds DEF RequestTasks, Serial
  <2>2. Push(q, t) = PushImmediate(q, t)
      BY <1>2 DEF Push
  <2> QED BY <2>1, <2>2, PushJob, PushSerial
<1> QED BY <1>1, <1>2

\* A request is pushed task by task.
LEMMA PushAll ==
  ASSUME NEW q, NEW b, Balanced(q, b, {}), NEW tasks \in Seq(RequestTasks)
  PROVE  Pushed(q, FoldLeft(Push, q, tasks), b, {})
<1> DEFINE N == Len(tasks)
           V == {r \in Queues : Pushed(q, r, b, {})}
           f == [p \in (1 .. N) \X V |-> Push(p[2], tasks[p[1]])]
           Body(it, s) == IF s = {} THEN q ELSE Push(it[s \ {Max(s)}], tasks[Max(s)])
           jt == CHOOSE it : it = [s \in SUBSET DOMAIN tasks |-> Body(it, s)]
<1>1. DOMAIN tasks = 1 .. N /\ N \in Nat
    OBVIOUS
<1>2. q \in V
    BY DEF Pushed, Balanced, Others
<1>3. ASSUME NEW n \in 1 .. N, NEW v \in V
      PROVE  Push(v, tasks[n]) \in V /\ f[<<n, v>>] = Push(v, tasks[n])
  <2>1. tasks[n] \in RequestTasks /\ Balanced(v, b, {}) /\ Others(q, v)
      BY DEF Pushed
  <2>2. Pushed(q, Push(v, tasks[n]), b, {})
      BY <2>1, PushOne, OthersChain
  <2>3. Push(v, tasks[n]) \in Queues
      BY <2>2 DEF Pushed, Balanced
  <2> QED BY <2>2, <2>3
<1> HIDE DEF V, f, N
<1>4. PICK it \in [SUBSET (1 .. N) -> V] : StepsOf(N, q, f, it)
    BY <1>1, <1>2, <1>3, FoldExists
<1>5. ASSUME NEW s \in SUBSET (1 .. N) PROVE it[s] = Body(it, s)
  <2>1. it[s] = IF s = {} THEN q ELSE f[<<Max(s), it[s \ {Max(s)}]>>]
      BY <1>4 DEF StepsOf
  <2>2. CASE s # {}
    <3>1. s \in SUBSET (0 .. N)
        BY <1>1
    <3>2. Max(s) \in s
        BY <1>1, <2>2, <3>1, MaxIn
    <3>3. Max(s) \in 1 .. N /\ it[s \ {Max(s)}] \in V
        BY <3>2
    <3> QED BY <1>3, <2>1, <2>2, <3>3
  <2> QED BY <2>1, <2>2
<1>6. it = [s \in SUBSET DOMAIN tasks |-> Body(it, s)]
  <2> HIDE DEF Body
  <2> QED BY <1>1, <1>5
<1>7. jt = [s \in SUBSET DOMAIN tasks |-> Body(jt, s)]
  <2> HIDE DEF Body
  <2> QED BY <1>6
<1>8. FoldLeft(Push, q, tasks) = jt[DOMAIN tasks]
    BY Zenon DEF FoldLeft, MapThenFoldSet
<1> HIDE DEF jt
<1>9. jt[{}] = q
    BY <1>7
<1>10. ASSUME NEW n \in 1 .. N PROVE jt[1 .. n] = Push(jt[1 .. (n - 1)], tasks[n])
  <2>1. /\ 1 .. n \in SUBSET DOMAIN tasks /\ 1 .. n # {} /\ Max(1 .. n) = n
        /\ (1 .. n) \ {Max(1 .. n)} = 1 .. (n - 1)
      BY <1>1, PrefixMax
  <2>2. jt[1 .. n] = Body(jt, 1 .. n)
    <3> HIDE DEF Body
    <3> QED BY <1>7, <2>1
  <2> QED BY <2>1, <2>2
<1>11. \A n \in 1 .. N : jt[1 .. (n - 1)] \in V => jt[1 .. n] \in V
    BY <1>3, <1>10
<1>12. jt[1 .. N] \in V
    BY <1>1, <1>2, <1>9, <1>11, PrefixesIn
<1> QED BY <1>1, <1>8, <1>12 DEF V

-----------------------------------------------------------------------------
(* What results put into the queue.  A queue grows when the tasks it gets   *)
(* are announced; requests are left alone.                                  *)

Grown(q, r) ==
  /\ r.pending = q.pending /\ r.signals \in Nat /\ r.signals >= q.signals
  /\ r.signals = q.signals => r.immediate = q.immediate
  /\ r.processing_num = q.processing_num /\ r.held = q.held

\* A queue that grew and grows again has grown.
LEMMA GrownChain ==
  ASSUME NEW q, q.signals \in Nat, NEW r, NEW s, Grown(q, r), Grown(r, s)
  PROVE  Grown(q, s)
BY DEF Grown

\* A push that is followed by a notification is announced.
LEMMA Announced ==
  ASSUME NEW q, NEW r, NEW b, NEW M, Balanced(q, b, M), Pushed(q, r, b, M)
  PROVE  /\ Balanced(Notify(r), b, M)
         /\ r.pending = q.pending => Grown(q, Notify(r))
         /\ Notify(r).signals = q.signals + 1 /\ Notify(r).finished = q.finished
<1> DEFINE s == Notify(r)
           m == r.signals + 1
<1>1. r \in Queues /\ q \in Queues /\ r.signals = q.signals /\ q.signals \in Nat
    BY QueueFields DEF Pushed, Balanced, Others
<1>2. m \in Nat
    BY <1>1
<1> HIDE DEF m
<1>3. s = [r EXCEPT !.signals = m]
    BY <1>1 DEF Notify, Queues, m
<1>4. s \in Queues
    BY <1>1, <1>2, <1>3 DEF Queues
<1>5. /\ s.pending = r.pending /\ s.immediate = r.immediate /\ s.finished = r.finished
      /\ s.sequences = r.sequences /\ s.pending_num = r.pending_num
      /\ s.processing_num = r.processing_num /\ s.finished_num = r.finished_num
      /\ s.held = r.held /\ s.tracked = r.tracked /\ s.signals = m
    BY <1>1, <1>3 DEF Queues
<1> HIDE DEF s
<1>6. Balanced(s, b, M)
    BY <1>4, <1>5 DEF Pushed, Balanced
<1>7. m = q.signals + 1 /\ m \in Nat /\ m >= q.signals /\ m # q.signals
    BY <1>1 DEF m
<1>8. r.pending = q.pending => Grown(q, s)
    BY <1>5, <1>7 DEF Grown, Pushed, Others
<1> QED BY <1>5, <1>6, <1>7, <1>8 DEF s, Pushed, Others

\* A push that leaves the requests alone and is announced makes the queue grow.
LEMMA Notified ==
  ASSUME NEW q, NEW r, NEW b, NEW M, Balanced(q, b, M), Pushed(q, r, b, M),
         r.pending = q.pending
  PROVE  /\ Balanced(Notify(r), b, M) /\ Grown(q, Notify(r))
         /\ Notify(r).signals = q.signals + 1 /\ Notify(r).finished = q.finished
BY Announced

\* A dependent item is queued for a value of its master.
LEMMA DependentPushed ==
  ASSUME NEW q, NEW b, NEW M, Balanced(q, b, M), NEW d \in Items, NEW n \in Nat,
         NEW exclude, d \notin M \/ d = exclude
  PROVE  /\ Pushed(q, QueueDependent(q, d, n, exclude), b, M)
         /\ QueueDependent(q, d, n, exclude).pending = q.pending
<1>1. CASE d = exclude \/ ~Present(d)
    BY <1>1 DEF QueueDependent, Pushed, Others
<1>2. CASE ~(d = exclude \/ ~Present(d))
  <2>1. QueueDependent(q, d, n, exclude) = PushImmediate(q, ValueTask(d, n))
      BY <1>2 DEF QueueDependent
  <2>2. \/ ValueTask(d, n) \in ValueTasks \cup TestTasks
        \/ (ValueTask(d, n) \in SerialTasks /\ ValueTask(d, n).item \notin M)
    <3>1. d \notin M
        BY <1>2
    <3>2. CASE Mode(d) = "parallel"
        BY <3>2 DEF ValueTask, Task, ValueTasks
    <3>3. CASE Mode(d) # "parallel"
      <4>1. ValueTask(d, n) = [kind |-> "value_seq", item |-> d, n |-> n]
          BY <3>3 DEF ValueTask, Task
      <4> QED BY <3>1, <4>1 DEF SerialTasks
    <3> QED BY <3>2, <3>3
  <2> QED BY <2>1, <2>2, PushJob, PushSerial
<1> QED BY <1>1, <1>2

\* The dependent items are queued one after another.
LEMMA DependentsPushed ==
  ASSUME NEW q, NEW b, NEW M, Balanced(q, b, M), NEW deps \in Seq(Items),
         NEW n \in Nat, NEW exclude, \A k \in DOMAIN deps : deps[k] \notin M \/ deps[k] = exclude
  PROVE  /\ Pushed(q, QueueEach(q, deps, n, exclude), b, M)
         /\ QueueEach(q, deps, n, exclude).pending = q.pending
<1> DEFINE N == Len(deps)
           V == {r \in Queues : Pushed(q, r, b, M) /\ r.pending = q.pending}
           f == [p \in (1 .. N) \X V |-> QueueDependent(p[2], deps[p[1]], n, exclude)]
           Body(it, s) == IF s = {} THEN q
                          ELSE QueueDependent(it[s \ {Max(s)}], deps[Max(s)], n, exclude)
           jt == CHOOSE it : it = [s \in SUBSET DOMAIN deps |-> Body(it, s)]
<1>1. DOMAIN deps = 1 .. N /\ N \in Nat
    OBVIOUS
<1>2. q \in V
    BY DEF Pushed, Balanced, Others
<1>3. ASSUME NEW k \in 1 .. N, NEW v \in V
      PROVE  /\ QueueDependent(v, deps[k], n, exclude) \in V
             /\ f[<<k, v>>] = QueueDependent(v, deps[k], n, exclude)
  <2>1. deps[k] \in Items /\ (deps[k] \notin M \/ deps[k] = exclude) /\ Balanced(v, b, M) /\ Others(q, v)
      BY DEF Pushed
  <2>2. /\ Pushed(q, QueueDependent(v, deps[k], n, exclude), b, M)
        /\ QueueDependent(v, deps[k], n, exclude).pending = q.pending
      BY <2>1, DependentPushed, OthersChain
  <2>3. QueueDependent(v, deps[k], n, exclude) \in Queues
      BY <2>2 DEF Pushed, Balanced
  <2> QED BY <2>2, <2>3
<1> HIDE DEF V, f, N
<1>4. PICK it \in [SUBSET (1 .. N) -> V] : StepsOf(N, q, f, it)
  <2>1. \A k \in 1 .. N, v \in V : f[<<k, v>>] \in V
      BY <1>3
  <2> QED BY <1>1, <1>2, <2>1, FoldExists
<1>5. ASSUME NEW s \in SUBSET (1 .. N) PROVE it[s] = Body(it, s)
  <2>1. it[s] = IF s = {} THEN q ELSE f[<<Max(s), it[s \ {Max(s)}]>>]
      BY <1>4 DEF StepsOf
  <2>2. CASE s # {}
    <3>1. s \in SUBSET (0 .. N)
        BY <1>1
    <3>2. Max(s) \in s
        BY <1>1, <2>2, <3>1, MaxIn
    <3>3. Max(s) \in 1 .. N /\ it[s \ {Max(s)}] \in V
        BY <3>2
    <3> QED BY <1>3, <2>1, <2>2, <3>3
  <2> QED BY <2>1, <2>2
<1>6. it = [s \in SUBSET DOMAIN deps |-> Body(it, s)]
  <2> HIDE DEF Body
  <2> QED BY <1>1, <1>5
<1>7. jt = [s \in SUBSET DOMAIN deps |-> Body(jt, s)]
  <2> HIDE DEF Body
  <2> QED BY <1>6
<1>8. QueueEach(q, deps, n, exclude) = jt[DOMAIN deps]
    BY Zenon DEF QueueEach, FoldLeft, MapThenFoldSet
<1> HIDE DEF jt
<1>9. jt[{}] = q
    BY <1>7
<1>10. ASSUME NEW k \in 1 .. N
       PROVE  jt[1 .. k] = QueueDependent(jt[1 .. (k - 1)], deps[k], n, exclude)
  <2>1. /\ 1 .. k \in SUBSET DOMAIN deps /\ 1 .. k # {} /\ Max(1 .. k) = k
        /\ (1 .. k) \ {Max(1 .. k)} = 1 .. (k - 1)
      BY <1>1, PrefixMax
  <2>2. jt[1 .. k] = Body(jt, 1 .. k)
    <3> HIDE DEF Body
    <3> QED BY <1>7, <2>1
  <2> QED BY <2>1, <2>2
<1>11. \A k \in 1 .. N : jt[1 .. (k - 1)] \in V => jt[1 .. k] \in V
    BY <1>3, <1>10
<1>12. jt[1 .. N] \in V
    BY <1>1, <1>2, <1>9, <1>11, PrefixesIn
<1> QED BY <1>1, <1>8, <1>12 DEF V

\* What a result does to a queue.
Answered(q, r, b, M) ==
  Balanced(r, b, M) /\ Grown(q, r) /\ r.finished = q.finished

\* A master queues its dependent items and announces them.
LEMMA DependentsQueued ==
  ASSUME NEW q, NEW b, NEW M, Balanced(q, b, M), NEW i \in Items, NEW n \in Nat, NEW exclude,
         \A k \in DOMAIN Deps[i] : Deps[i][k] \notin M \/ Deps[i][k] = exclude
  PROVE  Answered(q, QueueDependents(q, i, n, exclude), b, M)
<1>1. Deps[i] \in Seq(Items)
    BY PreprocAssumption
<1>2. CASE \A d \in ToSet(Deps[i]) : d = exclude \/ ~Present(d)
  <2>1. q.signals \in Nat
      BY QueueFields DEF Balanced
  <2>2. QueueDependents(q, i, n, exclude) = q
      BY <1>2, Zenon DEF QueueDependents
  <2> QED BY <2>1, <2>2 DEF Answered, Grown
<1>3. CASE ~ \A d \in ToSet(Deps[i]) : d = exclude \/ ~Present(d)
  <2> DEFINE r == QueueEach(q, Deps[i], n, exclude)
  <2>1. QueueDependents(q, i, n, exclude) = Notify(r)
      BY <1>3, Zenon DEF QueueDependents
  <2>2. Pushed(q, r, b, M) /\ r.pending = q.pending
      BY <1>1, DependentsPushed
  <2> HIDE DEF r
  <2> QED BY <2>1, <2>2, Notified DEF Answered
<1> QED BY <1>2, <1>3

\* The dependent items of an item are other items, which have a master.
LEMMA DependentItems ==
  ASSUME NEW i \in Items
  PROVE  /\ Deps[i] \in Seq(Items)
         /\ \A k \in DOMAIN Deps[i] : Deps[i][k] \in Items /\ Deps[i][k] # i
                                      /\ MastersOf(Deps[i][k]) # {}
<1>1. Deps[i] \in Seq(Items) /\ i \notin ToSet(Deps[i])
    BY PreprocAssumption
<1> SUFFICES ASSUME NEW k \in DOMAIN Deps[i]
             PROVE  Deps[i][k] \in Items /\ Deps[i][k] # i /\ MastersOf(Deps[i][k]) # {}
    BY <1>1
<1>2. Deps[i][k] \in Items
    BY <1>1
<1>3. Deps[i][k] # i
    BY <1>1 DEF ToSet
<1>4. Contains(Deps[i], Deps[i][k])
    BY DEF Contains
<1>5. i \in MastersOf(Deps[i][k])
    BY <1>4 DEF MastersOf
<1> QED BY <1>2, <1>3, <1>5

\* A value that was processed queues the dependent items, or nothing.
LEMMA ValueAnswered ==
  ASSUME NEW q, NEW b, NEW M, Balanced(q, b, M), NEW i \in Items, M \subseteq {i}, NEW n \in Nat
  PROVE  Answered(q, ValueResult(q, i, n), b, M)
<1> DEFINE S == {k \in DOMAIN Deps[i] : Present(Deps[i][k]) /\ Deps[i][k] \in config.cacheable}
           t == Task("dependent", Deps[i][Min(S)], n)
<1>1. q.signals \in Nat /\ Answered(q, q, b, M)
    BY QueueFields DEF Balanced, Answered, Grown
<1>2. \A k \in DOMAIN Deps[i] : Deps[i][k] \notin M
    BY DependentItems
<1>3. CASE <<i, n>> \in Discarded
  <2>1. ValueResult(q, i, n) = q
      BY <1>3, Zenon DEF ValueResult
  <2> QED BY <1>1, <2>1
<1>4. CASE <<i, n>> \notin Discarded /\ S = {}
  <2>1. ValueResult(q, i, n) = QueueDependents(q, i, n, i)
      BY <1>4, Zenon DEF ValueResult
  <2> QED BY <1>2, <2>1, DependentsQueued
<1>5. CASE <<i, n>> \notin Discarded /\ S # {}
  <2>1. ValueResult(q, i, n) = Notify(PushImmediate(q, t))
      BY <1>5, Zenon DEF ValueResult
  <2>2. S \in SUBSET Nat
      BY DependentItems
  <2>3. Min(S) \in S
    <3> HIDE DEF S
    <3> QED BY <1>5, <2>2, MinIn
  <2>4. Min(S) \in DOMAIN Deps[i]
      BY <2>3
  <2>5. t \in SerialTasks /\ t.item \notin M
    <3> DEFINE d == Deps[i][Min(S)]
    <3>1. d \in Items /\ d \notin M /\ MastersOf(d) # {}
        BY <1>2, <2>4, DependentItems
    <3>2. t = [kind |-> "dependent", item |-> d, n |-> n]
        BY DEF Task
    <3> HIDE DEF d, t
    <3> QED BY <3>1, <3>2 DEF SerialTasks
  <2> HIDE DEF t
  <2> QED BY <2>1, <2>5, PushSerial, Notified DEF Answered
<1> QED BY <1>3, <1>4, <1>5

\* So does the result of any task.
LEMMA ResultAnswered ==
  ASSUME NEW q, NEW b, NEW M, Balanced(q, b, M),
         NEW t \in ValueTasks \cup SerialTasks \cup TestTasks, M \subseteq {t.item}
  PROVE  Answered(q, TaskResult(q, t), b, M)
<1>1. CASE t \in TestTasks
  <2>1. TaskResult(q, t) = q
      BY <1>1 DEF TaskResult, TestTasks
  <2>2. q.signals \in Nat
      BY QueueFields DEF Balanced
  <2> QED BY <2>1, <2>2 DEF Answered, Grown
<1>2. CASE t.kind \in {"value", "value_seq"} /\ t \in ValueTasks \cup SerialTasks
  <2>1. TaskResult(q, t) = ValueResult(q, t.item, t.n)
      BY <1>2 DEF TaskResult
  <2>2. t.item \in Items /\ t.n \in Nat
      BY <1>2 DEF ValueTasks, SerialTasks
  <2> QED BY <2>1, <2>2, ValueAnswered
<1>3. CASE t.kind = "dependent" /\ t \in SerialTasks
  <2> DEFINE r == ValueResult(q, t.item, t.n)
  <2>1. TaskResult(q, t) = QueueDependents(r, Master(t.item), t.n, t.item)
      BY <1>3 DEF TaskResult
  <2>2. t.item \in Items /\ t.n \in Nat /\ MastersOf(t.item) # {}
      BY <1>3 DEF SerialTasks
  <2>3. Answered(q, r, b, M)
      BY <2>2, ValueAnswered
  <2>4. Master(t.item) \in Items
      BY <2>2 DEF Master, MastersOf
  <2> HIDE DEF r
  <2>5. Answered(r, TaskResult(q, t), b, M)
      BY <2>1, <2>2, <2>3, <2>4, DependentsQueued DEF Answered
  <2>6. q.signals \in Nat
      BY QueueFields DEF Balanced
  <2> QED BY <2>3, <2>5, <2>6, GrownChain DEF Answered
<1> QED BY <1>1, <1>2, <1>3 DEF ValueTasks, SerialTasks

-----------------------------------------------------------------------------
(* A round of process_finished. *)

TakenTask(q) == [q EXCEPT !.finished = Tail(@), !.finished_num = @ - 1]
TakenFirst(q, i) == [TakenTask(q) EXCEPT !.sequences[i] = Tail(@)]

\* The first finished task leaves the list: its container has a place less.
LEMMA PlacesTail ==
  ASSUME NEW im \in Seq(Jobs), NEW fi \in Seq(Jobs), fi # <<>>, NEW b, NEW i
  PROVE  /\ Tail(fi) \in Seq(Jobs) /\ Head(fi) \in Jobs /\ Len(Tail(fi)) = Len(fi) - 1
         /\ Places(im, fi, b, i)
              = Places(im, Tail(fi), b, i) + (IF Head(fi) = Container(i) THEN 1 ELSE 0)
<1>1. Tail(fi) \in Seq(Jobs) /\ Head(fi) \in Jobs /\ Len(Tail(fi)) = Len(fi) - 1
    BY HeadTailProperties
<1>2. Copies(fi, Container(i))
        = Copies(Tail(fi), Container(i)) + (IF Head(fi) = Container(i) THEN 1 ELSE 0)
    BY CopiesTail
<1> DEFINE c == Copies(im, Container(i))
           d == Copies(Tail(fi), Container(i))
           e == Cardinality(Having(b, Container(i)))
           f == IF Head(fi) = Container(i) THEN 1 ELSE 0
<1>3. c \in Nat /\ d \in Nat /\ e \in Nat /\ f \in Nat
    BY <1>1, PlacesType
<1>4. Places(im, fi, b, i) = c + (d + f) + e /\ Places(im, Tail(fi), b, i) = c + d + e
    BY <1>2 DEF Places
<1>5. Places(im, fi, b, i) = Places(im, Tail(fi), b, i) + f
  <2> HIDE DEF c, d, e, f
  <2> QED BY <1>3, <1>4
<1> QED BY <1>1, <1>5

\* The task of a value or of a test leaves the list.
LEMMA TaskTaken ==
  ASSUME NEW q, NEW b, Balanced(q, b, {}), q.finished # <<>>,
         Head(q.finished).kind # "sequence"
  PROVE  /\ Balanced(TakenTask(q), b, {}) /\ Grown(q, TakenTask(q))
         /\ Head(q.finished) \in ValueTasks \cup TestTasks
<1> DEFINE fi == Tail(q.finished)
           fn == q.finished_num - 1
           r == [q EXCEPT !.finished = fi, !.finished_num = fn]
<1>1. q \in Queues
    BY DEF Balanced
<1>2. TakenTask(q) = r
    BY <1>1 DEF TakenTask, Queues
<1>3. q.finished \in Seq(Jobs) /\ q.immediate \in Seq(Jobs)
    BY <1>1, QueueFields
<1>4. /\ fi \in Seq(Jobs) /\ Head(q.finished) \in Jobs /\ Len(fi) = Len(q.finished) - 1
      /\ fn \in Int /\ fn = Len(fi)
    BY <1>1, <1>3, PlacesTail, QueueFields DEF Balanced
<1>5. Single(q.immediate, fi, q.sequences, b, {})
  <2> SUFFICES ASSUME NEW i \in Items
               PROVE  Places(q.immediate, fi, b, i) = Places(q.immediate, q.finished, b, i)
      BY DEF Balanced, Single
  <2>1. Head(q.finished) # Container(i)
      BY TaskKinds
  <2>2. Places(q.immediate, fi, b, i) \in Nat
      BY <1>3, <1>4, PlacesType
  <2> QED BY <1>3, <2>1, <2>2, PlacesTail
<1>6. Head(q.finished) \in ValueTasks \cup TestTasks
    BY <1>4, TaskKinds
<1> HIDE DEF fi, fn
<1>7. r \in Queues
    BY <1>1, <1>4 DEF Queues
<1>8. /\ r.finished = fi /\ r.finished_num = fn /\ r.pending = q.pending
      /\ r.immediate = q.immediate /\ r.sequences = q.sequences /\ r.held = q.held
      /\ r.tracked = q.tracked /\ r.pending_num = q.pending_num /\ r.processing_num = q.processing_num
      /\ r.signals = q.signals
    BY <1>1 DEF Queues
<1> HIDE DEF r
<1>9. Balanced(r, b, {})
    BY <1>4, <1>5, <1>7, <1>8 DEF Balanced
<1>10. Grown(q, r)
    BY <1>1, <1>8, QueueFields DEF Grown
<1> QED BY <1>2, <1>6, <1>9, <1>10

\* A container leaves the list, with the first task of its sequence.
LEMMA FirstTaken ==
  ASSUME NEW q, NEW b, Balanced(q, b, {}), q.finished # <<>>,
         NEW i, i = Head(q.finished).item, Head(q.finished).kind = "sequence"
  PROVE  /\ i \in Items /\ q.sequences[i] # <<>> /\ Head(q.sequences[i]) \in Serial(i)
         /\ Balanced(TakenFirst(q, i), b, {i}) /\ Grown(q, TakenFirst(q, i))
<1> DEFINE fi == Tail(q.finished)
           fn == q.finished_num - 1
           sq == q.sequences
           sr == [sq EXCEPT ![i] = Tail(@)]
           r == [q EXCEPT !.finished = fi, !.finished_num = fn, !.sequences = sr]
<1>1. q \in Queues /\ sq \in Sequenced
    BY QueueFields DEF Balanced
<1>2. TakenFirst(q, i) = r
    BY <1>1 DEF TakenFirst, TakenTask, Queues
<1>3. q.finished \in Seq(Jobs) /\ q.immediate \in Seq(Jobs)
    BY <1>1, QueueFields
<1>4. /\ fi \in Seq(Jobs) /\ Head(q.finished) \in Jobs /\ Len(fi) = Len(q.finished) - 1
      /\ fn \in Int /\ fn = Len(fi)
    BY <1>1, <1>3, PlacesTail, QueueFields DEF Balanced
<1>5. i \in Items /\ Head(q.finished) = Container(i)
    BY <1>4, TaskKinds
<1>6. ASSUME NEW j \in Items
      PROVE  /\ Places(q.immediate, fi, b, j) \in Nat
             /\ Places(q.immediate, q.finished, b, j)
                  = Places(q.immediate, fi, b, j) + (IF i = j THEN 1 ELSE 0)
             /\ Places(q.immediate, q.finished, b, j) = IF sq[j] = <<>> THEN 0 ELSE 1
  <2>1. Places(q.immediate, fi, b, j) \in Nat
      BY <1>3, <1>4, PlacesType
  <2>2. Container(i) = Container(j) <=> i = j
      BY TaskKinds
  <2>3. Places(q.immediate, q.finished, b, j) = IF sq[j] = <<>> \/ j \in {} THEN 0 ELSE 1
      BY DEF Balanced, Single
  <2>4. Places(q.immediate, q.finished, b, j)
          = Places(q.immediate, fi, b, j) + (IF Container(i) = Container(j) THEN 1 ELSE 0)
      BY <1>3, <1>5, PlacesTail
  <2> QED BY <2>1, <2>2, <2>3, <2>4
<1>7. sq[i] # <<>>
    BY <1>5, <1>6
<1>8. /\ sr \in Sequenced /\ \A j \in Items : j # i => sr[j] = sq[j]
      /\ Later(sr, {i}) = Later(sq, {})
  <2> DEFINE s == Tail(sq[i])
  <2>1. Replaced(sq, i, s, sr)
      BY DEF Replaced
  <2> HIDE DEF sr, sq
  <2>2. s \in Seq(Serial(i)) /\ Len(s) = Len(sq[i]) - 1
      BY <1>1, <1>5, <1>7, SequencedAt
  <2> DEFINE M == {} K == {i}
  <2>3. i \notin M /\ i \in K /\ \A j \in Items : j # i => (j \in M <=> j \in K)
      OBVIOUS
  <2> HIDE DEF s, M, K
  <2>4. /\ sr \in Sequenced /\ \A j \in Items : j # i => sr[j] = sq[j]
        /\ Later(sr, K) = Later(sq, M)
      BY <1>1, <1>5, <1>7, <2>1, <2>2, <2>3, LaterTake
  <2> QED BY <2>4 DEF M, K
<1>9. Single(q.immediate, fi, sr, b, {i})
  <2> SUFFICES ASSUME NEW j \in Items
               PROVE  Places(q.immediate, fi, b, j) = IF sr[j] = <<>> \/ j \in {i} THEN 0 ELSE 1
      BY DEF Single
  <2>1. CASE j = i
      BY <1>6, <1>7, <2>1
  <2>2. CASE j # i
      BY <1>6, <1>8, <2>2
  <2> QED BY <2>1, <2>2
<1> HIDE DEF fi, fn, sr
<1>10. r \in Queues
    BY <1>1, <1>4, <1>8 DEF Queues
<1>11. /\ r.finished = fi /\ r.finished_num = fn /\ r.pending = q.pending
       /\ r.immediate = q.immediate /\ r.sequences = sr /\ r.held = q.held
       /\ r.tracked = q.tracked /\ r.pending_num = q.pending_num /\ r.processing_num = q.processing_num
       /\ r.signals = q.signals
    BY <1>1 DEF Queues
<1> HIDE DEF r
<1>12. r.pending_num = Len(r.pending) + Len(r.immediate) + Later(r.sequences, {i})
    BY <1>8, <1>11 DEF Balanced
<1>16. Followed(Underway(r.pending, r.immediate, b), r.tracked, r.held)
    BY <1>11 DEF Balanced
<1>13. Balanced(r, b, {i})
    BY <1>4, <1>9, <1>10, <1>11, <1>12, <1>16 DEF Balanced
<1>14. Grown(q, r)
    BY <1>1, <1>11, QueueFields DEF Grown
<1>15. Head(sq[i]) \in Serial(i)
    BY <1>1, <1>5, <1>7, SequencedAt
<1> QED BY <1>2, <1>5, <1>7, <1>13, <1>14, <1>15

\* The container of a sequence is queued again while the sequence has tasks.
LEMMA Requeued ==
  ASSUME NEW q, NEW i \in Items, NEW b, Balanced(q, b, {i})
  PROVE  Answered(q, RequeueSequence(q, i), b, {})
<1>1. q \in Queues /\ q.sequences \in Sequenced /\ q.signals \in Nat /\ {i} \ {i} = {}
    BY QueueFields DEF Balanced
<1>2. Later(q.sequences, {}) = Later(q.sequences, {i}) - (IF q.sequences[i] = <<>> THEN 0 ELSE 1)
    BY <1>1, LaterPut
<1>3. Later(q.sequences, {i}) \in Nat
    BY <1>1, LaterInt
<1>4. CASE q.sequences[i] = <<>>
  <2>1. RequeueSequence(q, i) = q
      BY <1>4 DEF RequeueSequence
  <2>2. Single(q.immediate, q.finished, q.sequences, b, {})
      BY <1>4 DEF Balanced, Single
  <2>3. Later(q.sequences, {}) = Later(q.sequences, {i})
      BY <1>2, <1>3, <1>4
  <2>4. Balanced(q, b, {})
      BY <2>2, <2>3 DEF Balanced
  <2> QED BY <1>1, <2>1, <2>4 DEF Answered, Grown
<1>5. CASE q.sequences[i] # <<>>
  <2> DEFINE im == Append(q.immediate, Container(i))
             m == q.signals + 1
             r == [q EXCEPT !.immediate = im, !.signals = m]
  <2>1. Container(i) \in Jobs /\ Container(i).kind = "sequence"
      BY TaskKinds
  <2>2. RequeueSequence(q, i) = r
    <3>1. PushImmediate(q, Container(i)) = [q EXCEPT !.immediate = im]
        BY <1>1, <2>1 DEF PushImmediate, Queues
    <3> QED BY <1>1, <1>5, <3>1 DEF RequeueSequence, RequeueAlways, Notify, Queues
  <2>3. /\ im \in Seq(Jobs) /\ Len(im) = Len(q.immediate) + 1 /\ m \in Nat
        /\ m >= q.signals /\ m # q.signals
      BY <1>1, <2>1, QueueFields, AppendProperties
  <2>4. Single(im, q.finished, q.sequences, b, {})
    <3>1. Single(q.immediate, q.finished, q.sequences, b, {i})
        BY DEF Balanced
    <3>2. \A j \in Items : j # i => q.sequences[j] = q.sequences[j] /\ (j \in {} <=> j \in {i})
        OBVIOUS
    <3> QED BY <1>1, <1>5, <3>1, <3>2, SingleNew, QueueFields
  <2>10. Followed(Underway(q.pending, im, b), q.tracked, q.held)
    <3> DEFINE S == Underway(q.pending, q.immediate, b)
               R == Underway(q.pending, im, b)
    <3>1. S \subseteq R
        BY <1>1, <2>1, QueueFields, UnderwayMore
    <3>2. Followed(S, q.tracked, q.held)
        BY DEF Balanced
    <3> HIDE DEF S, R
    <3> QED BY <1>1, <3>1, <3>2, FollowedStill, QueueFields DEF R
  <2> HIDE DEF im, m
  <2>5. r \in Queues
      BY <1>1, <2>3 DEF Queues
  <2>6. /\ r.finished = q.finished /\ r.finished_num = q.finished_num /\ r.pending = q.pending
        /\ r.immediate = im /\ r.sequences = q.sequences /\ r.held = q.held
        /\ r.tracked = q.tracked /\ r.pending_num = q.pending_num /\ r.processing_num = q.processing_num
        /\ r.signals = m
      BY <1>1 DEF Queues
  <2> HIDE DEF r
  <2>7. r.pending_num = Len(r.pending) + Len(r.immediate) + Later(r.sequences, {})
    <3> DEFINE x == Len(q.pending) y == Len(q.immediate) z == Later(q.sequences, {i})
    <3>1. x \in Nat /\ y \in Nat /\ z \in Nat
        BY <1>1, <1>3, QueueFields
    <3>2. r.pending_num = x + y + z
        BY <2>6 DEF Balanced
    <3>3. Len(r.pending) = x /\ Len(r.immediate) = y + 1 /\ Later(r.sequences, {}) = z - 1
        BY <1>2, <1>5, <2>3, <2>6
    <3> HIDE DEF x, y, z
    <3> QED BY <3>1, <3>2, <3>3
  <2>8. Balanced(r, b, {})
      BY <2>4, <2>5, <2>6, <2>7, <2>10 DEF Balanced
  <2>9. Grown(q, r)
      BY <2>3, <2>6 DEF Grown
  <2> QED BY <2>2, <2>6, <2>8, <2>9 DEF Answered
<1> QED BY <1>4, <1>5

Collectible == ValueTasks \cup SerialTasks \cup TestTasks
Rounds(q, b) ==
  {r \in [queue : Queues, tasks : Seq(Collectible)] : Balanced(r.queue, b, {}) /\ Grown(q, r.queue)}

\* A round of process_finished keeps the queue balanced and collects one task.
LEMMA Round ==
  ASSUME NEW q \in Queues, NEW b, NEW r \in Rounds(q, b)
  PROVE  ProcessFinished(r) \in Rounds(q, b)
<1> DEFINE o == r.queue
           t == Head(o.finished)
           i == t.item
           first == Head(o.sequences[i])
           rest == TakenFirst(o, i)
           done == TaskResult(rest, first)
           back == RequeueSequence(done, i)
           next == TaskResult(TakenTask(o), t)
<1>1. /\ Balanced(o, b, {}) /\ Grown(q, o) /\ r.tasks \in Seq(Collectible)
      /\ q.signals \in Nat
    BY QueueFields DEF Rounds
<1>2. CASE o.finished = <<>>
  <2>1. ProcessFinished(r) = r
      BY <1>2, Zenon DEF ProcessFinished
  <2> QED BY <2>1
<1>3. CASE o.finished # <<>> /\ t.kind = "sequence"
  <2>1. ProcessFinished(r) = [queue |-> back, tasks |-> Append(r.tasks, first)]
      BY <1>3, Zenon DEF ProcessFinished, TakenFirst, TakenTask
  <2>2. i \in Items /\ first \in Serial(i) /\ Balanced(rest, b, {i}) /\ Grown(o, rest)
    <3> HIDE DEF o
    <3> QED BY <1>1, <1>3, FirstTaken
  <2>3. first \in Collectible /\ first.item = i
      BY <2>2 DEF Collectible, Serial
  <2> HIDE DEF rest, first, i, t
  <2>4. Answered(rest, done, b, {i})
    <3>1. {i} \subseteq {first.item}
        BY <2>3
    <3> QED BY <2>2, <2>3, <3>1, ResultAnswered DEF Collectible
  <2> HIDE DEF done
  <2>5. Answered(done, back, b, {})
      BY <2>2, <2>4, Requeued DEF Answered
  <2> HIDE DEF back, o
  <2>6. Grown(q, rest)
      BY <1>1, <2>2, GrownChain
  <2>7. Grown(q, done)
      BY <1>1, <2>4, <2>6, GrownChain DEF Answered
  <2>8. Grown(q, back) /\ Balanced(back, b, {}) /\ back \in Queues
      BY <1>1, <2>5, <2>7, GrownChain DEF Answered, Balanced
  <2>9. Append(r.tasks, first) \in Seq(Collectible)
      BY <1>1, <2>3, AppendProperties
  <2> QED BY <2>1, <2>8, <2>9 DEF Rounds
<1>4. CASE o.finished # <<>> /\ t.kind # "sequence"
  <2>1. ProcessFinished(r) = [queue |-> next, tasks |-> Append(r.tasks, t)]
      BY <1>4, Zenon DEF ProcessFinished, TakenTask
  <2> DEFINE p == TakenTask(o)
  <2>2. t \in ValueTasks \cup TestTasks /\ Balanced(p, b, {}) /\ Grown(o, p)
    <3> HIDE DEF o
    <3> QED BY <1>1, <1>4, TaskTaken
  <2>3. t \in Collectible /\ {} \subseteq {t.item}
      BY <2>2 DEF Collectible
  <2> HIDE DEF p, t
  <2>4. next = TaskResult(p, t)
      BY DEF p
  <2> HIDE DEF next, o
  <2>5. Answered(p, next, b, {})
      BY <2>2, <2>3, <2>4, ResultAnswered
  <2>6. Grown(q, p)
      BY <1>1, <2>2, GrownChain
  <2>7. Grown(q, next) /\ Balanced(next, b, {}) /\ next \in Queues
      BY <1>1, <2>5, <2>6, GrownChain DEF Answered, Balanced
  <2>8. Append(r.tasks, t) \in Seq(Collectible)
      BY <1>1, <2>3, AppendProperties
  <2> QED BY <2>1, <2>7, <2>8 DEF Rounds
<1> QED BY <1>2, <1>3, <1>4

\* The batch that the manager collects.
LEMMA BatchCollected ==
  ASSUME NEW b, Balanced(queue, b, {})
  PROVE  Collected \in Rounds(queue, b)
<1> DEFINE V == Rounds(queue, b)
           base == [queue |-> queue, tasks |-> <<>>]
           ks == [k \in 1 .. Batch |-> k]
           f == [p \in (1 .. Batch) \X V |-> ProcessFinished(p[2])]
           Body(it, s) == IF s = {} THEN base ELSE ProcessFinished(it[s \ {Max(s)}])
           jt == CHOOSE it : it = [s \in SUBSET DOMAIN ks |-> Body(it, s)]
<1>1. DOMAIN ks = 1 .. Batch /\ Batch \in Nat
    BY PreprocAssumption
<1>2. base \in V
  <2>1. queue \in Queues /\ <<>> \in Seq(Collectible)
      BY DEF Balanced
  <2>2. Grown(queue, queue)
      BY <2>1, QueueFields DEF Grown
  <2> QED BY <2>1, <2>2 DEF Rounds
<1>3. ASSUME NEW n \in 1 .. Batch, NEW v \in V
      PROVE  ProcessFinished(v) \in V /\ f[<<n, v>>] = ProcessFinished(v)
  <2>1. queue \in Queues
      BY DEF Balanced
  <2>2. ProcessFinished(v) \in V
      BY <2>1, Round
  <2> HIDE DEF V
  <2> QED BY <2>2
<1> HIDE DEF V, f, base
<1>4. PICK it \in [SUBSET (1 .. Batch) -> V] : StepsOf(Batch, base, f, it)
  <2>1. \A k \in 1 .. Batch, v \in V : f[<<k, v>>] \in V
      BY <1>3
  <2> QED BY <1>1, <1>2, <2>1, FoldExists
<1>5. ASSUME NEW s \in SUBSET (1 .. Batch) PROVE it[s] = Body(it, s)
  <2>1. it[s] = IF s = {} THEN base ELSE f[<<Max(s), it[s \ {Max(s)}]>>]
      BY <1>4 DEF StepsOf
  <2>2. CASE s # {}
    <3>1. s \in SUBSET (0 .. Batch)
        BY <1>1
    <3>2. Max(s) \in s
        BY <1>1, <2>2, <3>1, MaxIn
    <3>3. Max(s) \in 1 .. Batch /\ it[s \ {Max(s)}] \in V
        BY <3>2
    <3> QED BY <1>3, <2>1, <2>2, <3>3
  <2> QED BY <2>1, <2>2
<1>6. it = [s \in SUBSET DOMAIN ks |-> Body(it, s)]
  <2> HIDE DEF Body
  <2> QED BY <1>1, <1>5
<1>7. jt = [s \in SUBSET DOMAIN ks |-> Body(jt, s)]
  <2> HIDE DEF Body
  <2> QED BY <1>6
<1>8. Collected = jt[DOMAIN ks]
    BY Zenon DEF Collected, FoldLeft, MapThenFoldSet, base
<1> HIDE DEF jt
<1>9. jt[{}] = base
    BY <1>7
<1>10. ASSUME NEW n \in 1 .. Batch
       PROVE  jt[1 .. n] = ProcessFinished(jt[1 .. (n - 1)])
  <2>1. /\ 1 .. n \in SUBSET DOMAIN ks /\ 1 .. n # {} /\ Max(1 .. n) = n
        /\ (1 .. n) \ {Max(1 .. n)} = 1 .. (n - 1)
      BY <1>1, PrefixMax
  <2>2. jt[1 .. n] = Body(jt, 1 .. n)
    <3> HIDE DEF Body
    <3> QED BY <1>7, <2>1
  <2> QED BY <2>1, <2>2
<1>11. \A n \in 1 .. Batch : jt[1 .. (n - 1)] \in V => jt[1 .. n] \in V
    BY <1>3, <1>10
<1>12. jt[1 .. Batch] \in V
    BY <1>1, <1>2, <1>9, <1>11, PrefixesIn
<1> QED BY <1>1, <1>8, <1>12 DEF V

-----------------------------------------------------------------------------
(* A worker hands its task over (PushFinished). *)

\* The ready values are the first ones of the tracked list.
LEMMA ReadyRange ==
  ASSUME NEW A, NEW s \in Seq(A), NEW done
  PROVE  /\ Ready(s, done) \in 0 .. Len(s)
         /\ SubSeq(s, 1, Ready(s, done)) \in Seq(A)
         /\ Len(SubSeq(s, 1, Ready(s, done))) = Ready(s, done)
         /\ SubSeq(s, Ready(s, done) + 1, Len(s)) \in Seq(A)
<1> DEFINE S == {k \in 0 .. Len(s) : \A j \in 1 .. k : s[j] \in done}
<1>1. Len(s) \in Nat /\ 0 \in S
    OBVIOUS
<1>2. Max(S) \in S
  <2>1. S \in SUBSET (0 .. Len(s)) /\ S # {}
      BY <1>1
  <2> HIDE DEF S
  <2> QED BY <1>1, <2>1, MaxIn
<1>3. Ready(s, done) \in 0 .. Len(s)
    BY <1>2 DEF Ready
<1> DEFINE k == Ready(s, done)
<1> HIDE DEF k
<1>4. k \in 0 .. Len(s)
    BY <1>3 DEF k
<1>5. SubSeq(s, 1, k) \in Seq(A) /\ Len(SubSeq(s, 1, k)) = k
    BY <1>1, <1>4
<1>6. SubSeq(s, k + 1, Len(s)) \in Seq(A)
    BY <1>1, <1>4
<1> QED BY <1>4, <1>5, <1>6 DEF k

\* The lists and counters that a worker leaves alone when it hands over.
Kept(q, r) ==
  /\ r.pending = q.pending /\ r.immediate = q.immediate /\ r.sequences = q.sequences
  /\ r.pending_num = q.pending_num /\ r.signals = q.signals

GivenUp(b, c, t) ==
  \A i : Cardinality(Having(b, Container(i)))
           = Cardinality(Having(c, Container(i))) + (IF t = Container(i) THEN 1 ELSE 0)

\* A container moves from its worker to the finished list; ready values are none.
LEMMA PlacesHanded ==
  ASSUME NEW im \in Seq(Jobs), NEW fi \in Seq(Jobs), NEW b, NEW c, NEW t \in Jobs, NEW i,
         GivenUp(b, c, t)
  PROVE  /\ Places(im, Append(fi, t), c, i) = Places(im, fi, b, i)
         /\ t # Container(i) =>
              \A ready \in Seq(ValueTasks) :
                Places(im, fi \o ready, c, i) = Places(im, fi, b, i)
<1> DEFINE C == Copies(im, Container(i))
           D == Copies(fi, Container(i))
           E == Cardinality(Having(c, Container(i)))
           e == IF t = Container(i) THEN 1 ELSE 0
<1>1. Cardinality(Having(b, Container(i))) = E + e
    BY DEF GivenUp
<1>2. C \in Nat /\ D \in Nat /\ E \in Nat /\ e \in Nat
    BY PlacesType
<1>3. Places(im, fi, b, i) = C + D + (E + e)
    BY <1>1 DEF Places
<1>4. Copies(Append(fi, t), Container(i)) = D + e
    BY CopiesAppend
<1>5. Places(im, Append(fi, t), c, i) = C + (D + e) + E
    BY <1>4 DEF Places
<1>6. ASSUME t # Container(i), NEW ready \in Seq(ValueTasks)
      PROVE  Places(im, fi \o ready, c, i) = Places(im, fi, b, i)
  <2>1. ready \in Seq(Jobs) /\ \A k \in DOMAIN ready : ready[k] # Container(i)
    <3>1. ValueTasks \subseteq Jobs
        BY DEF Jobs
    <3>2. ready \in Seq(Jobs)
        BY <3>1, SeqMonotonic
    <3>3. \A k \in DOMAIN ready : ready[k] \in ValueTasks
        OBVIOUS
    <3> QED BY <3>2, <3>3, TaskKinds
  <2>2. Copies(fi \o ready, Container(i)) = D
      BY <2>1, CopiesConcat
  <2>3. Places(im, fi \o ready, c, i) = C + D + E
      BY <2>2 DEF Places
  <2>4. e = 0
      BY <1>6
  <2> HIDE DEF C, D, E, e
  <2> QED BY <1>2, <1>3, <2>3, <2>4
<1>7. C + (D + e) + E = C + D + (E + e)
  <2> HIDE DEF C, D, E, e
  <2> QED BY <1>2
<1> QED BY <1>3, <1>5, <1>6, <1>7

\* The task of a worker goes to the finished list with the values that waited for
\* it, or waits itself.
LEMMA HandedOver ==
  ASSUME NEW q, NEW b, Balanced(q, b, {}), NEW w \in Workers, b[w] \in Jobs
  PROVE  /\ Balanced(PushFinished(q, b[w]), [b EXCEPT ![w] = NoTask], {})
         /\ Kept(q, PushFinished(q, b[w]))
<1> DEFINE t == b[w]
           c == [b EXCEPT ![w] = NoTask]
           pr == q.processing_num - 1
<1>1. q \in Queues /\ b \in Works
    BY DEF Balanced
<1>2. /\ c \in Works
      /\ pr = Cardinality(Working(c)) /\ pr \in Int
    BY <1>1, WorkDone, HavingType DEF Balanced
<1>3. /\ q.finished \in Seq(Jobs) /\ q.immediate \in Seq(Jobs) /\ Len(q.finished) \in Nat
      /\ q.finished_num = Len(q.finished)
    BY <1>1, QueueFields DEF Balanced
<1>6. GivenUp(b, c, t)
    BY <1>1, WorkDone DEF GivenUp
<1> HIDE DEF c, t
<1>7. t \in Jobs
    BY DEF t
<1>4. CASE t.kind # "value"
  <2> DEFINE fi == Append(q.finished, t)
             fn == q.finished_num + 1
             r == [q EXCEPT !.processing_num = pr, !.finished = fi, !.finished_num = fn]
  <2>1. PushFinished(q, t) = r
      BY <1>1, <1>4 DEF PushFinished, PushFinishedAtOnce, Queues
  <2>2. fi \in Seq(Jobs) /\ fn = Len(fi) /\ fn \in Int
      BY <1>3, <1>7, AppendProperties
  <2>3. Single(q.immediate, fi, q.sequences, c, {})
    <3> SUFFICES ASSUME NEW i \in Items
                 PROVE  Places(q.immediate, fi, c, i) = Places(q.immediate, q.finished, b, i)
        BY DEF Single, Balanced
    <3> QED BY <1>3, <1>6, <1>7, PlacesHanded
  <2>7. Followed(Underway(q.pending, q.immediate, c), q.tracked, q.held)
    <3>1. b[w] \notin ValueTasks
        BY <1>4 DEF ValueTasks, t
    <3>2. Followed(Underway(q.pending, q.immediate, b), q.tracked, q.held)
        BY DEF Balanced
    <3> QED BY <1>1, <3>1, <3>2, FollowedLess, QueueFields DEF c
  <2> HIDE DEF fi, fn, pr
  <2>4. r \in Queues
      BY <1>1, <1>2, <2>2 DEF Queues
  <2>5. /\ r.finished = fi /\ r.finished_num = fn /\ r.processing_num = pr /\ Kept(q, r)
        /\ r.tracked = q.tracked /\ r.held = q.held
      BY <1>1 DEF Queues, Kept
  <2> HIDE DEF r
  <2>6. Balanced(r, c, {})
      BY <1>2, <2>2, <2>3, <2>4, <2>5, <2>7 DEF Balanced, Kept
  <2> QED BY <2>1, <2>5, <2>6 DEF c, t
<1>5. CASE t.kind = "value"
  <2> DEFINE s == q.tracked[t.item]
             done == q.held[t.item] \cup {t}
             k == Ready(s, done)
             ready == SubSeq(s, 1, k)
             rest == SubSeq(s, k + 1, Len(s))
             tr == [q.tracked EXCEPT ![t.item] = rest]
             he == [q.held EXCEPT ![t.item] = done \cap ToSet(rest)]
             fi == q.finished \o ready
             fn == q.finished_num + k
             r == [q EXCEPT !.processing_num = pr, !.tracked = tr, !.held = he,
                            !.finished = fi, !.finished_num = fn]
  <2>1. PushFinished(q, t) = r
    <3> DEFINE v == done \cap ToSet(rest)
    <3>1. PushFinished(q, t)
            = [q EXCEPT !.processing_num = @ - 1, !.tracked[t.item] = rest,
                        !.held[t.item] = v, !.finished = @ \o ready,
                        !.finished_num = @ + k]
        BY <1>5, Zenon DEF PushFinished
    <3> HIDE DEF v, rest, ready, k
    <3> QED BY <1>1, <3>1 DEF Queues, v
  <2>2. t \in ValueTasks /\ t.item \in Items
      BY <1>5, <1>7, TaskKinds DEF ValueTasks
  <2>3. s \in Seq(ValueTasks) /\ q.tracked \in [Items -> Seq(ValueTasks)]
        /\ q.held \in [Items -> SUBSET ValueTasks]
      BY <1>1, <2>2, QueueFields
  <2> HIDE DEF s
  <2>4. /\ k \in 0 .. Len(s) /\ ready \in Seq(ValueTasks) /\ Len(ready) = k
        /\ rest \in Seq(ValueTasks)
    <3> HIDE DEF done
    <3> QED BY <2>3, ReadyRange
  <2>13. Followed(Underway(q.pending, q.immediate, c), tr, he)
    <3> DEFINE S == Underway(q.pending, q.immediate, b)
               R == Underway(q.pending, q.immediate, c)
    <3>1. \A u \in ValueTasks : u \in S => u = t \/ u \in R
      <4>1. b[w] = t /\ \A v \in Workers : v # w => c[v] = b[v]
          BY <1>1 DEF Works, c, t
      <4> QED BY <4>1 DEF Underway
    <3>2. Followed(S, q.tracked, q.held)
        BY DEF Balanced
    <3> HIDE DEF S, R
    <3>3. /\ tr \in [Items -> Seq(ValueTasks)] /\ tr[t.item] = rest
          /\ he[t.item] = done \cap ToSet(rest)
          /\ \A i \in Items : i # t.item => tr[i] = q.tracked[i] /\ he[i] = q.held[i]
      <4> DEFINE v == done \cap ToSet(rest)
      <4> HIDE DEF rest, v
      <4> QED BY <2>2, <2>3, <2>4 DEF v
    <3>4. /\ Waited(q.tracked[t.item], q.held[t.item] \cup {t}, k)
          /\ k \in 0 .. Len(q.tracked[t.item])
          /\ RestOf(q.tracked[t.item], k, rest)
        BY <2>4 DEF s, Waited, RestOf
    <3>5. he[t.item] = (q.held[t.item] \cup {t}) \cap ToSet(rest)
        BY <3>3
    <3> HIDE DEF k, rest, done, tr, he
    <3>6. /\ q.tracked \in [Items -> Seq(ValueTasks)] /\ q.held \in [Items -> SUBSET ValueTasks]
          /\ t \in ValueTasks
        BY <2>2, <2>3
    <3> DEFINE tr0 == q.tracked he0 == q.held
    <3>7. /\ tr0 \in [Items -> Seq(ValueTasks)] /\ he0 \in [Items -> SUBSET ValueTasks]
          /\ Followed(S, tr0, he0) /\ Waited(tr0[t.item], he0[t.item] \cup {t}, k)
          /\ k \in 0 .. Len(tr0[t.item]) /\ RestOf(tr0[t.item], k, rest)
          /\ Advanced(tr0, he0, t, rest, tr, he)
        BY <3>2, <3>3, <3>4, <3>5, <3>6 DEF Advanced
    <3> HIDE DEF tr0, he0
    <3>8. Followed(R, tr, he)
        BY <3>1, <3>3, <3>6, <3>7, FollowedDone
    <3> QED BY <3>8 DEF R
  <2> HIDE DEF k, rest
  <2>5. tr \in [Items -> Seq(ValueTasks)]
      BY <2>2, <2>3, <2>4
  <2>6. he \in [Items -> SUBSET ValueTasks]
    <3>1. done \cap ToSet(rest) \in SUBSET ValueTasks
        BY <2>2, <2>3
    <3> HIDE DEF done
    <3> QED BY <2>3, <3>1
  <2> HIDE DEF ready, tr, he
  <2>7. ready \in Seq(Jobs)
    <3>1. ValueTasks \subseteq Jobs
        BY DEF Jobs
    <3> QED BY <2>4, <3>1, SeqMonotonic
  <2>8. fi \in Seq(Jobs) /\ fn = Len(fi) /\ fn \in Int
    <3>1. fi \in Seq(Jobs) /\ Len(fi) = Len(q.finished) + Len(ready)
        BY <1>3, <2>7, ConcatProperties
    <3>2. k \in Int
        BY <2>3, <2>4
    <3> QED BY <1>3, <2>4, <3>1, <3>2
  <2>9. Single(q.immediate, fi, q.sequences, c, {})
    <3> SUFFICES ASSUME NEW i \in Items
                 PROVE  Places(q.immediate, fi, c, i) = Places(q.immediate, q.finished, b, i)
        BY DEF Single, Balanced
    <3>1. t # Container(i)
        BY <2>2, TaskKinds
    <3> QED BY <1>3, <1>6, <1>7, <2>4, <3>1, PlacesHanded
  <2> HIDE DEF fi, fn, pr
  <2>10. r \in Queues
      BY <1>1, <1>2, <2>5, <2>6, <2>8 DEF Queues
  <2>11. /\ r.finished = fi /\ r.finished_num = fn /\ r.processing_num = pr /\ Kept(q, r)
         /\ r.tracked = tr /\ r.held = he
      BY <1>1 DEF Queues, Kept
  <2> HIDE DEF r
  <2>12. Balanced(r, c, {})
      BY <1>2, <2>8, <2>9, <2>10, <2>11, <2>13 DEF Balanced, Kept
  <2> QED BY <2>1, <2>11, <2>12 DEF c, t
<1> QED BY <1>4, <1>5

-----------------------------------------------------------------------------
(* A worker takes a task (PopNew).  Pending tasks that it passes move to    *)
(* the sequences of their items, which have tasks already.                  *)

SameLists(q, r) ==
  /\ r \in Queues /\ Kept([q EXCEPT !.sequences = r.sequences], r)
  /\ r.finished = q.finished /\ r.processing_num = q.processing_num
  /\ r.finished_num = q.finished_num /\ r.tracked = q.tracked /\ r.held = q.held
  /\ \A i \in Items : r.sequences[i] = <<>> <=> q.sequences[i] = <<>>

\* Each list and counter of a queue that moved tasks to sequences.
LEMMA SameListsFields ==
  ASSUME NEW q \in Queues, NEW r
  PROVE  SameLists(q, r) <=>
           /\ r \in Queues /\ r.pending = q.pending /\ r.immediate = q.immediate
           /\ r.pending_num = q.pending_num /\ r.signals = q.signals
           /\ r.finished = q.finished /\ r.processing_num = q.processing_num
           /\ r.finished_num = q.finished_num
           /\ r.tracked = q.tracked /\ r.held = q.held
           /\ \A i \in Items : r.sequences[i] = <<>> <=> q.sequences[i] = <<>>
<1> DEFINE sr == r.sequences
           p == [q EXCEPT !.sequences = sr]
<1>1. /\ p.pending = q.pending /\ p.immediate = q.immediate /\ p.sequences = sr
      /\ p.pending_num = q.pending_num /\ p.signals = q.signals
    BY DEF Queues
<1>2. Kept(p, r) <=>
        /\ r.pending = q.pending /\ r.immediate = q.immediate
        /\ r.pending_num = q.pending_num /\ r.signals = q.signals
  <2> HIDE DEF p
  <2> QED BY <1>1 DEF Kept
<1> QED BY <1>2 DEF SameLists

Passed(q, t) == t.kind = "value_seq" /\ q.sequences[t.item] # <<>>

\* A task that is passed joins a sequence that has tasks.
LEMMA MoveOne ==
  ASSUME NEW q \in Queues, NEW t \in RequestTasks, Passed(q, t)
  PROVE  /\ SameLists(q, AddSequence(q, t))
         /\ Later(AddSequence(q, t).sequences, {}) = Later(q.sequences, {}) + 1
<1> DEFINE i == t.item
           sq == q.sequences
           sr == [sq EXCEPT ![i] = Append(@, t)]
           r == [q EXCEPT !.sequences = sr]
<1>1. /\ sq \in Sequenced /\ i \in Items /\ t \in Serial(i) /\ sq[i] # <<>>
      /\ Later(sq, {}) \in Nat
    BY QueueFields, TaskKinds, LaterInt DEF Passed, RequestTasks
<1>2. AddSequence(q, t) = r
    BY DEF AddSequence, Queues
<1>3. /\ sr \in Sequenced /\ sr[i] # <<>> /\ \A j \in Items : j # i => sr[j] = sq[j]
      /\ Later(sr, {}) = Later(sq, {}) + 1
  <2> DEFINE M == {}
             s == Append(sq[i], t)
  <2>1. Replaced(sq, i, s, sr)
      BY DEF Replaced
  <2>2. i \notin M
      OBVIOUS
  <2> HIDE DEF i, sq, sr, M
  <2>5. s \in Seq(Serial(i)) /\ Len(s) = Len(sq[i]) + 1 /\ s # <<>>
      BY <1>1, SequencedAt, AppendProperties
  <2> HIDE DEF s
  <2>3. /\ sr \in Sequenced /\ sr[i] # <<>> /\ \A j \in Items : j # i => sr[j] = sq[j]
        /\ Later(sr, M) = Later(sq, M) + (IF sq[i] = <<>> /\ i \notin M THEN 0 ELSE 1)
      BY <1>1, <2>1, <2>5, LaterJoin
  <2>4. Later(sr, M) = Later(sq, M) + 1
      BY <1>1, <2>3
  <2> QED BY <2>3, <2>4 DEF M
<1>4. \A j \in Items : sr[j] = <<>> <=> sq[j] = <<>>
    BY <1>1, <1>3
<1> HIDE DEF sr
<1>5. r \in Queues
    BY <1>3 DEF Queues
<1>6. /\ r.pending = q.pending /\ r.immediate = q.immediate
      /\ r.pending_num = q.pending_num /\ r.signals = q.signals
      /\ r.finished = q.finished /\ r.processing_num = q.processing_num
      /\ r.finished_num = q.finished_num /\ r.sequences = sr
      /\ r.tracked = q.tracked /\ r.held = q.held
    BY DEF Queues
<1> HIDE DEF r
<1>7. SameLists(q, r)
    BY <1>4, <1>5, <1>6, SameListsFields
<1> QED BY <1>2, <1>3, <1>6, <1>7

\* So do all the tasks that are passed.
LEMMA MovedTasks ==
  ASSUME NEW q \in Queues, NEW tasks \in Seq(RequestTasks), \A k \in DOMAIN tasks : Passed(q, tasks[k])
  PROVE  /\ SameLists(q, Moved(q, tasks))
         /\ Later(Moved(q, tasks).sequences, {}) = Later(q.sequences, {}) + Len(tasks)
<1> DEFINE N == Len(tasks)
           V == {r \in Queues : SameLists(q, r)}
           z == Later(q.sequences, {})
           f == [p \in (1 .. N) \X V |-> AddSequence(p[2], tasks[p[1]])]
           Body(it, s) == IF s = {} THEN q ELSE AddSequence(it[s \ {Max(s)}], tasks[Max(s)])
           jt == CHOOSE it : it = [s \in SUBSET DOMAIN tasks |-> Body(it, s)]
<1>1. DOMAIN tasks = 1 .. N /\ N \in Nat /\ z \in Nat
    BY QueueFields, LaterInt
<1>2. q \in V
    BY SameListsFields
<1>3. ASSUME NEW n \in 1 .. N, NEW v \in V
      PROVE  /\ AddSequence(v, tasks[n]) \in V /\ f[<<n, v>>] = AddSequence(v, tasks[n])
             /\ Later(AddSequence(v, tasks[n]).sequences, {}) = Later(v.sequences, {}) + 1
  <2> DEFINE t == tasks[n]
             r == AddSequence(v, t)
  <2>1. t \in RequestTasks /\ Passed(q, t) /\ v \in Queues /\ SameLists(q, v)
      OBVIOUS
  <2>2. Passed(v, t)
    <3>1. t.item \in Items
        BY <2>1 DEF RequestTasks
    <3> HIDE DEF t
    <3> QED BY <2>1, <3>1, SameListsFields DEF Passed
  <2>3. f[<<n, v>>] = r
      OBVIOUS
  <2> HIDE DEF t
  <2>4. SameLists(v, r) /\ Later(r.sequences, {}) = Later(v.sequences, {}) + 1
      BY <2>1, <2>2, MoveOne
  <2> HIDE DEF r
  <2>5. SameLists(q, r) /\ r \in Queues
      BY <2>1, <2>4, SameListsFields
  <2> HIDE DEF f
  <2> QED BY <2>3, <2>4, <2>5 DEF r, t
<1> HIDE DEF V, f, N, z
<1>4. PICK it \in [SUBSET (1 .. N) -> V] : StepsOf(N, q, f, it)
  <2>1. \A k \in 1 .. N, v \in V : f[<<k, v>>] \in V
      BY <1>3
  <2> QED BY <1>1, <1>2, <2>1, FoldExists
<1>5. ASSUME NEW s \in SUBSET (1 .. N) PROVE it[s] = Body(it, s)
  <2>1. it[s] = IF s = {} THEN q ELSE f[<<Max(s), it[s \ {Max(s)}]>>]
      BY <1>4 DEF StepsOf
  <2>2. CASE s # {}
    <3>1. s \in SUBSET (0 .. N)
        BY <1>1
    <3>2. Max(s) \in s
        BY <1>1, <2>2, <3>1, MaxIn
    <3>3. Max(s) \in 1 .. N /\ it[s \ {Max(s)}] \in V
        BY <3>2
    <3> QED BY <1>3, <2>1, <2>2, <3>3
  <2> QED BY <2>1, <2>2
<1>6. it = [s \in SUBSET DOMAIN tasks |-> Body(it, s)]
  <2> HIDE DEF Body
  <2> QED BY <1>1, <1>5
<1>7. jt = [s \in SUBSET DOMAIN tasks |-> Body(jt, s)]
  <2> HIDE DEF Body
  <2> QED BY <1>6
<1>8. Moved(q, tasks) = jt[DOMAIN tasks]
    BY Zenon DEF Moved, FoldLeft, MapThenFoldSet
<1> HIDE DEF jt
<1>9. jt[{}] = q
    BY <1>7
<1>10. ASSUME NEW n \in 1 .. N PROVE jt[1 .. n] = AddSequence(jt[1 .. (n - 1)], tasks[n])
  <2>1. /\ 1 .. n \in SUBSET DOMAIN tasks /\ 1 .. n # {} /\ Max(1 .. n) = n
        /\ (1 .. n) \ {Max(1 .. n)} = 1 .. (n - 1)
      BY <1>1, PrefixMax
  <2>2. jt[1 .. n] = Body(jt, 1 .. n)
    <3> HIDE DEF Body
    <3> QED BY <1>7, <2>1
  <2> QED BY <2>1, <2>2
<1> DEFINE T == {n \in 0 .. N : jt[1 .. n] \in V /\ Later(jt[1 .. n].sequences, {}) = z + n}
<1>11. 0 \in T
  <2>1. 1 .. 0 = {} /\ 0 \in 0 .. N /\ z + 0 = z
      BY <1>1
  <2>2. jt[1 .. 0] = q
      BY <1>9, <2>1
  <2> QED BY <1>2, <2>1, <2>2 DEF z
<1>12. \A n \in 1 .. N : n - 1 \in T => n \in T
  <2> SUFFICES ASSUME NEW n \in 1 .. N, n - 1 \in T PROVE n \in T
      OBVIOUS
  <2>1. jt[1 .. (n - 1)] \in V /\ Later(jt[1 .. (n - 1)].sequences, {}) = z + (n - 1)
      OBVIOUS
  <2>2. jt[1 .. n] \in V /\ Later(jt[1 .. n].sequences, {}) = z + (n - 1) + 1
      BY <1>3, <1>10, <2>1
  <2>3. z + (n - 1) + 1 = z + n /\ n \in 0 .. N
      BY <1>1
  <2> QED BY <2>2, <2>3
<1>13. N \in T
  <2>1. N \in 0 .. N
      BY <1>1
  <2> HIDE DEF T
  <2> QED BY <1>1, <1>11, <1>12, <2>1, UpTo
<1>14. jt[1 .. N] \in V /\ Later(jt[1 .. N].sequences, {}) = z + N
    BY <1>13
<1> QED BY <1>1, <1>8, <1>14 DEF V, z, N

\* A worker that takes a task: the container has a place more when it is the task.
LEMMA PlacesGained ==
  ASSUME NEW im \in Seq(Jobs), NEW fi \in Seq(Jobs), NEW b, NEW c, NEW t, NEW i,
         GivenUp(c, b, t)
  PROVE  /\ Places(im, fi, b, i) \in Nat
         /\ Places(im, fi, c, i) = Places(im, fi, b, i) + (IF t = Container(i) THEN 1 ELSE 0)
<1> DEFINE C == Copies(im, Container(i))
           D == Copies(fi, Container(i))
           E == Cardinality(Having(b, Container(i)))
           e == IF t = Container(i) THEN 1 ELSE 0
<1>1. Cardinality(Having(c, Container(i))) = E + e
    BY DEF GivenUp
<1>2. C \in Nat /\ D \in Nat /\ E \in Nat /\ e \in Nat
    BY PlacesType
<1>3. Places(im, fi, b, i) = C + D + E /\ Places(im, fi, c, i) = C + D + (E + e)
    BY <1>1 DEF Places
<1>4. Places(im, fi, b, i) \in Nat /\ Places(im, fi, c, i) = Places(im, fi, b, i) + e
  <2> HIDE DEF C, D, E, e
  <2> QED BY <1>2, <1>3
<1> QED BY <1>4

\* A worker that takes a task is one more that works.
LEMMA TaskGained ==
  ASSUME NEW b \in Works, NEW w \in Workers, b[w] = NoTask, NEW t \in Jobs
  PROVE  /\ [b EXCEPT ![w] = t] \in Works /\ GivenUp([b EXCEPT ![w] = t], b, t)
         /\ Cardinality(Working([b EXCEPT ![w] = t])) = Cardinality(Working(b)) + 1
         /\ Cardinality(Working(b)) + 1 \in Int
<1> DEFINE c == [b EXCEPT ![w] = t]
<1>1. c \in Works /\ Cardinality(Working(c)) = Cardinality(Working(b)) + 1
    BY WorkTaken
<1>4. ASSUME NEW i
      PROVE  Cardinality(Having(c, Container(i)))
               = Cardinality(Having(b, Container(i))) + (IF t = Container(i) THEN 1 ELSE 0)
    BY WorkTaken
<1> HIDE DEF c
<1>2. GivenUp(c, b, t)
    BY <1>4 DEF GivenUp
<1>3. Cardinality(Working(b)) \in Nat
    BY HavingType
<1> QED BY <1>1, <1>2, <1>3 DEF c

\* The first immediate task leaves the list: its container has a place less.
LEMMA PlacesHead ==
  ASSUME NEW im \in Seq(Jobs), im # <<>>, NEW fi \in Seq(Jobs), NEW b, NEW i
  PROVE  /\ Tail(im) \in Seq(Jobs) /\ Head(im) \in Jobs /\ Len(Tail(im)) = Len(im) - 1
         /\ Places(im, fi, b, i)
              = Places(Tail(im), fi, b, i) + (IF Head(im) = Container(i) THEN 1 ELSE 0)
<1>1. Tail(im) \in Seq(Jobs) /\ Head(im) \in Jobs /\ Len(Tail(im)) = Len(im) - 1
    BY HeadTailProperties
<1>2. Copies(im, Container(i))
        = Copies(Tail(im), Container(i)) + (IF Head(im) = Container(i) THEN 1 ELSE 0)
    BY CopiesTail
<1> DEFINE c == Copies(Tail(im), Container(i))
           d == Copies(fi, Container(i))
           e == Cardinality(Having(b, Container(i)))
           f == IF Head(im) = Container(i) THEN 1 ELSE 0
<1>3. c \in Nat /\ d \in Nat /\ e \in Nat /\ f \in Nat
    BY <1>1, PlacesType
<1>4. Places(im, fi, b, i) = (c + f) + d + e /\ Places(Tail(im), fi, b, i) = c + d + e
    BY <1>2 DEF Places
<1>5. Places(im, fi, b, i) = Places(Tail(im), fi, b, i) + f
  <2> HIDE DEF c, d, e, f
  <2> QED BY <1>3, <1>4
<1> QED BY <1>1, <1>5

\* What a worker without a task gets from the queue.
Taken(q, b, w, pop) ==
  /\ pop.task \in Jobs
  /\ Balanced(pop.queue, [b EXCEPT ![w] = pop.task], {})
  /\ pop.queue.signals = q.signals
  /\ Len(pop.queue.pending) + Len(pop.queue.immediate) < Len(q.pending) + Len(q.immediate)
NothingTaken(q, b, pop) ==
  /\ pop.task = NoTask /\ Balanced(pop.queue, b, {}) /\ pop.queue.signals = q.signals
  /\ pop.queue.pending = <<>> /\ pop.queue.immediate = <<>>
  /\ pop.queue.pending_num = q.pending_num /\ pop.queue.processing_num = q.processing_num

\* A worker takes the first immediate task.
LEMMA TakeImmediate ==
  ASSUME NEW q, NEW b, Balanced(q, b, {}), NEW w \in Workers, b[w] = NoTask,
         q.immediate # <<>>
  PROVE  Taken(q, b, w, PopNew(q))
<1> DEFINE t == Head(q.immediate)
           im == Tail(q.immediate)
           pn == q.pending_num - 1
           pr == q.processing_num + 1
           c == [b EXCEPT ![w] = t]
           r == [q EXCEPT !.immediate = im, !.pending_num = pn, !.processing_num = pr]
<1>1. q \in Queues /\ b \in Works
    BY DEF Balanced
<1>2. PopNew(q) = [task |-> t, queue |-> r]
    BY <1>1 DEF PopNew, Started, Queues
<1>3. /\ q.immediate \in Seq(Jobs) /\ q.finished \in Seq(Jobs) /\ Len(q.immediate) \in Nat
      /\ Len(q.pending) \in Nat
    BY <1>1, QueueFields
<1>4. im \in Seq(Jobs) /\ t \in Jobs /\ Len(im) = Len(q.immediate) - 1
    BY <1>3, PlacesHead
<1>5. c \in Works /\ pr = Cardinality(Working(c)) /\ GivenUp(c, b, t) /\ pr \in Int
    BY <1>1, <1>4, TaskGained DEF Balanced
<1>6. pn \in Int
    BY <1>1, QueueFields
<1>7. Single(im, q.finished, q.sequences, c, {})
  <2> SUFFICES ASSUME NEW i \in Items
               PROVE  Places(im, q.finished, c, i) = Places(q.immediate, q.finished, b, i)
      BY DEF Balanced, Single
  <2>1. Places(q.immediate, q.finished, b, i)
          = Places(im, q.finished, b, i) + (IF t = Container(i) THEN 1 ELSE 0)
      BY <1>3, PlacesHead
  <2> HIDE DEF c, t, im
  <2> QED BY <1>3, <1>4, <1>5, <2>1, PlacesGained
<1>14. Followed(Underway(q.pending, im, c), q.tracked, q.held)
  <2>1. ToSet(q.immediate) = ToSet(im) \cup {t}
      BY <1>3, <1>4, InList
  <2>2. \A u \in ValueTasks : u \in ToSet(q.pending) \cup ToSet(q.immediate) =>
          u = t \/ u \in ToSet(q.pending) \cup ToSet(im)
      BY <2>1
  <2>3. Followed(Underway(q.pending, q.immediate, b), q.tracked, q.held)
        /\ q.tracked \in [Items -> Seq(ValueTasks)]
      BY <1>1, QueueFields DEF Balanced
  <2> HIDE DEF t, im
  <2> QED BY <1>1, <1>4, <2>2, <2>3, FollowedTaken
<1> HIDE DEF pn, pr, im, t, c
<1>8. r \in Queues
    BY <1>1, <1>4, <1>5, <1>6 DEF Queues
<1>9. /\ r.pending = q.pending /\ r.immediate = im /\ r.finished = q.finished
      /\ r.sequences = q.sequences /\ r.pending_num = pn /\ r.processing_num = pr
      /\ r.finished_num = q.finished_num /\ r.signals = q.signals
      /\ r.tracked = q.tracked /\ r.held = q.held
    BY <1>1 DEF Queues
<1> HIDE DEF r
<1>10. r.pending_num = Len(r.pending) + Len(r.immediate) + Later(r.sequences, {})
  <2> DEFINE x == Len(q.pending) y == Len(q.immediate) z == Later(q.sequences, {})
  <2>1. x \in Nat /\ y \in Nat /\ z \in Nat
      BY <1>1, <1>3, QueueFields, LaterInt
  <2>2. r.pending_num = (x + y + z) - 1
      BY <1>9 DEF Balanced, pn
  <2>3. Len(r.pending) = x /\ Len(r.immediate) = y - 1 /\ Later(r.sequences, {}) = z
      BY <1>4, <1>9
  <2> HIDE DEF x, y, z
  <2> QED BY <2>1, <2>2, <2>3
<1>11. Balanced(r, c, {})
    BY <1>5, <1>7, <1>8, <1>9, <1>10, <1>14 DEF Balanced
<1>12. Len(r.pending) + Len(r.immediate) < Len(q.pending) + Len(q.immediate)
  <2> DEFINE x == Len(q.pending) y == Len(q.immediate)
  <2>1. x \in Nat /\ y \in Nat /\ Len(r.pending) = x /\ Len(r.immediate) = y - 1
      BY <1>3, <1>4, <1>9
  <2> HIDE DEF x, y
  <2>2. Len(r.pending) + Len(r.immediate) < x + y
      BY <2>1
  <2> QED BY <2>2 DEF x, y
<1>13. PopNew(q).task = t /\ PopNew(q).queue = r
    BY <1>2
<1> QED BY <1>4, <1>9, <1>11, <1>12, <1>13 DEF Taken, c

\* A worker gets nothing when no list has a task it may take; the tasks it passed
\* are in sequences.
LEMMA TakeNothing ==
  ASSUME NEW q, NEW b, Balanced(q, b, {}), q.immediate = <<>>, Takeable(q) = {}
  PROVE  NothingTaken(q, b, PopNew(q))
<1> DEFINE m == Moved(q, q.pending)
           pe == <<>>
           r == [m EXCEPT !.pending = pe]
<1>1. q \in Queues /\ q.pending \in Seq(RequestTasks)
    BY QueueFields DEF Balanced
<1>2. PopNew(q) = [task |-> NoTask, queue |-> r]
    BY Zenon DEF PopNew
<1>3. SameLists(q, m) /\ Later(m.sequences, {}) = Later(q.sequences, {}) + Len(q.pending)
  <2>1. \A k \in DOMAIN q.pending : Passed(q, q.pending[k])
      BY DEF Takeable, Passed, NewSequence
  <2> QED BY <1>1, <2>1, MovedTasks
<1>12. Followed(Underway(pe, q.immediate, b), q.tracked, q.held)
  <2> DEFINE S == Underway(q.pending, q.immediate, b)
             R == Underway(pe, q.immediate, b)
  <2>1. \A u \in ToSet(q.pending) : u \notin ValueTasks
      BY DEF Takeable, ToSet, ValueTasks
  <2>2. \A u \in ValueTasks : u \in S => u \in R
      BY <2>1 DEF Underway
  <2>3. Followed(S, q.tracked, q.held) /\ q.tracked \in [Items -> Seq(ValueTasks)]
      BY <1>1, QueueFields DEF Balanced
  <2> HIDE DEF S, R
  <2> QED BY <2>2, <2>3, FollowedStill DEF R
<1> HIDE DEF m
<1>4. /\ m \in Queues /\ m.immediate = q.immediate /\ m.finished = q.finished
      /\ m.pending_num = q.pending_num /\ m.processing_num = q.processing_num
      /\ m.finished_num = q.finished_num /\ m.signals = q.signals
      /\ m.tracked = q.tracked /\ m.held = q.held
      /\ \A i \in Items : m.sequences[i] = <<>> <=> q.sequences[i] = <<>>
    BY <1>1, <1>3, SameListsFields
<1>5. pe \in Seq(RequestTasks) /\ Len(pe) = 0
    OBVIOUS
<1> HIDE DEF pe
<1>6. r \in Queues
    BY <1>4, <1>5 DEF Queues
<1>7. /\ r.pending = pe /\ r.immediate = m.immediate /\ r.finished = m.finished
      /\ r.sequences = m.sequences /\ r.pending_num = m.pending_num
      /\ r.processing_num = m.processing_num /\ r.finished_num = m.finished_num
      /\ r.signals = m.signals /\ r.tracked = m.tracked /\ r.held = m.held
    BY <1>4 DEF Queues
<1> HIDE DEF r
<1>8. Single(r.immediate, r.finished, r.sequences, b, {})
    BY <1>4, <1>7 DEF Balanced, Single
<1>9. r.pending_num = Len(r.pending) + Len(r.immediate) + Later(r.sequences, {})
  <2> DEFINE x == Len(q.pending) y == Len(q.immediate) z == Later(q.sequences, {})
  <2>1. x \in Nat /\ y \in Nat /\ z \in Nat
      BY <1>1, QueueFields, LaterInt
  <2>2. r.pending_num = x + y + z
      BY <1>4, <1>7 DEF Balanced
  <2>3. Len(r.pending) = 0 /\ Len(r.immediate) = y /\ Later(r.sequences, {}) = z + x
      BY <1>3, <1>4, <1>5, <1>7
  <2> HIDE DEF x, y, z
  <2> QED BY <2>1, <2>2, <2>3
<1>10. Balanced(r, b, {})
    BY <1>4, <1>6, <1>7, <1>8, <1>9, <1>12 DEF Balanced
<1>11. PopNew(q).task = NoTask /\ PopNew(q).queue = r
    BY <1>2
<1> QED BY <1>4, <1>7, <1>10, <1>11 DEF NothingTaken, pe

\* The tasks before the one that is taken move to sequences.
LEMMA FirstTakeable ==
  ASSUME NEW q \in Queues, Takeable(q) # {}, NEW k, k = Min(Takeable(q)),
         NEW t, t = q.pending[k], NEW m, m = Moved(q, SubSeq(q.pending, 1, k - 1)),
         NEW pe, pe = SubSeq(q.pending, k + 1, Len(q.pending))
  PROVE  /\ k \in 1 .. Len(q.pending) /\ t \in RequestTasks
         /\ t.kind = "value_seq" => q.sequences[t.item] = <<>>
         /\ pe \in Seq(RequestTasks) /\ Len(pe) = Len(q.pending) - k
         /\ SameLists(q, m)
         /\ Later(m.sequences, {}) = Later(q.sequences, {}) + (k - 1)
<1> DEFINE L == Len(q.pending)
           s == SubSeq(q.pending, 1, k - 1)
<1>1. q.pending \in Seq(RequestTasks) /\ DOMAIN q.pending = 1 .. L /\ L \in Nat
    BY QueueFields, LenProperties
<1>2. k \in Takeable(q) /\ \A j \in Takeable(q) : k <= j
  <2>1. Takeable(q) \in SUBSET Nat
      BY <1>1 DEF Takeable
  <2> QED BY <2>1, MinIn
<1>3. k \in 1 .. L /\ t \in RequestTasks /\ (t.kind = "value_seq" => q.sequences[t.item] = <<>>)
  <2>1. k \in DOMAIN q.pending
      BY <1>2 DEF Takeable
  <2>2. k \in 1 .. L
      BY <1>1, <2>1
  <2>3. q.pending[k] \in RequestTasks
      BY <1>1, <2>2
  <2>4. q.pending[k].kind = "value_seq" => q.sequences[q.pending[k].item] = <<>>
      BY <1>2 DEF Takeable, NewSequence
  <2> QED BY <2>2, <2>3, <2>4
<1>4. s \in Seq(RequestTasks) /\ Len(s) = k - 1 /\ \A j \in 1 .. k - 1 : s[j] = q.pending[j]
    BY <1>1, <1>3
<1>5. pe \in Seq(RequestTasks) /\ Len(pe) = L - k
    BY <1>1, <1>3
<1> HIDE DEF s, L
<1>6. \A j \in DOMAIN s : Passed(q, s[j])
  <2>0. DOMAIN s = 1 .. k - 1
      BY <1>4, LenProperties
  <2> SUFFICES ASSUME NEW j \in DOMAIN s PROVE Passed(q, q.pending[j])
      BY <1>4, <2>0
  <2>1. j \in 1 .. k - 1 /\ j \in 1 .. L /\ ~(k <= j)
      BY <1>1, <1>3, <2>0
  <2>2. j \notin Takeable(q)
      BY <1>2, <2>1
  <2>3. j \in DOMAIN q.pending
      BY <1>1, <2>1
  <2> QED BY <2>2, <2>3 DEF Takeable, Passed, NewSequence
<1>7. SameLists(q, Moved(q, s)) /\ Later(Moved(q, s).sequences, {}) = Later(q.sequences, {}) + Len(s)
    BY <1>4, <1>6, MovedTasks
<1>8. m = Moved(q, s)
    BY DEF s
<1> QED BY <1>3, <1>4, <1>5, <1>7, <1>8 DEF L

\* A value is taken, or it stays in the list.
LEMMA ValuesLeft ==
  ASSUME NEW q \in Queues, Takeable(q) # {}, NEW u \in ValueTasks, u \in ToSet(q.pending)
  PROVE  \/ u = q.pending[Min(Takeable(q))]
         \/ u \in ToSet(SubSeq(q.pending, Min(Takeable(q)) + 1, Len(q.pending)))
<1> DEFINE k == Min(Takeable(q))
           s == q.pending
           pe == SubSeq(s, k + 1, Len(s))
<1>1. s \in Seq(RequestTasks)
    BY QueueFields
<1>2. k \in Takeable(q) /\ \A j \in Takeable(q) : k <= j
  <2>1. Takeable(q) \in SUBSET Nat
      BY <1>1 DEF Takeable
  <2> QED BY <2>1, MinIn
<1>3. PICK j \in DOMAIN s : s[j] = u
    BY DEF ToSet
<1>4. j \in Takeable(q) /\ Takeable(q) \subseteq DOMAIN s
    BY <1>3 DEF Takeable, ValueTasks
<1>5. RestOf(s, k, pe)
    BY DEF RestOf
<1> HIDE DEF k, s, pe
<1>6. k \in 0 .. Len(s) /\ (j = k \/ k < j)
    BY <1>1, <1>2, <1>4
<1>7. CASE k < j
  <2>1. s[j] \in ToSet(pe)
      BY <1>1, <1>5, <1>6, <1>7, RestHas
  <2> QED BY <1>3, <2>1 DEF pe, s, k
<1> QED BY <1>3, <1>6, <1>7 DEF s, k

\* The lists after the tasks before position k have moved and it is taken.
PassedBy(m, pe, sr, r) ==
  r = [m EXCEPT !.pending = pe, !.sequences = sr, !.pending_num = @ - 1, !.processing_num = @ + 1]

PassedWith(q, pe, sr, r) ==
  /\ r \in Queues /\ r.immediate = q.immediate /\ r.finished = q.finished
  /\ r.pending = pe /\ r.tracked = q.tracked /\ r.held = q.held
  /\ r.sequences = sr /\ r.processing_num = q.processing_num + 1
  /\ r.finished_num = q.finished_num /\ r.signals = q.signals
  /\ r.pending_num = Len(r.pending) + Len(r.immediate) + Later(r.sequences, {})
  /\ Len(r.pending) + Len(r.immediate) < Len(q.pending) + Len(q.immediate)

\* The queue keeps its types and its counter of pending tasks.
LEMMA PassedQueue ==
  ASSUME NEW q \in Queues, NEW m \in Queues, SameLists(q, m), NEW k \in 1 .. Len(q.pending),
         Later(m.sequences, {}) = Later(q.sequences, {}) + (k - 1),
         NEW pe \in Seq(RequestTasks), Len(pe) = Len(q.pending) - k,
         q.pending_num = Len(q.pending) + Len(q.immediate) + Later(q.sequences, {}),
         NEW sr \in Sequenced, Later(sr, {}) = Later(m.sequences, {}),
         NEW r, PassedBy(m, pe, sr, r)
  PROVE  PassedWith(q, pe, sr, r)
<1>0. SameLists(q, m)
    OBVIOUS
<1>2. /\ m.immediate = q.immediate /\ m.finished = q.finished
      /\ m.pending_num = q.pending_num /\ m.processing_num = q.processing_num
      /\ m.finished_num = q.finished_num /\ m.signals = q.signals
      /\ m.tracked = q.tracked /\ m.held = q.held
    BY ONLY <1>0, q \in Queues, SameListsFields
<1> DEFINE pn == m.pending_num - 1
           pr == m.processing_num + 1
           n == [m EXCEPT !.pending = pe, !.sequences = sr, !.pending_num = pn, !.processing_num = pr]
<1>1. r = n
    BY DEF PassedBy, Queues
<1>3. pn \in Int /\ pr \in Int
    BY QueueFields
<1> HIDE DEF pn, pr
<1>4. n \in Queues
    BY <1>3 DEF Queues
<1>5. /\ n.pending = pe /\ n.immediate = m.immediate /\ n.finished = m.finished
      /\ n.sequences = sr /\ n.pending_num = pn /\ n.processing_num = pr
      /\ n.finished_num = m.finished_num /\ n.signals = m.signals
      /\ n.tracked = m.tracked /\ n.held = m.held
    BY DEF Queues
<1> HIDE DEF n
<1> DEFINE x == Len(q.pending) y == Len(q.immediate) z == Later(q.sequences, {})
<1>6. x \in Nat /\ y \in Nat /\ z \in Nat
    BY QueueFields, LaterInt
<1>7. n.pending_num = (x + y + z) - 1
    BY <1>2, <1>5 DEF pn
<1>8. Len(n.pending) = x - k /\ Len(n.immediate) = y /\ Later(n.sequences, {}) = z + (k - 1)
    BY <1>2, <1>5
<1>9. k \in 1 .. x
    OBVIOUS
<1> HIDE DEF x, y, z
<1>10. n.pending_num = Len(n.pending) + Len(n.immediate) + Later(n.sequences, {})
    BY <1>6, <1>7, <1>8, <1>9
<1>11. Len(n.pending) + Len(n.immediate) < x + y
    BY <1>6, <1>8, <1>9
<1>12. n.processing_num = q.processing_num + 1
    BY <1>2, <1>5 DEF pr
<1> QED BY <1>1, <1>2, <1>4, <1>5, <1>10, <1>11, <1>12 DEF x, y, PassedWith

\* A worker takes the first pending task that need not wait.
LEMMA TakePending ==
  ASSUME NEW q, NEW b, Balanced(q, b, {}), NEW w \in Workers, b[w] = NoTask,
         q.immediate = <<>>, Takeable(q) # {}
  PROVE  Taken(q, b, w, PopNew(q))
<1> DEFINE k == Min(Takeable(q))
           t == q.pending[k]
           s == SubSeq(q.pending, 1, k - 1)
           m == Moved(q, s)
           pe == SubSeq(q.pending, k + 1, Len(q.pending))
           i == t.item
<1>1. q \in Queues /\ b \in Works
      /\ q.pending_num = Len(q.pending) + Len(q.immediate) + Later(q.sequences, {})
      /\ q.processing_num = Cardinality(Working(b)) /\ q.finished_num = Len(q.finished)
      /\ Single(q.immediate, q.finished, q.sequences, b, {})
      /\ q.immediate \in Seq(Jobs) /\ q.finished \in Seq(Jobs)
    BY QueueFields DEF Balanced
<1>2. /\ k \in 1 .. Len(q.pending) /\ t \in RequestTasks
      /\ t.kind = "value_seq" => q.sequences[t.item] = <<>>
      /\ pe \in Seq(RequestTasks) /\ Len(pe) = Len(q.pending) - k
      /\ SameLists(q, m)
      /\ Later(m.sequences, {}) = Later(q.sequences, {}) + (k - 1)
    BY <1>1, FirstTakeable
<1>10. \A u \in ValueTasks : u \in ToSet(q.pending) => u = t \/ u \in ToSet(pe)
    BY <1>1, ValuesLeft
<1>3. /\ m \in Queues /\ m.pending = q.pending /\ m.sequences \in Sequenced
      /\ \A j \in Items : m.sequences[j] = <<>> <=> q.sequences[j] = <<>>
  <2> HIDE DEF m
  <2> QED BY <1>1, <1>2, SameListsFields, QueueFields
<1> DEFINE p == [m EXCEPT !.pending = SubSeq(@, k + 1, Len(@))]
<1>4. p = [m EXCEPT !.pending = pe]
    BY <1>3
<1>5. PopNew(q) = IF t.kind = "value_seq"
                  THEN [task |-> Container(t.item), queue |-> Started(AddSequence(p, t))]
                  ELSE [task |-> t, queue |-> Started(p)]
    BY Zenon DEF PopNew
<1>6. t.kind \in {"value", "value_seq"} /\ i \in Items
    BY <1>2 DEF RequestTasks
<1>9. Followed(Underway(q.pending, q.immediate, b), q.tracked, q.held)
      /\ q.tracked \in [Items -> Seq(ValueTasks)]
    BY QueueFields DEF Balanced
<1> HIDE DEF p, m, pe, k, t
<1>7. CASE t.kind = "value"
  <2> DEFINE sr == m.sequences
             r == Started(p)
             c == [b EXCEPT ![w] = t]
  <2>1. t \in ValueTasks /\ t \in Jobs /\ \A j : t # Container(j)
      BY <1>2, <1>7, TaskKinds
  <2>2. PassedBy(m, pe, sr, r)
      BY <1>3, <1>4 DEF PassedBy, Started, Queues
  <2> HIDE DEF sr, r
  <2>3. /\ r \in Queues /\ r.immediate = q.immediate /\ r.finished = q.finished
        /\ r.pending = pe /\ r.tracked = q.tracked /\ r.held = q.held
        /\ r.sequences = sr /\ r.processing_num = q.processing_num + 1
        /\ r.finished_num = q.finished_num /\ r.signals = q.signals
        /\ r.pending_num = Len(r.pending) + Len(r.immediate) + Later(r.sequences, {})
        /\ Len(r.pending) + Len(r.immediate) < Len(q.pending) + Len(q.immediate)
    <3>1. sr \in Sequenced /\ Later(sr, {}) = Later(m.sequences, {})
        BY <1>3 DEF sr
    <3>2. PassedWith(q, pe, sr, r)
        BY <1>1, <1>2, <1>3, <2>2, <3>1, PassedQueue
    <3> QED BY <3>2 DEF PassedWith
  <2>4. /\ c \in Works /\ GivenUp(c, b, t)
        /\ Cardinality(Working(c)) = Cardinality(Working(b)) + 1
      BY <1>1, <2>1, TaskGained
  <2>8. Followed(Underway(pe, q.immediate, c), q.tracked, q.held)
    <3>1. \A u \in ValueTasks : u \in ToSet(q.pending) \cup ToSet(q.immediate) =>
            u = t \/ u \in ToSet(pe) \cup ToSet(q.immediate)
        BY <1>10
    <3> QED BY <1>1, <1>9, <2>1, <3>1, FollowedTaken
  <2> HIDE DEF c
  <2>5. Single(q.immediate, q.finished, sr, c, {})
    <3> SUFFICES ASSUME NEW j \in Items
                 PROVE  Places(q.immediate, q.finished, c, j) = Places(q.immediate, q.finished, b, j)
        BY <1>1, <1>3 DEF Single, sr
    <3> DEFINE im == q.immediate fi == q.finished
    <3>1. t # Container(j) /\ im \in Seq(Jobs) /\ fi \in Seq(Jobs)
        BY <1>1, <2>1
    <3> HIDE DEF im, fi
    <3>2. Places(im, fi, c, j) = Places(im, fi, b, j)
        BY <2>4, <3>1, PlacesGained
    <3> QED BY <3>2 DEF im, fi
  <2>6. Balanced(r, c, {})
      BY <1>1, <2>3, <2>4, <2>5, <2>8 DEF Balanced
  <2>7. PopNew(q).task = t /\ PopNew(q).queue = r
      BY <1>5, <1>7 DEF r
  <2> QED BY <2>1, <2>3, <2>6, <2>7 DEF Taken, c
<1>8. CASE t.kind = "value_seq"
  <2> DEFINE sq == m.sequences
             sr == [sq EXCEPT ![i] = Append(@, t)]
             r == Started(AddSequence(p, t))
             a == Container(i)
             c == [b EXCEPT ![w] = a]
  <2>1. a \in Jobs /\ \A j : a = Container(j) <=> i = j
      BY <1>6, TaskKinds
  <2>2. sq \in Sequenced /\ sq[i] = <<>> /\ t \in Serial(i)
      BY <1>2, <1>3, <1>6, <1>8, TaskKinds
  <2>3. PassedBy(m, pe, sr, r)
      BY <1>3, <1>4 DEF PassedBy, Started, AddSequence, Queues
  <2>4. /\ sr \in Sequenced /\ sr[i] # <<>> /\ \A j \in Items : j # i => sr[j] = sq[j]
        /\ Later(sr, {}) = Later(sq, {})
    <3> DEFINE M == {}
               v == Append(sq[i], t)
    <3>1. Replaced(sq, i, v, sr)
        BY DEF Replaced
    <3>2. i \notin M /\ sq \in Sequenced
        BY <2>2
    <3> HIDE DEF i, sq, sr, M
    <3>3. v \in Seq(Serial(i)) /\ Len(v) = Len(sq[i]) + 1 /\ v # <<>>
        BY <1>6, <2>2, SequencedAt, AppendProperties
    <3> HIDE DEF v
    <3>4. /\ sr \in Sequenced /\ sr[i] # <<>> /\ \A j \in Items : j # i => sr[j] = sq[j]
          /\ Later(sr, M) = Later(sq, M) + (IF sq[i] = <<>> /\ i \notin M THEN 0 ELSE 1)
        BY <1>6, <3>1, <3>2, <3>3, LaterJoin
    <3>5. Later(sq, M) \in Nat
        BY <2>2, LaterInt
    <3>6. Later(sr, M) = Later(sq, M)
        BY <2>2, <3>2, <3>4, <3>5
    <3> QED BY <3>4, <3>6 DEF M
  <2> HIDE DEF sr, r
  <2>5. /\ r \in Queues /\ r.immediate = q.immediate /\ r.finished = q.finished
        /\ r.pending = pe /\ r.tracked = q.tracked /\ r.held = q.held
        /\ r.sequences = sr /\ r.processing_num = q.processing_num + 1
        /\ r.finished_num = q.finished_num /\ r.signals = q.signals
        /\ r.pending_num = Len(r.pending) + Len(r.immediate) + Later(r.sequences, {})
        /\ Len(r.pending) + Len(r.immediate) < Len(q.pending) + Len(q.immediate)
    <3>1. sr \in Sequenced /\ Later(sr, {}) = Later(m.sequences, {})
        BY <2>4
    <3>2. PassedWith(q, pe, sr, r)
        BY <1>1, <1>2, <1>3, <2>3, <3>1, PassedQueue
    <3> QED BY <3>2 DEF PassedWith
  <2>6. /\ c \in Works /\ GivenUp(c, b, a)
        /\ Cardinality(Working(c)) = Cardinality(Working(b)) + 1
    <3> HIDE DEF a
    <3> QED BY <1>1, <2>1, TaskGained
  <2>10. Followed(Underway(pe, q.immediate, c), q.tracked, q.held)
    <3>1. t \notin ValueTasks
        BY <1>8 DEF ValueTasks
    <3>2. \A u \in ValueTasks : u \in ToSet(q.pending) \cup ToSet(q.immediate) =>
            u = a \/ u \in ToSet(pe) \cup ToSet(q.immediate)
        BY <1>10, <3>1
    <3> HIDE DEF a
    <3> QED BY <1>1, <1>9, <2>1, <3>2, FollowedTaken
  <2> HIDE DEF c, a
  <2>7. Single(q.immediate, q.finished, sr, c, {})
    <3> SUFFICES ASSUME NEW j \in Items
                 PROVE  Places(q.immediate, q.finished, c, j) = IF sr[j] = <<>> THEN 0 ELSE 1
        BY DEF Single
    <3>1. /\ Places(q.immediate, q.finished, c, j)
               = Places(q.immediate, q.finished, b, j) + (IF a = Container(j) THEN 1 ELSE 0)
          /\ Places(q.immediate, q.finished, b, j) \in Nat
      <4> DEFINE im == q.immediate fi == q.finished
      <4>1. im \in Seq(Jobs) /\ fi \in Seq(Jobs)
          BY <1>1
      <4> HIDE DEF im, fi
      <4>2. /\ Places(im, fi, c, j) = Places(im, fi, b, j) + (IF a = Container(j) THEN 1 ELSE 0)
            /\ Places(im, fi, b, j) \in Nat
          BY <2>6, <4>1, PlacesGained
      <4> QED BY <4>2 DEF im, fi
    <3>2. Places(q.immediate, q.finished, b, j) = IF q.sequences[j] = <<>> THEN 0 ELSE 1
        BY <1>1 DEF Single
    <3>3. CASE j = i
        BY <1>2, <1>8, <2>1, <2>4, <3>1, <3>2, <3>3
    <3>4. CASE j # i
        BY <1>3, <2>1, <2>4, <3>1, <3>2, <3>4
    <3> QED BY <3>3, <3>4
  <2>8. Balanced(r, c, {})
      BY <1>1, <2>5, <2>6, <2>7, <2>10 DEF Balanced
  <2>9. PopNew(q).task = a /\ PopNew(q).queue = r
      BY <1>5, <1>8 DEF r, a
  <2> QED BY <2>1, <2>5, <2>8, <2>9 DEF Taken, c
<1> QED BY <1>6, <1>7, <1>8

\* A worker gets a task, or there is none for it (pp_task_queue_pop_new).
LEMMA Popped ==
  ASSUME NEW q, NEW b, Balanced(q, b, {}), NEW w \in Workers, b[w] = NoTask
  PROVE  Taken(q, b, w, PopNew(q)) \/ NothingTaken(q, b, PopNew(q))
BY TakeImmediate, TakeNothing, TakePending

\* Tasks in sequences are pending too, so the counter is never too small for
\* a worker that asks whether to wake another.
LEMMA PendingCounted ==
  ASSUME NEW q, NEW b, Balanced(q, b, {})
  PROVE  /\ q.pending_num \in Int /\ Len(q.pending) + Len(q.immediate) \in Nat
         /\ Len(q.pending) + Len(q.immediate) <= q.pending_num
<1> DEFINE x == Len(q.pending) y == Len(q.immediate) z == Later(q.sequences, {})
<1>1. x \in Nat /\ y \in Nat /\ z \in Nat /\ q.pending_num = x + y + z
    BY QueueFields, LaterInt DEF Balanced
<1> HIDE DEF x, y, z
<1>2. q.pending_num \in Int /\ x + y \in Nat /\ x + y <= q.pending_num
    BY <1>1
<1> QED BY <1>2 DEF x, y

-----------------------------------------------------------------------------
(* The invariant. *)

Tasks(ws) == [w \in Workers |-> ws[w].task]
WorkersTrue(ws) ==
  /\ ws \in [Workers -> [pc : {"waiting", "woken", "busy", "exited"}, task : Jobs \cup {NoTask}]]
  /\ \A w \in Workers : ws[w].pc = "busy" <=> ws[w].task # NoTask

\* Somebody is on the way when a worker waits and there are tasks in lists.
Awake(ws, q) ==
  (q.pending # <<>> \/ q.immediate # <<>>) /\ Waiting(ws) # {} =>
    \E w \in Workers : ws[w].pc = "woken"

ManagerTrue ==
  /\ manager \in [pc : {"receive", "read", "collect", "flush", "free"},
                  tasks : Seq(RequestTasks \cup Collectible), idle : BOOLEAN]
  /\ manager.pc = "receive" => manager.tasks = <<>>
  /\ manager.pc = "read" => manager.tasks \in Seq(RequestTasks)

Sound ==
  /\ WorkersTrue(worker)
  /\ Balanced(queue, Tasks(worker), {}) /\ queue.signals = 0
  /\ IF manager.pc = "free" THEN Waiting(worker) = {} ELSE Awake(worker, queue)
  /\ ManagerTrue
  /\ accepted \in [Items -> Nat]
  /\ tests \in [received : Nat, answered : SUBSET Nat]

\* There are at most as many waiting workers as workers, and somebody when any.
LEMMA WaitingType ==
  ASSUME NEW ws
  PROVE  /\ IsFiniteSet(Waiting(ws)) /\ Cardinality(Waiting(ws)) \in Nat
         /\ Cardinality(Waiting(ws)) <= Cardinality(Workers)
         /\ Cardinality(Workers) \in Nat
         /\ Waiting(ws) # {} => Cardinality(Waiting(ws)) # 0
<1>1. Waiting(ws) \in SUBSET Workers /\ IsFiniteSet(Workers)
    BY PreprocAssumption DEF Waiting
<1>2. IsFiniteSet(Waiting(ws)) /\ Cardinality(Waiting(ws)) <= Cardinality(Workers)
    BY <1>1, FS_Subset
<1> QED BY <1>1, <1>2, FS_CardinalityType, FS_EmptySet

\* The end of a critical section.
LEMMA Unlocked ==
  ASSUME NEW q, NEW ws, WorkersTrue(ws), Balanced(q, Tasks(ws), {}), Unlock(q, ws)
  PROVE  /\ WorkersTrue(worker') /\ Balanced(queue', Tasks(worker'), {}) /\ queue'.signals = 0
         /\ queue'.pending = q.pending /\ queue'.immediate = q.immediate
         /\ queue'.pending_num = q.pending_num /\ queue'.processing_num = q.processing_num
         /\ \A w \in Workers :
              /\ worker'[w].pc = "waiting" => ws[w].pc = "waiting"
              /\ ws[w].pc = "woken" => worker'[w].pc = "woken"
         /\ q.signals >= 1 /\ Waiting(ws) # {} => \E w \in Workers : worker'[w].pc = "woken"
         /\ q.signals >= Cardinality(Waiting(ws)) => Waiting(worker') = {}
<1> DEFINE C == Cardinality(Waiting(ws))
           z == 0
           r == [q EXCEPT !.signals = z]
<1>1. q \in Queues /\ q.signals \in Nat /\ C \in Nat /\ (Waiting(ws) # {} => C # 0)
    BY QueueFields, WaitingType DEF Balanced
<1>2. PICK woken \in SUBSET Waiting(ws) :
        /\ Cardinality(woken) = IF q.signals < C THEN q.signals ELSE C
        /\ worker' = [w \in Workers |->
                        IF w \in woken THEN [ws[w] EXCEPT !.pc = "woken"] ELSE ws[w]]
    BY DEF Unlock
<1>3. queue' = r
    BY DEF Unlock
<1>4. ASSUME NEW w \in Workers
      PROVE  /\ worker'[w] \in [pc : {"waiting", "woken", "busy", "exited"}, task : Jobs \cup {NoTask}]
             /\ worker'[w].task = ws[w].task
             /\ worker'[w].pc = IF w \in woken THEN "woken" ELSE ws[w].pc
             /\ w \in woken => ws[w].pc = "waiting"
  <2> DEFINE k == "woken" o == ws[w]
  <2>1. o \in [pc : {"waiting", "woken", "busy", "exited"}, task : Jobs \cup {NoTask}]
      BY DEF WorkersTrue
  <2>2. k \in {"waiting", "woken", "busy", "exited"}
      OBVIOUS
  <2>3. worker'[w] = IF w \in woken THEN [o EXCEPT !.pc = k] ELSE o
      BY <1>2
  <2>4. w \in woken => o.pc = "waiting"
      BY DEF Waiting
  <2> HIDE DEF k, o
  <2>5. /\ worker'[w] \in [pc : {"waiting", "woken", "busy", "exited"}, task : Jobs \cup {NoTask}]
        /\ worker'[w].task = o.task /\ worker'[w].pc = IF w \in woken THEN k ELSE o.pc
      BY <2>1, <2>2, <2>3
  <2> QED BY <2>4, <2>5 DEF k, o
<1>5. WorkersTrue(worker')
  <2>1. worker' \in [Workers -> [pc : {"waiting", "woken", "busy", "exited"}, task : Jobs \cup {NoTask}]]
      BY <1>2, <1>4
  <2>2. \A w \in Workers : worker'[w].pc = "busy" <=> worker'[w].task # NoTask
      BY <1>4 DEF WorkersTrue
  <2> QED BY <2>1, <2>2 DEF WorkersTrue
<1>6. Tasks(worker') = Tasks(ws)
    BY <1>4 DEF Tasks
<1>7. z \in Nat
    OBVIOUS
<1>8. /\ r.pending = q.pending /\ r.immediate = q.immediate /\ r.finished = q.finished
      /\ r.sequences = q.sequences /\ r.pending_num = q.pending_num
      /\ r.processing_num = q.processing_num /\ r.finished_num = q.finished_num
      /\ r.tracked = q.tracked /\ r.held = q.held /\ r.signals = 0
    BY <1>1 DEF Queues
<1>9. r \in Queues
  <2> HIDE DEF z
  <2> QED BY <1>1, <1>7 DEF Queues
<1> HIDE DEF r
<1>10. Balanced(r, Tasks(ws), {})
    BY <1>8, <1>9 DEF Balanced
<1>11. Balanced(queue', Tasks(worker'), {})
    BY <1>3, <1>6, <1>10
<1>12. ASSUME q.signals >= 1, Waiting(ws) # {}
       PROVE  \E w \in Workers : worker'[w].pc = "woken"
  <2>1. Cardinality(woken) # 0
      BY <1>1, <1>2, <1>12
  <2>2. woken # {}
      BY <2>1, FS_EmptySet
  <2>3. woken \subseteq Workers
      BY DEF Waiting
  <2> QED BY <1>4, <2>2, <2>3
<1>13. ASSUME q.signals >= C PROVE Waiting(worker') = {}
  <2>1. Cardinality(woken) = Cardinality(Waiting(ws))
      BY <1>1, <1>2, <1>13
  <2>2. woken = Waiting(ws)
    <3>1. IsFiniteSet(Waiting(ws)) /\ woken \in SUBSET Waiting(ws)
        BY WaitingType
    <3> QED BY <2>1, <3>1, FS_Subset
  <2> QED BY <1>4, <2>2 DEF Waiting
<1> QED BY <1>3, <1>4, <1>5, <1>8, <1>11, <1>12, <1>13

\* A worker at the top of its loop: it takes a task and leaves others that
\* are on the way, or there is nothing left to take.
LEMMA Continued ==
  ASSUME Sound, NEW w \in Workers, worker[w].pc \in {"busy", "woken"}, NEW q,
         Balanced(q, [Tasks(worker) EXCEPT ![w] = NoTask], {}), Continue(w, q),
         manager' = manager,
         manager.pc # "free" =>
           \/ q.signals >= 1 \/ Len(q.pending) + Len(q.immediate) < 2
           \/ Waiting(worker) = {}
           \/ \E v \in Workers : v # w /\ worker[v].pc = "woken"
  PROVE  /\ WorkersTrue(worker') /\ Balanced(queue', Tasks(worker'), {}) /\ queue'.signals = 0
         /\ IF manager'.pc = "free" THEN Waiting(worker') = {} ELSE Awake(worker', queue')
<1> DEFINE At(pc, t) == [worker EXCEPT ![w] = [pc |-> pc, task |-> t]]
           b == [Tasks(worker) EXCEPT ![w] = NoTask]
           pop == PopNew(q)
<1>1. WorkersTrue(worker) /\ b[w] = NoTask
    BY DEF Sound, Tasks
<1>2. ASSUME NEW pc \in {"waiting", "busy", "exited"}, NEW t \in Jobs \cup {NoTask},
             pc = "busy" <=> t # NoTask
      PROVE  /\ WorkersTrue(At(pc, t)) /\ Tasks(At(pc, t)) = [b EXCEPT ![w] = t]
             /\ t = NoTask => Tasks(At(pc, t)) = b
             /\ pc # "waiting" => Waiting(At(pc, t)) = Waiting(worker)
             /\ \A v \in Workers : v # w => At(pc, t)[v] = worker[v]
  <2> DEFINE x == [pc |-> pc, task |-> t]
             ws == [worker EXCEPT ![w] = x]
  <2>1. /\ x \in [pc : {"waiting", "woken", "busy", "exited"}, task : Jobs \cup {NoTask}]
        /\ x.pc = pc /\ x.task = t
      OBVIOUS
  <2> HIDE DEF x
  <2>2. ws \in [Workers -> [pc : {"waiting", "woken", "busy", "exited"}, task : Jobs \cup {NoTask}]]
      BY <1>1, <2>1 DEF WorkersTrue
  <2>3. ws[w] = x /\ \A v \in Workers : v # w => ws[v] = worker[v]
      BY <1>1 DEF WorkersTrue
  <2> HIDE DEF ws
  <2>4. WorkersTrue(ws)
      BY <1>1, <1>2, <2>1, <2>2, <2>3 DEF WorkersTrue
  <2>5. Tasks(ws) = [b EXCEPT ![w] = t]
      BY <2>1, <2>3 DEF Tasks
  <2>6. t = NoTask => Tasks(ws) = b
      BY <2>1, <2>3 DEF Tasks
  <2>7. pc # "waiting" => Waiting(ws) = Waiting(worker)
      BY <2>1, <2>3 DEF Waiting
  <2> QED BY <2>3, <2>4, <2>5, <2>6, <2>7 DEF ws, x
<1>3. NoTask \notin Jobs
    BY TaskKinds
<1>4. CASE Stopped /\ Unlock(q, At("exited", NoTask))
  <2> DEFINE ws == At("exited", NoTask)
  <2>1. WorkersTrue(ws) /\ Tasks(ws) = b /\ Waiting(ws) = Waiting(worker)
      BY <1>2
  <2>2. Waiting(worker) = {} /\ manager'.pc = "free"
      BY <1>4 DEF Sound, Stopped
  <2> HIDE DEF ws
  <2>3. Balanced(q, Tasks(ws), {}) /\ Unlock(q, ws)
      BY <1>4, <2>1 DEF ws
  <2>4. /\ WorkersTrue(worker') /\ Balanced(queue', Tasks(worker'), {}) /\ queue'.signals = 0
        /\ \A v \in Workers : worker'[v].pc = "waiting" => ws[v].pc = "waiting"
    <3> HIDE DEF b
    <3>1. WorkersTrue(ws)
        BY <2>1
    <3> QED BY <2>3, <3>1, Unlocked
  <2>5. Waiting(worker') = {}
      BY <2>1, <2>2, <2>4 DEF Waiting
  <2> QED BY <2>2, <2>4, <2>5
<1>5. CASE ~Stopped /\ pop.task # NoTask /\ Unlock(pop.queue, At("busy", pop.task))
  <2> DEFINE t == pop.task
             p == pop.queue
             ws == At("busy", t)
  <2>1. Taken(q, b, w, pop)
    <3> HIDE DEF b
    <3>1. Taken(q, b, w, pop) \/ NothingTaken(q, b, pop)
        BY <1>1, Popped DEF b
    <3> HIDE DEF pop
    <3> QED BY <1>5, <3>1 DEF NothingTaken
  <2>2. /\ t \in Jobs /\ Balanced(p, [b EXCEPT ![w] = t], {}) /\ p.signals = q.signals
        /\ Len(p.pending) + Len(p.immediate) < Len(q.pending) + Len(q.immediate)
      BY <2>1 DEF Taken
  <2> HIDE DEF b, pop, t, p
  <2>3. /\ WorkersTrue(ws) /\ Tasks(ws) = [b EXCEPT ![w] = t] /\ Waiting(ws) = Waiting(worker)
        /\ \A v \in Workers : v # w => ws[v] = worker[v]
    <3>1. t \in Jobs \cup {NoTask} /\ t # NoTask
        BY <1>3, <2>2
    <3> QED BY <1>2, <3>1
  <2>4. Unlock(p, ws)
      BY <1>5 DEF p, t
  <2> HIDE DEF ws
  <2>5. Balanced(p, Tasks(ws), {})
      BY <2>2, <2>3
  <2>6. /\ WorkersTrue(worker') /\ Balanced(queue', Tasks(worker'), {}) /\ queue'.signals = 0
        /\ queue'.pending = p.pending /\ queue'.immediate = p.immediate
        /\ \A v \in Workers :
             /\ worker'[v].pc = "waiting" => ws[v].pc = "waiting"
             /\ ws[v].pc = "woken" => worker'[v].pc = "woken"
        /\ p.signals >= 1 /\ Waiting(ws) # {} => \E v \in Workers : worker'[v].pc = "woken"
      BY <2>3, <2>4, <2>5, Unlocked
  <2>7. manager.pc # "free" /\ manager'.pc # "free"
      BY <1>5 DEF Stopped
  <2>8. Awake(worker', queue')
    <3> SUFFICES ASSUME p.pending # <<>> \/ p.immediate # <<>>, Waiting(worker') # {}
                 PROVE  \E v \in Workers : worker'[v].pc = "woken"
        BY <2>6 DEF Awake
    <3>1. Waiting(ws) # {} /\ Waiting(worker) # {}
        BY <2>3, <2>6 DEF Waiting
    <3>2. Len(q.pending) + Len(q.immediate) >= 2
      <4>1. Len(p.pending) \in Nat /\ Len(p.immediate) \in Nat
            /\ (Len(p.pending) # 0 \/ Len(p.immediate) # 0)
        <5>1. p.pending \in Seq(RequestTasks) /\ p.immediate \in Seq(Jobs)
            BY <2>2, QueueFields DEF Balanced
        <5>2. (p.pending # <<>> => Len(p.pending) # 0) /\ (p.immediate # <<>> => Len(p.immediate) # 0)
            BY <5>1, EmptySeq
        <5> QED BY <5>1, <5>2, LenProperties
      <4>2. Len(q.pending) + Len(q.immediate) \in Nat
          BY PendingCounted
      <4> DEFINE x == Len(p.pending) y == Len(p.immediate) s == Len(q.pending) + Len(q.immediate)
      <4>3. x \in Nat /\ y \in Nat /\ (x # 0 \/ y # 0) /\ s \in Nat /\ x + y < s
          BY <2>2, <4>1, <4>2
      <4> HIDE DEF x, y, s
      <4>4. s >= 2
          BY <4>3
      <4> QED BY <4>4 DEF s
    <3>3. CASE q.signals >= 1
        BY <2>2, <2>6, <3>1, <3>3
    <3>4. CASE \E v \in Workers : v # w /\ worker[v].pc = "woken"
        BY <2>3, <2>6, <3>4
    <3>5. ~(Len(q.pending) + Len(q.immediate) < 2)
      <4>1. Len(q.pending) + Len(q.immediate) \in Nat
          BY PendingCounted
      <4> DEFINE s == Len(q.pending) + Len(q.immediate)
      <4>2. s \in Nat /\ s >= 2
          BY <3>2, <4>1
      <4> HIDE DEF s
      <4>3. ~(s < 2)
          BY <4>2
      <4> QED BY <4>3 DEF s
    <3> QED BY <2>7, <3>1, <3>3, <3>4, <3>5
  <2> QED BY <2>6, <2>7, <2>8
<1>6. CASE ~Stopped /\ pop.task = NoTask /\ Unlock(pop.queue, At("waiting", NoTask))
  <2> DEFINE p == pop.queue
             ws == At("waiting", NoTask)
  <2>1. NothingTaken(q, b, pop)
    <3> HIDE DEF b
    <3>1. Taken(q, b, w, pop) \/ NothingTaken(q, b, pop)
        BY <1>1, Popped DEF b
    <3> HIDE DEF pop
    <3> QED BY <1>3, <1>6, <3>1 DEF Taken
  <2>2. Balanced(p, b, {}) /\ p.pending = <<>> /\ p.immediate = <<>>
      BY <2>1 DEF NothingTaken
  <2> HIDE DEF b, pop, p
  <2>3. WorkersTrue(ws) /\ Tasks(ws) = b
      BY <1>2
  <2>4. Unlock(p, ws)
      BY <1>6 DEF p
  <2> HIDE DEF ws
  <2>5. Balanced(p, Tasks(ws), {})
      BY <2>2, <2>3
  <2>6. /\ WorkersTrue(worker') /\ Balanced(queue', Tasks(worker'), {}) /\ queue'.signals = 0
        /\ queue'.pending = p.pending /\ queue'.immediate = p.immediate
      BY <2>3, <2>4, <2>5, Unlocked
  <2>7. manager'.pc # "free"
      BY <1>6 DEF Stopped
  <2>8. Awake(worker', queue')
      BY <2>2, <2>6 DEF Awake
  <2> QED BY <2>6, <2>7, <2>8
<1>7. \/ Stopped /\ Unlock(q, At("exited", NoTask))
      \/ ~Stopped /\ pop.task # NoTask /\ Unlock(pop.queue, At("busy", pop.task))
      \/ ~Stopped /\ pop.task = NoTask /\ Unlock(pop.queue, At("waiting", NoTask))
    BY Zenon DEF Continue
<1> QED BY <1>4, <1>5, <1>6, <1>7

-----------------------------------------------------------------------------
(* The invariant is kept by every step. *)

\* The queue starts sound: it is empty and the workers are on their way to it.
LEMMA SoundInit == Init => Sound
<1> SUFFICES ASSUME Init PROVE Sound
    OBVIOUS
<1> DEFINE b == Tasks(worker)
<1>1. \A w \in Workers : worker[w].pc = "waiting" /\ worker[w].task = NoTask
    BY DEF Init
<1>2. WorkersTrue(worker)
    BY DEF Init, WorkersTrue
<1>3. b \in Works /\ \A w \in Workers : b[w] = NoTask
    BY <1>1 DEF Tasks, Works
<1> HIDE DEF b
<1>4. \A i : Having(b, Container(i)) = {} /\ Working(b) = {}
    BY <1>3, TaskKinds DEF Having, Working
<1>5. queue = EmptyQueue /\ queue \in Queues
  <2>1. /\ <<>> \in Seq(RequestTasks) /\ <<>> \in Seq(Jobs)
        /\ [i \in Items |-> <<>>] \in Sequenced
        /\ [i \in Items |-> <<>>] \in [Items -> Seq(ValueTasks)]
    <3>1. \A A : <<>> \in Seq(A)
        BY EmptySeq
    <3> QED BY <3>1 DEF Sequenced
  <2> QED BY <2>1 DEF Init, EmptyQueue, Queues
<1>6. /\ queue.pending = <<>> /\ queue.immediate = <<>> /\ queue.finished = <<>>
      /\ queue.sequences = [i \in Items |-> <<>>] /\ queue.pending_num = 0
      /\ queue.processing_num = 0 /\ queue.finished_num = 0 /\ queue.signals = 0
      /\ queue.tracked = [i \in Items |-> <<>>] /\ queue.held = [i \in Items |-> {}]
    BY <1>5 DEF EmptyQueue
<1>13. Followed(Underway(queue.pending, queue.immediate, b), queue.tracked, queue.held)
  <2> DEFINE S == Underway(queue.pending, queue.immediate, b)
  <2> HIDE DEF S
  <2> QED BY <1>6 DEF Followed
<1>7. Single(queue.immediate, queue.finished, queue.sequences, b, {})
  <2> SUFFICES ASSUME NEW i \in Items
               PROVE  Places(queue.immediate, queue.finished, b, i) = 0
      BY <1>6 DEF Single
  <2>1. Copies(queue.immediate, Container(i)) = 0 /\ Copies(queue.finished, Container(i)) = 0
    <3>1. Copies(<<>>, Container(i)) = 0
      <4>1. <<>> \in Seq(Jobs) /\ \A k \in DOMAIN <<>> : <<>>[k] # Container(i)
          OBVIOUS
      <4> DEFINE s == <<>>
      <4>2. s \in Seq(Jobs) /\ \A k \in DOMAIN s : s[k] # Container(i)
          BY <4>1
      <4> HIDE DEF s
      <4>3. Copies(s, Container(i)) = 0
          BY <4>2, CopiesNone
      <4> QED BY <4>3 DEF s
    <3> QED BY <1>6, <3>1
  <2>2. Cardinality(Having(b, Container(i))) = 0
      BY <1>4, FS_EmptySet
  <2> QED BY <2>1, <2>2 DEF Places
<1>8. Later(queue.sequences, {}) = 0
  <2>1. \A i \in Items : Behind(queue.sequences, {})[i] = 0
      BY <1>6 DEF Behind
  <2> DEFINE f == Behind(queue.sequences, {})
             R == {}
  <2>2. R \in SUBSET Items /\ (\A i \in Items : f[i] = IF i \in R THEN f[i] ELSE 0)
        /\ \A i \in R : f[i] \in Int
      BY <2>1
  <2> HIDE DEF f, R
  <2>3. SumFunctionOnSet(f, Items) = SumFunctionOnSet(f, R)
      BY <2>2, SumExtended, PreprocAssumption
  <2> QED BY <2>3, SumOfNone DEF Later, f, R
<1>9. Balanced(queue, b, {})
  <2>1. Cardinality(Working(b)) = 0
      BY <1>4, FS_EmptySet
  <2>2. Len(queue.pending) = 0 /\ Len(queue.immediate) = 0 /\ Len(queue.finished) = 0
      BY <1>6
  <2> QED BY <1>3, <1>5, <1>6, <1>7, <1>8, <1>13, <2>1, <2>2 DEF Balanced
<1>10. Awake(worker, queue) /\ manager.pc # "free"
    BY <1>6 DEF Awake, Init
<1>11. ManagerTrue
    BY DEF Init, ManagerTrue
<1>12. accepted \in [Items -> Nat] /\ tests \in [received : Nat, answered : SUBSET Nat]
    BY DEF Init
<1> QED BY <1>2, <1>6, <1>9, <1>10, <1>11, <1>12 DEF Sound, b

\* A critical section of the manager.
LEMMA ManagerUnlocks ==
  ASSUME Sound, manager.pc # "free", NEW q, Balanced(q, Tasks(worker), {}), Unlock(q, worker),
         \/ q.signals >= 1
         \/ q.pending = queue.pending /\ q.immediate = queue.immediate
  PROVE  /\ WorkersTrue(worker') /\ Balanced(queue', Tasks(worker'), {}) /\ queue'.signals = 0
         /\ Awake(worker', queue')
<1>1. WorkersTrue(worker) /\ Awake(worker, queue)
    BY DEF Sound
<1>2. /\ WorkersTrue(worker') /\ Balanced(queue', Tasks(worker'), {}) /\ queue'.signals = 0
      /\ queue'.pending = q.pending /\ queue'.immediate = q.immediate
      /\ \A w \in Workers :
           /\ worker'[w].pc = "waiting" => worker[w].pc = "waiting"
           /\ worker[w].pc = "woken" => worker'[w].pc = "woken"
      /\ q.signals >= 1 /\ Waiting(worker) # {} => \E w \in Workers : worker'[w].pc = "woken"
    BY <1>1, Unlocked
<1>3. Waiting(worker') # {} => Waiting(worker) # {}
    BY <1>2 DEF Waiting
<1>4. Awake(worker', queue')
    BY <1>1, <1>2, <1>3 DEF Awake
<1> QED BY <1>2, <1>4

\* A worker that hands its task over and looks for the next.
LEMMA SoundFinishTask ==
  ASSUME Sound, NEW w \in Workers, FinishTask(w)
  PROVE  Sound'
<1> DEFINE t == worker[w].task
           q == PushFinished(queue, t)
           b == Tasks(worker)
<1>1. /\ worker[w].pc = "busy" /\ Continue(w, q)
      /\ UNCHANGED <<manager, accepted, tests>>
    BY Zenon DEF FinishTask
<1>2. b[w] = t /\ t \in Jobs
    BY <1>1 DEF Sound, WorkersTrue, Tasks
<1>3. Balanced(queue, b, {}) /\ Balanced(queue, Tasks(worker), {})
    BY DEF Sound
<1>4. Balanced(q, [b EXCEPT ![w] = NoTask], {}) /\ Kept(queue, q)
  <2> HIDE DEF b
  <2>1. b[w] \in Jobs
      BY <1>2
  <2>2. /\ Balanced(PushFinished(queue, b[w]), [b EXCEPT ![w] = NoTask], {})
        /\ Kept(queue, PushFinished(queue, b[w]))
      BY <1>3, <2>1, HandedOver
  <2> QED BY <1>2, <2>2
<1> HIDE DEF q
<1>5. manager.pc # "free" =>
        \/ Len(q.pending) + Len(q.immediate) < 2
        \/ Waiting(worker) = {}
        \/ \E v \in Workers : v # w /\ worker[v].pc = "woken"
  <2> SUFFICES ASSUME manager.pc # "free", Waiting(worker) # {},
                      ~ \E v \in Workers : v # w /\ worker[v].pc = "woken"
               PROVE  Len(q.pending) + Len(q.immediate) < 2
      OBVIOUS
  <2>1. ~ \E v \in Workers : worker[v].pc = "woken"
      BY <1>1
  <2>2. queue.pending = <<>> /\ queue.immediate = <<>>
      BY <2>1 DEF Sound, Awake
  <2>3. q.pending = <<>> /\ q.immediate = <<>>
      BY <1>4, <2>2 DEF Kept
  <2> QED BY <2>3
<1>6. manager' = manager /\ worker[w].pc \in {"busy", "woken"}
    BY <1>1
<1>7. /\ WorkersTrue(worker') /\ Balanced(queue', Tasks(worker'), {}) /\ queue'.signals = 0
      /\ IF manager'.pc = "free" THEN Waiting(worker') = {} ELSE Awake(worker', queue')
    BY <1>1, <1>4, <1>5, <1>6, Continued
<1>8. ManagerTrue'
    BY <1>1 DEF Sound, ManagerTrue
<1> QED BY <1>1, <1>7, <1>8 DEF Sound

\* A worker that was woken and looks for a task.
LEMMA SoundResume ==
  ASSUME Sound, NEW w \in Workers, Resume(w)
  PROVE  Sound'
<1> DEFINE q == NotifyNext(queue)
           b == Tasks(worker)
<1>1. /\ worker[w].pc = "woken" /\ Continue(w, q)
      /\ UNCHANGED <<manager, accepted, tests>>
    BY Zenon DEF Resume
<1>2. b[w] = NoTask /\ [b EXCEPT ![w] = NoTask] = b
    BY <1>1 DEF Sound, WorkersTrue, Tasks
<1>3. Balanced(queue, b, {}) /\ queue.signals = 0
    BY DEF Sound
<1> HIDE DEF b
<1>4. /\ Balanced(q, b, {})
      /\ q.signals >= 1 \/ Len(q.pending) + Len(q.immediate) < 2
  <2>1. CASE queue.pending_num > 1
    <3>1. Pushed(queue, queue, b, {})
        BY <1>3 DEF Pushed, Others
    <3>2. Balanced(Notify(queue), b, {}) /\ Notify(queue).signals = queue.signals + 1
        BY <1>3, <3>1, Notified
    <3>3. q = Notify(queue)
        BY <2>1 DEF NotifyNext
    <3>4. Notify(queue).signals >= 1
        BY <1>3, <3>2
    <3> HIDE DEF q
    <3> QED BY <3>2, <3>3, <3>4
  <2>2. CASE ~(queue.pending_num > 1)
    <3>1. q = queue
        BY <2>2 DEF NotifyNext
    <3> DEFINE s == Len(queue.pending) + Len(queue.immediate)
               pn == queue.pending_num
    <3>2. pn \in Int /\ s \in Nat /\ s <= pn /\ ~(pn > 1)
        BY <1>3, <2>2, PendingCounted
    <3> HIDE DEF s, pn
    <3>3. s < 2
        BY <3>2
    <3> QED BY <1>3, <3>1, <3>3 DEF s
  <2> QED BY <2>1, <2>2
<1> HIDE DEF q
<1>5. Balanced(q, [Tasks(worker) EXCEPT ![w] = NoTask], {})
    BY <1>2, <1>4 DEF b
<1>6. manager' = manager /\ worker[w].pc \in {"busy", "woken"}
    BY <1>1
<1>7. /\ WorkersTrue(worker') /\ Balanced(queue', Tasks(worker'), {}) /\ queue'.signals = 0
      /\ IF manager'.pc = "free" THEN Waiting(worker') = {} ELSE Awake(worker', queue')
    BY <1>1, <1>4, <1>5, <1>6, Continued
<1>8. ManagerTrue'
    BY <1>1 DEF Sound, ManagerTrue
<1> QED BY <1>1, <1>7, <1>8 DEF Sound

\* A worker may wake without a signal.
LEMMA SoundWakeSpuriously ==
  ASSUME Sound, NEW w \in Workers, WakeSpuriously(w)
  PROVE  Sound'
<1> DEFINE k == "woken"
           ws == [worker EXCEPT ![w].pc = k]
           o == worker[w]
           x == [o EXCEPT !.pc = k]
<1>1. /\ o.pc = "waiting" /\ worker' = ws
      /\ UNCHANGED <<queue, manager, accepted, tests>>
    BY DEF WakeSpuriously
<1>2. /\ WorkersTrue(worker)
      /\ o \in [pc : {"waiting", "woken", "busy", "exited"}, task : Jobs \cup {NoTask}]
      /\ (o.pc = "busy" <=> o.task # NoTask)
    BY DEF Sound, WorkersTrue
<1>3. /\ x \in [pc : {"waiting", "woken", "busy", "exited"}, task : Jobs \cup {NoTask}]
      /\ x.pc = "woken" /\ x.task = o.task
  <2>1. k \in {"waiting", "woken", "busy", "exited"}
      OBVIOUS
  <2> HIDE DEF o, k
  <2>2. /\ x \in [pc : {"waiting", "woken", "busy", "exited"}, task : Jobs \cup {NoTask}]
        /\ x.pc = k /\ x.task = o.task
      BY <1>2, <2>1
  <2> QED BY <2>2 DEF k
<1>4. ws[w] = x /\ \A v \in Workers : v # w => ws[v] = worker[v]
    BY <1>2 DEF WorkersTrue
<1>5. ws \in [Workers -> [pc : {"waiting", "woken", "busy", "exited"}, task : Jobs \cup {NoTask}]]
  <2>1. ws = [worker EXCEPT ![w] = x]
      BY <1>2 DEF WorkersTrue
  <2> HIDE DEF ws, x
  <2> QED BY <1>2, <1>3, <2>1 DEF WorkersTrue
<1> HIDE DEF ws, x, o
<1>6. WorkersTrue(ws)
    BY <1>1, <1>2, <1>3, <1>4, <1>5 DEF WorkersTrue
<1>7. Tasks(ws) = Tasks(worker)
    BY <1>3, <1>4 DEF Tasks, o
<1>8. ws[w].pc = "woken"
    BY <1>3, <1>4
<1>9. manager.pc = "free" => Waiting(ws) = {}
    BY <1>1 DEF Sound, Waiting, o
<1>10. Awake(ws, queue)
    BY <1>8 DEF Awake
<1>11. ManagerTrue'
    BY <1>1 DEF Sound, ManagerTrue
<1> QED BY <1>1, <1>6, <1>7, <1>9, <1>10, <1>11 DEF Sound

\* Steps that leave the queue and the workers alone.
LEMMA SoundQuiet ==
  ASSUME Sound, UNCHANGED <<queue, worker>>, manager.pc # "free", manager'.pc # "free",
         ManagerTrue', accepted' \in [Items -> Nat],
         tests' \in [received : Nat, answered : SUBSET Nat]
  PROVE  Sound'
<1>1. WorkersTrue(worker') /\ Balanced(queue', Tasks(worker'), {}) /\ queue'.signals = 0
    BY DEF Sound
<1>2. Awake(worker', queue')
    BY DEF Sound
<1> QED BY <1>1, <1>2 DEF Sound

\* Steps that end a critical section of the manager.
LEMMA SoundUnlocks ==
  ASSUME Sound, manager.pc # "free", manager'.pc # "free",
         ManagerTrue', accepted' = accepted,
         tests' \in [received : Nat, answered : SUBSET Nat],
         NEW q, Balanced(q, Tasks(worker), {}), Unlock(q, worker),
         \/ q.signals >= 1
         \/ q.pending = queue.pending /\ q.immediate = queue.immediate
  PROVE  Sound'
<1>1. /\ WorkersTrue(worker') /\ Balanced(queue', Tasks(worker'), {}) /\ queue'.signals = 0
      /\ Awake(worker', queue')
    BY ManagerUnlocks
<1> QED BY <1>1 DEF Sound

ManagerRecords ==
  [pc : {"receive", "read", "collect", "flush", "free"},
   tasks : Seq(RequestTasks \cup Collectible), idle : BOOLEAN]

\* The manager goes from one place of its loop to another.
LEMMA ManagerMoved ==
  ASSUME NEW m \in ManagerRecords, NEW pc \in {"receive", "read", "collect", "flush", "free"}
  PROVE  /\ [m EXCEPT !.pc = pc] \in ManagerRecords /\ [m EXCEPT !.pc = pc].pc = pc
         /\ [m EXCEPT !.pc = pc].tasks = m.tasks
BY DEF ManagerRecords

\* The manager changes the tasks it has in its hands.
LEMMA ManagerTasks ==
  ASSUME NEW m \in ManagerRecords, NEW ts \in Seq(RequestTasks \cup Collectible)
  PROVE  /\ [m EXCEPT !.tasks = ts] \in ManagerRecords /\ [m EXCEPT !.tasks = ts].pc = m.pc
         /\ [m EXCEPT !.tasks = ts].tasks = ts
BY DEF ManagerRecords

\* The manager receives a request, or none.
LEMMA SoundReceive ==
  ASSUME Sound, ReceiveRequest \/ ReceiveNothing
  PROVE  Sound'
<1>1. /\ manager.pc = "receive"
      /\ \/ manager' = [manager EXCEPT !.pc = "read"]
         \/ manager' = [manager EXCEPT !.pc = "collect"]
      /\ UNCHANGED <<queue, worker, accepted, tests>>
    BY DEF ReceiveRequest, ReceiveNothing, Goto
<1>2. manager \in ManagerRecords /\ manager.tasks = <<>>
    BY <1>1 DEF Sound, ManagerTrue, ManagerRecords
<1>3. <<>> \in Seq(RequestTasks) /\ <<>> \in Seq(RequestTasks \cup Collectible)
    BY EmptySeq
<1>4. /\ manager' \in ManagerRecords /\ manager'.pc \in {"read", "collect"}
      /\ manager'.tasks = <<>>
  <2>1. ASSUME NEW pc \in {"read", "collect"}, manager' = [manager EXCEPT !.pc = pc]
        PROVE  /\ manager' \in ManagerRecords /\ manager'.pc \in {"read", "collect"}
               /\ manager'.tasks = manager.tasks
    <3>1. pc \in {"receive", "read", "collect", "flush", "free"}
        OBVIOUS
    <3> QED BY <1>2, <2>1, <3>1, ManagerMoved
  <2> QED BY <1>1, <1>2, <2>1
<1>5. ManagerTrue'
    BY <1>3, <1>4 DEF ManagerTrue, ManagerRecords
<1>6. manager.pc # "free" /\ manager'.pc # "free"
    BY <1>1, <1>4
<1>7. accepted' \in [Items -> Nat] /\ tests' \in [received : Nat, answered : SUBSET Nat]
    BY <1>1 DEF Sound
<1> QED BY <1>1, <1>5, <1>6, <1>7, SoundQuiet

\* The manager reads a value of a request.
LEMMA SoundReadValue ==
  ASSUME Sound, NEW i \in Received, ReadValue(i)
  PROVE  Sound'
<1> DEFINE t == ValueTask(i, accepted[i] + 1)
           n == accepted[i] + 1
           ts == Append(manager.tasks, t)
<1>1. /\ manager.pc = "read" /\ accepted' = [accepted EXCEPT ![i] = n]
      /\ (manager' = [manager EXCEPT !.tasks = ts] \/ manager' = manager)
      /\ UNCHANGED <<queue, worker, tests>>
    BY DEF ReadValue
<1>2. i \in Items /\ n \in Nat
    BY DEF Received, Sound
<1>3. t \in RequestTasks
  <2> HIDE DEF n
  <2>1. ValueTask(i, n) \in RequestTasks
      BY <1>2 DEF ValueTask, Task, RequestTasks
  <2> QED BY <2>1 DEF n
<1>4. manager \in ManagerRecords /\ manager.tasks \in Seq(RequestTasks)
    BY <1>1 DEF Sound, ManagerTrue, ManagerRecords
<1> HIDE DEF t
<1>5. ts \in Seq(RequestTasks)
    BY <1>3, <1>4, AppendProperties
<1>6. ts \in Seq(RequestTasks \cup Collectible)
  <2> HIDE DEF ts
  <2> QED BY <1>5, SeqMonotonic
<1> HIDE DEF ts
<1>7. manager' \in ManagerRecords /\ manager'.pc = "read" /\ manager'.tasks \in Seq(RequestTasks)
  <2>1. CASE manager' = manager
      BY <1>1, <1>4, <2>1
  <2>2. CASE manager' = [manager EXCEPT !.tasks = ts]
    <3> DEFINE m == [manager EXCEPT !.tasks = ts]
    <3>1. m \in ManagerRecords /\ m.pc = manager.pc /\ m.tasks = ts
        BY <1>4, <1>6, ManagerTasks
    <3>2. manager' = m
        BY <2>2
    <3> HIDE DEF m
    <3> QED BY <1>1, <1>5, <3>1, <3>2
  <2> QED BY <1>1, <2>1, <2>2
<1>8. ManagerTrue'
    BY <1>7 DEF ManagerTrue, ManagerRecords
<1>9. accepted' \in [Items -> Nat] /\ tests' \in [received : Nat, answered : SUBSET Nat]
  <2>1. accepted \in [Items -> Nat]
      BY DEF Sound
  <2> HIDE DEF n
  <2> QED BY <1>1, <1>2, <2>1 DEF Sound
<1>10. manager.pc # "free" /\ manager'.pc # "free"
    BY <1>1, <1>7
<1> QED BY <1>1, <1>8, <1>9, <1>10, SoundQuiet

\* The manager queues the tasks of a request.
LEMMA SoundQueueRequest == Sound /\ QueueRequest => Sound'
<1> SUFFICES ASSUME Sound, QueueRequest PROVE Sound'
    OBVIOUS
<1> DEFINE q == PushRequest(queue, manager.tasks)
           b == Tasks(worker)
<1>1. /\ manager.pc = "read" /\ Unlock(q, worker)
      /\ manager' = [manager EXCEPT !.pc = "collect", !.tasks = <<>>]
      /\ UNCHANGED <<accepted, tests>>
    BY DEF QueueRequest
<1>2. manager \in ManagerRecords /\ manager.tasks \in Seq(RequestTasks)
    BY <1>1 DEF Sound, ManagerTrue, ManagerRecords
<1>3. manager' \in ManagerRecords /\ manager'.pc = "collect"
  <2> DEFINE ts == <<>>
  <2>1. ts \in Seq(RequestTasks \cup Collectible)
      BY EmptySeq
  <2>2. manager' = [manager EXCEPT !.pc = "collect", !.tasks = ts]
      BY <1>1
  <2> HIDE DEF ts
  <2> QED BY <1>2, <2>1, <2>2 DEF ManagerRecords
<1>4. ManagerTrue'
    BY <1>3 DEF ManagerTrue, ManagerRecords
<1>5. Balanced(queue, b, {}) /\ queue.signals = 0
    BY DEF Sound
<1> HIDE DEF b
<1>6. /\ Balanced(q, b, {})
      /\ q.signals >= 1 \/ (q.pending = queue.pending /\ q.immediate = queue.immediate)
  <2>1. CASE manager.tasks = <<>>
    <3>1. q = queue
        BY <2>1 DEF PushRequest
    <3> QED BY <1>5, <3>1
  <2>2. CASE manager.tasks # <<>>
    <3> DEFINE r == FoldLeft(Push, queue, manager.tasks)
    <3>1. q = Notify(r)
        BY <2>2 DEF PushRequest
    <3>2. Pushed(queue, r, b, {})
        BY <1>2, <1>5, PushAll
    <3> HIDE DEF r, q
    <3>3. Balanced(Notify(r), b, {}) /\ Notify(r).signals = queue.signals + 1
        BY <1>5, <3>2, Announced
    <3> QED BY <1>5, <3>1, <3>3
  <2> QED BY <2>1, <2>2
<1> HIDE DEF q
<1>7. manager.pc # "free" /\ manager'.pc # "free" /\ accepted' = accepted
      /\ tests' \in [received : Nat, answered : SUBSET Nat]
    BY <1>1, <1>3 DEF Sound
<1> QED BY <1>1, <1>4, <1>6, <1>7, SoundUnlocks DEF b

\* The manager queues a test.
LEMMA SoundReceiveTest == Sound /\ ReceiveTest => Sound'
<1> SUFFICES ASSUME Sound, ReceiveTest PROVE Sound'
    OBVIOUS
<1> DEFINE n == tests.received + 1
           t == Test(n)
           r == PushImmediate(queue, t)
           q == Notify(r)
           b == Tasks(worker)
<1>1. tests \in [received : Nat, answered : SUBSET Nat]
    BY DEF Sound
<1>2. tests' = [tests EXCEPT !.received = n] /\ n \in Nat
    BY <1>1 DEF ReceiveTest
<1>3. tests' \in [received : Nat, answered : SUBSET Nat] /\ tests'.received = n
  <2> HIDE DEF n
  <2> QED BY <1>1, <1>2
<1>4. /\ manager.pc = "receive" /\ Unlock(q, worker)
      /\ manager' = [manager EXCEPT !.pc = "collect"] /\ accepted' = accepted
  <2> HIDE DEF n
  <2> QED BY <1>3 DEF ReceiveTest, Goto
<1>5. manager \in ManagerRecords
    BY DEF Sound, ManagerTrue, ManagerRecords
<1>6. manager' \in ManagerRecords /\ manager'.pc = "collect"
    BY <1>4, <1>5, ManagerMoved
<1>7. ManagerTrue'
    BY <1>6 DEF ManagerTrue, ManagerRecords
<1>8. t \in TestTasks
  <2> HIDE DEF n
  <2> QED BY <1>2 DEF Test, Task, TestTasks
<1>9. Balanced(queue, b, {}) /\ queue.signals = 0
    BY DEF Sound
<1> HIDE DEF b, t
<1>10. Pushed(queue, r, b, {}) /\ r.pending = queue.pending
    BY <1>8, <1>9, PushJob
<1> HIDE DEF r
<1>11. Balanced(q, b, {}) /\ q.signals >= 1
  <2>1. Balanced(Notify(r), b, {}) /\ Notify(r).signals = queue.signals + 1
      BY <1>9, <1>10, Notified
  <2> QED BY <1>9, <2>1
<1> HIDE DEF q
<1>12. manager.pc # "free" /\ manager'.pc # "free"
    BY <1>4, <1>6
<1> QED BY <1>3, <1>4, <1>7, <1>11, <1>12, SoundUnlocks DEF b

\* The manager collects finished tasks.
LEMMA SoundCollect == Sound /\ Collect => Sound'
<1> SUFFICES ASSUME Sound, Collect PROVE Sound'
    OBVIOUS
<1> DEFINE r == Collected
           q == r.queue
           b == Tasks(worker)
           idle == q.pending_num + q.processing_num = 0
           ts == r.tasks
<1>1. /\ manager.pc = "collect" /\ Unlock(q, worker)
      /\ manager' = [pc |-> "flush", tasks |-> ts, idle |-> idle]
      /\ UNCHANGED <<accepted, tests>>
    BY Zenon DEF Collect
<1>2. Balanced(queue, b, {}) /\ queue.signals = 0
    BY DEF Sound
<1> HIDE DEF b, r
<1>3. r \in Rounds(queue, b)
    BY <1>2, BatchCollected DEF r
<1>4. Balanced(q, b, {}) /\ Grown(queue, q) /\ ts \in Seq(Collectible)
    BY <1>3 DEF Rounds
<1>5. ts \in Seq(RequestTasks \cup Collectible)
    BY <1>4, SeqMonotonic
<1> HIDE DEF ts, q
<1>6. ManagerTrue' /\ manager'.pc = "flush"
  <2>1. idle \in BOOLEAN
      OBVIOUS
  <2> HIDE DEF idle
  <2>2. manager' \in ManagerRecords /\ manager'.pc = "flush"
      BY <1>1, <1>5, <2>1 DEF ManagerRecords
  <2> QED BY <2>2 DEF ManagerTrue, ManagerRecords
<1>7. q.signals >= 1 \/ (q.pending = queue.pending /\ q.immediate = queue.immediate)
    BY <1>2, <1>4 DEF Grown
<1>8. manager.pc # "free" /\ manager'.pc # "free" /\ accepted' = accepted
      /\ tests' \in [received : Nat, answered : SUBSET Nat]
    BY <1>1, <1>6 DEF Sound
<1> QED BY <1>1, <1>4, <1>6, <1>7, <1>8, SoundUnlocks DEF b

\* The manager flushes a collected task.
LEMMA SoundFlushTask == Sound /\ FlushTask => Sound'
<1> SUFFICES ASSUME Sound, FlushTask PROVE Sound'
    OBVIOUS
<1> DEFINE t == Head(manager.tasks)
           ts == Tail(manager.tasks)
           an == tests.answered \cup {t.n}
<1>1. /\ manager.pc = "flush" /\ manager.tasks # <<>>
      /\ manager' = [manager EXCEPT !.tasks = ts]
      /\ tests' = [tests EXCEPT !.answered = an] \/ tests' = tests
      /\ UNCHANGED <<queue, worker, accepted>>
    BY DEF FlushTask
<1>2. manager \in ManagerRecords
    BY DEF Sound, ManagerTrue, ManagerRecords
<1>3. ts \in Seq(RequestTasks \cup Collectible) /\ t \in RequestTasks \cup Collectible
  <2>1. manager.tasks \in Seq(RequestTasks \cup Collectible)
      BY <1>2 DEF ManagerRecords
  <2> QED BY <1>1, <2>1, HeadTailProperties
<1>4. t.n \in Nat
    BY <1>3 DEF RequestTasks, Collectible, ValueTasks, SerialTasks, TestTasks
<1>5. tests \in [received : Nat, answered : SUBSET Nat]
    BY DEF Sound
<1>6. an \in SUBSET Nat
    BY <1>4, <1>5
<1> HIDE DEF ts, an, t
<1>7. tests' \in [received : Nat, answered : SUBSET Nat]
    BY <1>1, <1>5, <1>6
<1>8. manager' \in ManagerRecords /\ manager'.pc = "flush"
    BY <1>1, <1>2, <1>3, ManagerTasks
<1>9. ManagerTrue'
    BY <1>8 DEF ManagerTrue, ManagerRecords
<1>10. manager.pc # "free" /\ manager'.pc # "free" /\ accepted' \in [Items -> Nat]
    BY <1>1, <1>8 DEF Sound
<1> QED BY <1>1, <1>7, <1>9, <1>10, SoundQuiet

\* The manager leaves its loop, or goes on; when it leaves it wakes all workers.
LEMMA SoundCheckStop == Sound /\ CheckStop => Sound'
<1> SUFFICES ASSUME Sound, CheckStop PROVE Sound'
    OBVIOUS
<1>1. /\ manager.pc = "flush" /\ manager.tasks = <<>> /\ UNCHANGED <<accepted, tests>>
    BY DEF CheckStop
<1>2. manager \in ManagerRecords
    BY DEF Sound, ManagerTrue, ManagerRecords
<1>3. accepted' \in [Items -> Nat] /\ tests' \in [received : Nat, answered : SUBSET Nat]
    BY <1>1 DEF Sound
<1>4. CASE ~Break
  <2>1. manager' = [manager EXCEPT !.pc = "receive"] /\ UNCHANGED <<queue, worker>>
      BY <1>4 DEF CheckStop, Goto
  <2>2. manager' \in ManagerRecords /\ manager'.pc = "receive" /\ manager'.tasks = <<>>
      BY <1>1, <1>2, <2>1, ManagerMoved
  <2>3. ManagerTrue' /\ manager.pc # "free" /\ manager'.pc # "free"
      BY <1>1, <2>2 DEF ManagerTrue, ManagerRecords
  <2> QED BY <1>3, <2>1, <2>3, SoundQuiet
<1>5. CASE Break
  <2> DEFINE m == Cardinality(Workers)
             q == [queue EXCEPT !.signals = m]
             b == Tasks(worker)
  <2>1. manager' = [manager EXCEPT !.pc = "free"] /\ Unlock(q, worker)
      BY <1>5 DEF CheckStop, Goto
  <2>2. manager' \in ManagerRecords /\ manager'.pc = "free"
      BY <1>2, <2>1, ManagerMoved
  <2>3. ManagerTrue'
      BY <2>2 DEF ManagerTrue, ManagerRecords
  <2>4. Balanced(queue, b, {}) /\ queue \in Queues /\ WorkersTrue(worker)
      BY DEF Sound, Balanced
  <2>5. m \in Nat /\ Cardinality(Waiting(worker)) <= m
      BY WaitingType
  <2> HIDE DEF m, b
  <2>6. q \in Queues
      BY <2>4, <2>5 DEF Queues
  <2>7. /\ q.pending = queue.pending /\ q.immediate = queue.immediate
        /\ q.finished = queue.finished /\ q.sequences = queue.sequences
        /\ q.pending_num = queue.pending_num /\ q.processing_num = queue.processing_num
        /\ q.finished_num = queue.finished_num /\ q.signals = m
        /\ q.tracked = queue.tracked /\ q.held = queue.held
      BY <2>4 DEF Queues
  <2> HIDE DEF q
  <2>8. Balanced(q, b, {})
      BY <2>4, <2>6, <2>7 DEF Balanced
  <2>9. q.signals >= Cardinality(Waiting(worker))
      BY <2>5, <2>7, WaitingType
  <2>10. Balanced(q, Tasks(worker), {})
      BY <2>8 DEF b
  <2>11. /\ WorkersTrue(worker') /\ Balanced(queue', Tasks(worker'), {}) /\ queue'.signals = 0
         /\ Waiting(worker') = {}
      BY <2>1, <2>4, <2>9, <2>10, Unlocked
  <2> QED BY <1>3, <2>2, <2>3, <2>11 DEF Sound
<1> QED BY <1>4, <1>5

\* The lists, the counters, the containers, the tracked values and the workers fit
\* together in every reachable state (pp_task_queue.c, pp_worker.c, pp_manager.c).
THEOREM SoundAlways == Spec => []Sound
<1>1. Sound /\ [Next]_vars => Sound'
  <2> SUFFICES ASSUME Sound, [Next]_vars PROVE Sound'
      OBVIOUS
  <2>1. ASSUME NEW w \in Workers, WorkerStep(w) \/ WakeSpuriously(w) PROVE Sound'
      BY <2>1, SoundFinishTask, SoundResume, SoundWakeSpuriously DEF WorkerStep
  <2>2. CASE ReceiveRequest \/ ReceiveNothing
      BY <2>2, SoundReceive
  <2>3. CASE ReceiveTest
      BY <2>3, SoundReceiveTest
  <2>4. ASSUME NEW i \in Received, ReadValue(i) PROVE Sound'
      BY <2>4, SoundReadValue
  <2>5. CASE QueueRequest
      BY <2>5, SoundQueueRequest
  <2>6. CASE Collect
      BY <2>6, SoundCollect
  <2>7. CASE FlushTask
      BY <2>7, SoundFlushTask
  <2>8. CASE CheckStop
      BY <2>8, SoundCheckStop
  <2>9. ASSUME NEW state \in Stops, Order(state) PROVE Sound'
    <3>1. UNCHANGED <<queue, worker, manager, accepted, tests>>
        BY <2>9 DEF Order
    <3> QED BY <3>1 DEF Sound, ManagerTrue
  <2>10. CASE UNCHANGED vars
    <3>1. UNCHANGED <<queue, worker, manager, accepted, tests>>
        BY <2>10 DEF vars
    <3> QED BY <3>1 DEF Sound, ManagerTrue
  <2> QED BY <2>1, <2>2, <2>3, <2>4, <2>5, <2>6, <2>7, <2>8, <2>9, <2>10
          DEF Next, ManagerStep
<1> QED BY SoundInit, <1>1, PTL DEF Spec

-----------------------------------------------------------------------------
(* What the invariant says. *)

\* What the properties count is what the invariant counts.
LEMMA WorkersInWork ==
  ASSUME Sound
  PROVE  /\ InWork = Working(Tasks(worker))
         /\ \A i \in Items : Containers(i) = Places(queue.immediate, queue.finished, Tasks(worker), i)
<1>1. InWork = Working(Tasks(worker))
    BY DEF Sound, WorkersTrue, InWork, Working, Tasks
<1>2. ASSUME NEW i \in Items
      PROVE  Containers(i) = Places(queue.immediate, queue.finished, Tasks(worker), i)
  <2> DEFINE C == Copies(queue.immediate, Container(i))
             D == Copies(queue.finished, Container(i))
             E == Cardinality(Having(Tasks(worker), Container(i)))
  <2>1. {w \in InWork : worker[w].task = Container(i)} = Having(Tasks(worker), Container(i))
    <3>1. Container(i) # NoTask
        BY TaskKinds
    <3> QED BY <3>1 DEF Sound, WorkersTrue, InWork, Having, Tasks
  <2>2. Containers(i) = C + (D + E)
      BY <2>1 DEF Containers, Begun
  <2>3. Places(queue.immediate, queue.finished, Tasks(worker), i) = C + D + E
      BY DEF Places
  <2>4. C \in Nat /\ D \in Nat /\ E \in Nat
      BY PlacesType, QueueFields DEF Sound, Balanced
  <2> HIDE DEF C, D, E
  <2> QED BY <2>2, <2>3, <2>4
<1> QED BY <1>1, <1>2

\* Values that must be processed one after another never have two containers,
\* and a sequence with tasks is never forgotten.
THEOREM ContainersKept == Spec => []OneContainer
<1>1. Sound => OneContainer
  <2> SUFFICES ASSUME Sound, NEW i \in Items
               PROVE  Containers(i) = IF queue.sequences[i] = <<>> THEN 0 ELSE 1
      BY DEF OneContainer
  <2>1. Single(queue.immediate, queue.finished, queue.sequences, Tasks(worker), {})
      BY DEF Sound, Balanced
  <2> QED BY <2>1, WorkersInWork DEF Single
<1> QED BY SoundAlways, <1>1, PTL

\* The counters of the queue count what the lists hold.
THEOREM CountersKept == Spec => []CountersTrue
<1>1. Sound => CountersTrue
  <2> SUFFICES ASSUME Sound PROVE CountersTrue
      OBVIOUS
  <2> DEFINE f == [i \in Items |-> Len(queue.sequences[i]) - Containers(i)]
             sq == queue.sequences
  <2>1. /\ Balanced(queue, Tasks(worker), {})
        /\ Single(queue.immediate, queue.finished, sq, Tasks(worker), {})
      BY DEF Sound, Balanced
  <2>2. ASSUME NEW i \in Items PROVE f[i] = Behind(sq, {})[i]
    <3>1. Containers(i) = IF sq[i] = <<>> THEN 0 ELSE 1
        BY <2>1, WorkersInWork DEF Single
    <3>2. f[i] = Len(sq[i]) - (IF sq[i] = <<>> THEN 0 ELSE 1)
        BY <3>1
    <3>3. Behind(sq, {})[i] = Len(sq[i]) - (IF sq[i] = <<>> THEN 0 ELSE 1)
        BY DEF Behind
    <3> QED BY <3>2, <3>3
  <2>3. f = Behind(sq, {})
      BY <2>2 DEF Behind
  <2>4. SumFunctionOnSet(f, Items) = Later(sq, {})
      BY <2>3 DEF Later
  <2>5. queue.pending_num = Len(queue.pending) + Len(queue.immediate) + Later(sq, {})
      BY <2>1 DEF Balanced
  <2>6. queue.processing_num = Cardinality(InWork) /\ queue.finished_num = Len(queue.finished)
      BY <2>1, WorkersInWork DEF Balanced
  <2> QED BY <2>4, <2>5, <2>6 DEF CountersTrue
<1> QED BY SoundAlways, <1>1, PTL

\* No worker sleeps while there is a task for it and nobody is on the way.
THEOREM WakeupsKept == Spec => []NoLostWakeup
<1>1. Sound => NoLostWakeup
  <2> SUFFICES ASSUME Sound, Poppable(queue), Waiting(worker) # {}
               PROVE  \E w \in Workers : worker[w].pc = "woken"
      BY DEF NoLostWakeup
  <2>1. queue.pending # <<>> \/ queue.immediate # <<>>
    <3>1. queue.pending = <<>> => Takeable(queue) = {}
        BY DEF Takeable
    <3> QED BY <3>1 DEF Poppable
  <2>2. manager.pc # "free" /\ Awake(worker, queue)
      BY DEF Sound
  <2> QED BY <2>1, <2>2 DEF Awake
<1> QED BY SoundAlways, <1>1, PTL

-----------------------------------------------------------------------------
(* The manager stops when there was nothing to do when it collected, and    *)
(* then there is nothing to do until it has stopped.                        *)

Quiet(q) == q.pending_num = 0 /\ q.processing_num = 0
Settled ==
  /\ manager.pc = "flush" /\ manager.idle => Quiet(queue)
  /\ manager.pc = "free" =>
       runstate # "running" /\ (runstate = "stopping" => Quiet(queue))

\* The end of a critical section leaves the counters alone.
LEMMA UnlockCounters ==
  ASSUME NEW q \in Queues, NEW ws, Unlock(q, ws)
  PROVE  queue'.pending_num = q.pending_num /\ queue'.processing_num = q.processing_num
<1>1. queue' = [q EXCEPT !.signals = 0]
    BY DEF Unlock
<1> QED BY <1>1 DEF Queues

\* A quiet queue has nothing in its lists and no worker has a task.
LEMMA QuietEmpty ==
  ASSUME NEW q, NEW b, Balanced(q, b, {}), Quiet(q)
  PROVE  /\ q.pending = <<>> /\ q.immediate = <<>> /\ Later(q.sequences, {}) = 0
         /\ \A w \in Workers : b[w] = NoTask
<1>1. /\ q.pending \in Seq(RequestTasks) /\ q.immediate \in Seq(Jobs)
      /\ q.sequences \in Sequenced
    BY QueueFields DEF Balanced
<1>2. Len(q.pending) = 0 /\ Len(q.immediate) = 0 /\ Later(q.sequences, {}) = 0
  <2> DEFINE x == Len(q.pending) y == Len(q.immediate) z == Later(q.sequences, {})
  <2>1. x \in Nat /\ y \in Nat /\ z \in Nat
      BY <1>1, LenProperties, LaterInt
  <2>2. x + y + z = 0
      BY DEF Balanced, Quiet
  <2> HIDE DEF x, y, z
  <2>3. x = 0 /\ y = 0 /\ z = 0
      BY <2>1, <2>2
  <2> QED BY <2>3 DEF x, y, z
<1>3. q.pending = <<>> /\ q.immediate = <<>>
    BY <1>1, <1>2, EmptySeq
<1>4. Cardinality(Working(b)) = 0 /\ IsFiniteSet(Working(b))
    BY HavingType DEF Balanced, Quiet
<1>5. Working(b) = {}
    BY <1>4, FS_EmptySet
<1> QED BY <1>2, <1>3, <1>5 DEF Working

\* A worker that is on the way finds a quiet queue as quiet as it was.
LEMMA QuietResume ==
  ASSUME Sound, Quiet(queue), NEW w \in Workers, Resume(w)
  PROVE  Quiet(queue)'
<1> DEFINE q == NotifyNext(queue)
           b == Tasks(worker)
           pop == PopNew(q)
<1>1. worker[w].pc = "woken" /\ Continue(w, q)
    BY Zenon DEF Resume
<1>2. b[w] = NoTask
    BY <1>1 DEF Sound, WorkersTrue, Tasks
<1>3. Balanced(queue, b, {}) /\ queue \in Queues /\ queue.pending_num = 0
    BY DEF Sound, Balanced, Quiet
<1>4. q = queue
    BY <1>3 DEF NotifyNext
<1> HIDE DEF q
<1>5. CASE \E ws : Unlock(q, ws)
  <2>1. PICK ws : Unlock(q, ws)
      BY <1>5
  <2>2. queue'.pending_num = queue.pending_num /\ queue'.processing_num = queue.processing_num
      BY <1>3, <1>4, <2>1, UnlockCounters
  <2> QED BY <2>2 DEF Quiet
<1>6. CASE \E ws : Unlock(pop.queue, ws)
  <2>1. PICK ws : Unlock(pop.queue, ws)
      BY <1>6
  <2>2. Taken(q, b, w, pop) \/ NothingTaken(q, b, pop)
    <3> HIDE DEF b
    <3> QED BY <1>2, <1>3, <1>4, Popped
  <2> HIDE DEF pop
  <2>3. ~Taken(q, b, w, pop)
    <3> SUFFICES ASSUME Taken(q, b, w, pop) PROVE FALSE
        OBVIOUS
    <3> DEFINE p == pop.queue
               c == [b EXCEPT ![w] = pop.task]
               x == Len(p.pending) + Len(p.immediate)
               y == Len(q.pending) + Len(q.immediate)
    <3>1. Balanced(p, c, {}) /\ x < y
        BY DEF Taken
    <3> HIDE DEF c, p, b
    <3>2. x \in Nat /\ y \in Nat /\ y <= 0
        BY <1>3, <1>4, <3>1, PendingCounted
    <3> HIDE DEF x, y
    <3> QED BY <3>1, <3>2
  <2>4. pop.queue \in Queues /\ Quiet(pop.queue)
      BY <1>4, <2>2, <2>3 DEF NothingTaken, Balanced, Quiet
  <2>5. /\ queue'.pending_num = pop.queue.pending_num
        /\ queue'.processing_num = pop.queue.processing_num
      BY <2>1, <2>4, UnlockCounters
  <2> QED BY <2>4, <2>5 DEF Quiet
<1> QED BY <1>1, <1>5, <1>6, Zenon DEF Continue

\* A worker finds a quiet queue quiet, or the manager at no place that stops.
LEMMA SettledWorker ==
  ASSUME Sound, Settled, NEW w \in Workers, WorkerStep(w) \/ WakeSpuriously(w)
  PROVE  Settled'
<1>1. manager' = manager /\ runstate' = runstate
    BY DEF WorkerStep, FinishTask, Resume, WakeSpuriously
<1>2. ASSUME Quiet(queue) PROVE Quiet(queue)'
  <2>1. CASE FinishTask(w)
    <3>1. worker[w].pc = "busy"
        BY <2>1 DEF FinishTask
    <3>2. Tasks(worker)[w] # NoTask
        BY <3>1 DEF Sound, WorkersTrue, Tasks
    <3>3. Balanced(queue, Tasks(worker), {})
        BY DEF Sound
    <3> QED BY <1>2, <3>2, <3>3, QuietEmpty
  <2>2. CASE Resume(w)
      BY <1>2, <2>2, QuietResume
  <2>3. CASE WakeSpuriously(w)
      BY <1>2, <2>3 DEF WakeSpuriously, Quiet
  <2> QED BY <2>1, <2>2, <2>3 DEF WorkerStep
<1> QED BY <1>1, <1>2 DEF Settled

\* The manager finds nothing to do only in a quiet queue.
LEMMA SettledCollect ==
  ASSUME Sound, Settled, Collect
  PROVE  Settled'
<1> DEFINE r == Collected
           q == r.queue
           b == Tasks(worker)
           idle == q.pending_num + q.processing_num = 0
           ts == r.tasks
<1>1. /\ manager.pc = "collect" /\ Unlock(q, worker)
      /\ manager' = [pc |-> "flush", tasks |-> ts, idle |-> idle]
    BY Zenon DEF Collect
<1>2. Balanced(queue, b, {})
    BY DEF Sound
<1> HIDE DEF b, r
<1>3. r \in Rounds(queue, b)
    BY <1>2, BatchCollected DEF r
<1>4. Balanced(q, b, {}) /\ q \in Queues
    BY <1>3 DEF Rounds
<1> HIDE DEF ts, q
<1>5. manager'.pc = "flush" /\ manager'.idle = idle
    BY <1>1
<1>6. idle => Quiet(q)
  <2> DEFINE x == q.pending_num y == q.processing_num
  <2>1. x \in Nat
    <3> DEFINE s == Len(q.pending) + Len(q.immediate)
    <3>1. x \in Int /\ s \in Nat /\ s <= x
        BY <1>4, PendingCounted
    <3> HIDE DEF s, x
    <3> QED BY <3>1
  <2>2. y \in Nat
      BY <1>4, HavingType DEF Balanced
  <2>3. idle => x + y = 0
      OBVIOUS
  <2> HIDE DEF x, y, idle
  <2>4. idle => x = 0 /\ y = 0
      BY <2>1, <2>2, <2>3
  <2> QED BY <2>4 DEF x, y, Quiet
<1>7. Quiet(q) => Quiet(queue)'
    BY <1>1, <1>4, UnlockCounters DEF Quiet
<1> QED BY <1>5, <1>6, <1>7 DEF Settled

\* The manager stops only when it found nothing to do, or is told to abort.
LEMMA SettledCheckStop ==
  ASSUME Sound, Settled, CheckStop
  PROVE  Settled'
<1>1. manager.pc = "flush" /\ runstate' = runstate
    BY DEF CheckStop
<1>2. manager \in ManagerRecords
    BY DEF Sound, ManagerTrue, ManagerRecords
<1>3. CASE ~Break
  <2>1. manager' = [manager EXCEPT !.pc = "receive"]
      BY <1>3 DEF CheckStop, Goto
  <2>2. manager'.pc = "receive"
      BY <1>2, <2>1, ManagerMoved
  <2> QED BY <2>2 DEF Settled
<1>4. CASE Break
  <2> DEFINE m == Cardinality(Workers)
             q == [queue EXCEPT !.signals = m]
  <2>1. manager' = [manager EXCEPT !.pc = "free"] /\ Unlock(q, worker)
      BY <1>4 DEF CheckStop, Goto
  <2>2. manager'.pc = "free"
      BY <1>2, <2>1, ManagerMoved
  <2>3. queue \in Queues /\ m \in Nat
      BY WaitingType DEF Sound, Balanced
  <2> HIDE DEF m
  <2>4. q \in Queues /\ q.pending_num = queue.pending_num
        /\ q.processing_num = queue.processing_num
      BY <2>3 DEF Queues
  <2> HIDE DEF q
  <2>5. Quiet(queue) => Quiet(queue)'
      BY <2>1, <2>4, UnlockCounters DEF Quiet
  <2>6. runstate # "running" /\ (runstate = "stopping" => Quiet(queue))
      BY <1>1, <1>4 DEF Break, Settled
  <2> QED BY <1>1, <2>2, <2>5, <2>6 DEF Settled
<1> QED BY <1>3, <1>4

\* The manager's other steps leave it at no place that stops.
LEMMA SettledElsewhere ==
  ASSUME Sound, ReceiveRequest \/ ReceiveTest \/ ReceiveNothing \/ QueueRequest
                \/ \E i \in Received : ReadValue(i)
  PROVE  manager'.pc \notin {"flush", "free"}
<1>1. manager \in ManagerRecords
    BY DEF Sound, ManagerTrue, ManagerRecords
<1>2. CASE ReceiveRequest \/ ReceiveTest \/ ReceiveNothing
    BY <1>1, <1>2 DEF ReceiveRequest, ReceiveTest, ReceiveNothing, Goto, ManagerRecords
<1>3. CASE QueueRequest
    BY <1>1, <1>3 DEF QueueRequest, ManagerRecords
<1>4. ASSUME NEW i \in Received, ReadValue(i) PROVE manager'.pc \notin {"flush", "free"}
    BY <1>1, <1>4 DEF ReadValue, ManagerRecords
<1> QED BY <1>2, <1>3, <1>4

\* From finding nothing to do until it has stopped, the manager leaves no task.
LEMMA SettledAlways == Spec => []Settled
<1>1. Init => Settled
    BY DEF Init, Settled
<1>2. Sound /\ Settled /\ [Next]_vars => Settled'
  <2> SUFFICES ASSUME Sound, Settled, [Next]_vars PROVE Settled'
      OBVIOUS
  <2>1. ASSUME NEW w \in Workers, WorkerStep(w) \/ WakeSpuriously(w) PROVE Settled'
      BY <2>1, SettledWorker
  <2>2. CASE ReceiveRequest \/ ReceiveTest \/ ReceiveNothing \/ QueueRequest
             \/ \E i \in Received : ReadValue(i)
      BY <2>2, SettledElsewhere DEF Settled
  <2>3. CASE Collect
      BY <2>3, SettledCollect
  <2>4. CASE FlushTask
    <3>1. manager \in ManagerRecords
        BY DEF Sound, ManagerTrue, ManagerRecords
    <3>2. /\ manager'.pc = manager.pc /\ manager'.idle = manager.idle
          /\ UNCHANGED <<queue, runstate>>
        BY <2>4, <3>1 DEF FlushTask, ManagerRecords
    <3> QED BY <3>2 DEF Settled, Quiet
  <2>5. CASE CheckStop
      BY <2>5, SettledCheckStop
  <2>6. ASSUME NEW state \in Stops, Order(state) PROVE Settled'
    <3>1. /\ runstate' = state /\ state # "running" /\ UNCHANGED <<queue, manager>>
          /\ runstate = "running" \/ state = "aborting"
        BY <2>6, PreprocAssumption DEF Order
    <3> QED BY <3>1, PreprocAssumption DEF Settled, Quiet
  <2>7. CASE UNCHANGED vars
    <3>1. UNCHANGED <<queue, manager, runstate>>
        BY <2>7 DEF vars
    <3> QED BY <3>1 DEF Settled, Quiet
  <2> QED BY <2>1, <2>2, <2>3, <2>4, <2>5, <2>6, <2>7 DEF Next, ManagerStep
<1> QED BY SoundAlways, <1>1, <1>2, PTL DEF Spec

\* A manager that was stopped and not aborted leaves nothing behind that is
\* not processed.
THEOREM StopIsClean == Spec => []CleanStop
<1>1. Sound /\ Settled => CleanStop
  <2> SUFFICES ASSUME Sound, Settled, manager.pc = "free", runstate = "stopping"
               PROVE  /\ queue.pending = <<>> /\ queue.immediate = <<>>
                      /\ \A i \in Items : queue.tracked[i] = <<>> /\ queue.held[i] = {}
                      /\ \A i \in Items : Len(queue.sequences[i]) = Begun(i)
      BY DEF CleanStop
  <2> DEFINE b == Tasks(worker)
             sq == queue.sequences
  <2>1. Balanced(queue, b, {}) /\ Quiet(queue)
      BY DEF Sound, Settled
  <2> HIDE DEF b
  <2>2. /\ queue.pending = <<>> /\ queue.immediate = <<>> /\ Later(sq, {}) = 0
        /\ \A w \in Workers : b[w] = NoTask
      BY <2>1, QuietEmpty
  <2>3. /\ sq \in Sequenced /\ queue.tracked \in [Items -> Seq(ValueTasks)]
        /\ queue.held \in [Items -> SUBSET ValueTasks]
        /\ queue.finished \in Seq(Jobs) /\ queue.immediate \in Seq(Jobs)
      BY <2>1, QueueFields DEF Balanced
  <2>4. ASSUME NEW i \in Items PROVE queue.tracked[i] = <<>> /\ queue.held[i] = {}
    <3> DEFINE s == queue.tracked[i]
               h == queue.held[i]
               S == Underway(queue.pending, queue.immediate, b)
    <3>1. s \in Seq(ValueTasks)
        BY <2>3
    <3>2. /\ \A k \in DOMAIN s : s[k] \in h \cup S
          /\ h \subseteq ToSet(s) /\ (s # <<>> => s[1] \notin h)
        BY <2>1 DEF Balanced, Followed
    <3>3. \A u \in S : u \notin ValueTasks
      <4>1. S \subseteq {NoTask}
          BY <2>2 DEF Underway, ToSet
      <4>2. NoTask \notin ValueTasks
          BY TaskKinds DEF Jobs
      <4> QED BY <4>1, <4>2
    <3> HIDE DEF s, h, S
    <3>4. s = <<>>
      <4> SUFFICES ASSUME s # <<>> PROVE FALSE
          OBVIOUS
      <4>1. 1 \in DOMAIN s /\ s[1] \in ValueTasks
          BY <3>1, EmptySeq
      <4> QED BY <3>2, <3>3, <4>1
    <3>5. ToSet(s) = {}
        BY <3>4 DEF ToSet
    <3> QED BY <3>2, <3>4, <3>5 DEF s, h
  <2>5. ASSUME NEW i \in Items PROVE Len(sq[i]) = Begun(i)
    <3> DEFINE f == Behind(sq, {})
    <3>1. \A j \in Items : f[j] \in Nat
        BY <2>3, LaterInt
    <3>2. Later(sq, {}) = SumFunctionOnSet(f, Items)
        BY DEF Later
    <3>3. f[i] = Len(sq[i]) - (IF sq[i] = <<>> THEN 0 ELSE 1)
        BY DEF Behind
    <3> HIDE DEF f
    <3>4. f[i] = 0
      <4> DEFINE R == Items \ {i}
      <4>1. IsFiniteSet(R) /\ R \subseteq Items
          BY PreprocAssumption, FS_Subset
      <4>2. SumFunctionOnSet(f, Items) = f[i] + SumFunctionOnSet(f, R)
        <5>1. \A j \in Items : f[j] \in Int
            BY <3>1
        <5>2. IsFiniteSet(Items)
            BY PreprocAssumption
        <5> QED BY <5>1, <5>2, SumSplit
      <4>3. SumFunctionOnSet(f, R) \in Nat
          BY <3>1, <4>1, SumNat
      <4> HIDE DEF R
      <4> DEFINE y == SumFunctionOnSet(f, R) x == f[i]
      <4>4. x \in Nat /\ y \in Nat /\ x + y = 0
          BY <2>2, <3>1, <3>2, <4>2, <4>3
      <4> HIDE DEF x, y
      <4>5. x = 0
          BY <4>4
      <4> QED BY <4>5 DEF x
    <3>5. Containers(i) = IF sq[i] = <<>> THEN 0 ELSE 1
      <4>1. Single(queue.immediate, queue.finished, sq, Tasks(worker), {})
          BY <2>1 DEF Balanced, b
      <4> QED BY <4>1, WorkersInWork DEF Single
    <3>6. Containers(i) = Begun(i)
      <4>1. Copies(queue.immediate, Container(i)) = 0
        <5> DEFINE s == queue.immediate
        <5>1. s \in Seq(Jobs) /\ \A k \in DOMAIN s : s[k] # Container(i)
            BY <2>2, <2>3
        <5> HIDE DEF s
        <5>2. Copies(s, Container(i)) = 0
            BY <5>1, CopiesNone
        <5> QED BY <5>2 DEF s
      <4>2. Begun(i) \in Nat
        <5> DEFINE D == Copies(queue.finished, Container(i))
                   T == {w \in InWork : worker[w].task = Container(i)}
        <5>1. IsFiniteSet(T) /\ D \in Nat
            BY <2>3, CopiesType, PreprocAssumption, FS_Subset DEF InWork
        <5>2. Cardinality(T) \in Nat
            BY <5>1, FS_CardinalityType
        <5> QED BY <5>1, <5>2 DEF Begun
      <4> QED BY <4>1, <4>2 DEF Containers
    <3>7. Len(sq[i]) \in Nat
        BY <2>3, SequencedAt
    <3> DEFINE x == Len(sq[i]) e == IF sq[i] = <<>> THEN 0 ELSE 1
    <3>8. x - e = 0 /\ x \in Nat /\ e \in Nat /\ Begun(i) = e
        BY <3>3, <3>4, <3>5, <3>6, <3>7
    <3> HIDE DEF x, e
    <3>9. x = Begun(i)
        BY <3>8
    <3> QED BY <3>9 DEF x
  <2> QED BY <2>2, <2>4, <2>5
<1> QED BY SoundAlways, SettledAlways, <1>1, PTL
=============================================================================
