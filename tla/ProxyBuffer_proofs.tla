------------------------- MODULE ProxyBuffer_proofs -------------------------
(***************************************************************************)
(* The proxy buffer for every number of writers, rows and restarts: the    *)
(* facts about sets of rows the proofs rest on, among them what the steps  *)
(* of zbx_pb_history_close do with the rows of a handle, the types, and    *)
(* then that no value is lost.                                             *)
(***************************************************************************)
EXTENDS ProxyBuffer, TLAPS, FiniteSetTheorems

-----------------------------------------------------------------------------
(* Finite sets of rows. *)

(* Induction over the subsets of a finite set, for a set of subsets. *)
LEMMA SetInduction ==
  ASSUME NEW S, IsFiniteSet(S), NEW T, {} \in T,
         \A A \in SUBSET S : \A x \in S \ A : A \in T => A \cup {x} \in T
  PROVE  S \in T
<1> SUFFICES ASSUME S \notin T PROVE FALSE
  OBVIOUS
<1> DEFINE Bad == {A \in SUBSET S : A \notin T}
<1>1. IsWellFoundedOn(StrictSubsetOrdering(S), FiniteSubsetsOf(S))
  BY FS_StrictSubsetOrderingWellFounded
<1>2. Bad \subseteq FiniteSubsetsOf(S) /\ Bad # {}
  BY FS_Subset DEF FiniteSubsetsOf
<1>3. PICK A \in Bad : \A B \in Bad : ~(<<B, A>> \in StrictSubsetOrdering(S))
  <2> HIDE DEF Bad
  <2> QED  BY <1>1, <1>2, WFMin
<1>4. PICK x \in A : TRUE
  BY <1>3
<1> DEFINE B == A \ {x}
<1>5. B \in SUBSET S /\ x \in S \ B /\ A = B \cup {x}
  BY <1>4
<1>6. B \notin T
  BY <1>5
<1>7. <<B, A>> \in StrictSubsetOrdering(S)
  BY <1>4, <1>5 DEF StrictSubsetOrdering
<1> QED  BY <1>3, <1>5, <1>6, <1>7

(* The values of a function on a finite set are a finite set. *)
LEMMA FiniteImage ==
  ASSUME NEW S, IsFiniteSet(S), NEW f
  PROVE  IsFiniteSet({f[x] : x \in S})
<1> DEFINE T == {f[x] : x \in S}
           g == [x \in S |-> f[x]]
<1>1. g \in Surjection(S, T)
  BY DEF Surjection
<1> QED
  <2> HIDE DEF g
  <2> QED  BY <1>1, FS_Surjection

(* A finite set of rows that is not empty has a row with a largest identifier. *)
LEMMA LargestRow ==
  ASSUME NEW rows, rows \subseteq Row, IsFiniteSet(rows), rows # {}
  PROVE  \E r \in rows : \A q \in rows : q.id <= r.id
<1> DEFINE T == {A \in SUBSET rows : A # {} => \E r \in A : \A q \in A : q.id <= r.id}
<1>1. {} \in T
  OBVIOUS
<1>2. ASSUME NEW A \in SUBSET rows, NEW x \in rows \ A, A \in T
      PROVE  A \cup {x} \in T
  <2>1. CASE A = {}
    BY <2>1 DEF Row
  <2>2. CASE A # {}
    <3>1. PICK r \in A : \A q \in A : q.id <= r.id
      BY <1>2, <2>2
    <3>2. x.id \in Nat /\ r.id \in Nat /\ \A q \in A : q.id \in Nat
      BY DEF Row
    <3>3. CASE x.id <= r.id
      BY <3>1, <3>3
    <3>4. CASE r.id <= x.id
      <4>1. \A q \in A \cup {x} : q.id <= x.id
        BY <3>1, <3>2, <3>4
      <4> QED  BY <4>1
    <3> QED  BY <3>2, <3>3, <3>4
  <2> QED  BY <2>1, <2>2
<1>3. rows \in T
  <2> HIDE DEF T
  <2> QED  BY <1>1, <1>2, SetInduction
<1> QED  BY <1>3

(* ... and a row with a smallest one. *)
LEMMA SmallestRow ==
  ASSUME NEW rows, rows \subseteq Row, IsFiniteSet(rows), rows # {}
  PROVE  \E r \in rows : \A q \in rows : r.id <= q.id
<1> DEFINE T == {A \in SUBSET rows : A # {} => \E r \in A : \A q \in A : r.id <= q.id}
<1>1. {} \in T
  OBVIOUS
<1>2. ASSUME NEW A \in SUBSET rows, NEW x \in rows \ A, A \in T
      PROVE  A \cup {x} \in T
  <2>1. CASE A = {}
    BY <2>1 DEF Row
  <2>2. CASE A # {}
    <3>1. PICK r \in A : \A q \in A : r.id <= q.id
      BY <1>2, <2>2
    <3>2. x.id \in Nat /\ r.id \in Nat /\ \A q \in A : q.id \in Nat
      BY DEF Row
    <3>3. CASE r.id <= x.id
      BY <3>1, <3>3
    <3>4. CASE x.id <= r.id
      <4>1. \A q \in A \cup {x} : x.id <= q.id
        BY <3>1, <3>2, <3>4
      <4> QED  BY <4>1
    <3> QED  BY <3>2, <3>3, <3>4
  <2> QED  BY <2>1, <2>2
<1>3. rows \in T
  <2> HIDE DEF T
  <2> QED  BY <1>1, <1>2, SetInduction
<1> QED  BY <1>3

(* LastId is the largest identifier, 0 without rows. *)
LEMMA LastIdLargest ==
  ASSUME NEW rows, rows \subseteq Row, IsFiniteSet(rows)
  PROVE  /\ LastId(rows) \in Nat
         /\ \A r \in rows : r.id <= LastId(rows)
         /\ rows = {} => LastId(rows) = 0
         /\ rows # {} => \E r \in rows : r.id = LastId(rows)
<1>1. CASE rows = {}
  BY <1>1 DEF LastId
<1>2. CASE rows # {}
  <2>1. PICK r \in rows : \A q \in rows : q.id <= r.id
    BY <1>2, LargestRow
  <2> DEFINE top == CHOOSE x \in rows : \A q \in rows : q.id <= x.id
  <2>2. top \in rows /\ \A q \in rows : q.id <= top.id
    BY <2>1
  <2>3. LastId(rows) = top.id
    BY <1>2 DEF LastId
  <2>4. top.id \in Nat
    BY <2>2 DEF Row
  <2> HIDE DEF top
  <2> QED  BY <1>2, <2>2, <2>3, <2>4
<1> QED  BY <1>1, <1>2

(* First takes rows from the front. *)
LEMMA FirstRows ==
  ASSUME NEW rows, rows \subseteq Row, IsFiniteSet(rows), NEW n \in Int
  PROVE  /\ First(rows, n) \subseteq rows /\ IsFiniteSet(First(rows, n))
         /\ \A r \in First(rows, n), q \in rows : q.id <= r.id => q \in First(rows, n)
         /\ \A r \in First(rows, n), q \in rows \ First(rows, n) : r.id < q.id
<1>1. First(rows, n) \subseteq rows /\ IsFiniteSet(First(rows, n))
  BY FS_Subset DEF First
<1>2. ASSUME NEW r \in First(rows, n), NEW q \in rows, q.id <= r.id
      PROVE  q \in First(rows, n)
  <2> DEFINE R == {x \in rows : x.id < r.id}
             Q == {x \in rows : x.id < q.id}
  <2>1. r \in rows /\ Cardinality(R) < n
    BY DEF First
  <2>2. Q \subseteq R
    BY <1>2, <2>1 DEF Row
  <2>3. IsFiniteSet(R)
    BY FS_Subset
  <2>4. Cardinality(Q) <= Cardinality(R) /\ Cardinality(R) \in Nat /\ Cardinality(Q) \in Nat
    <3> HIDE DEF R, Q
    <3> QED  BY <2>2, <2>3, FS_Subset, FS_CardinalityType
  <2>5. Cardinality(Q) < n
    <3> HIDE DEF R, Q
    <3> QED  BY <2>1, <2>4
  <2> QED  BY <2>5 DEF First
<1>3. ASSUME NEW r \in First(rows, n), NEW q \in rows \ First(rows, n)
      PROVE  r.id < q.id
  <2>1. ~(q.id <= r.id)
    BY <1>2
  <2>2. r \in Row /\ q \in Row
    BY <1>1
  <2> QED  BY <2>1, <2>2 DEF Row
<1> QED  BY <1>1, <1>2, <1>3

(* Numbered rows get the identifiers from first on. *)
LEMMA NumberedRows ==
  ASSUME NEW rows, rows \subseteq Row, IsFiniteSet(rows), NEW first \in Nat
  PROVE  /\ Numbered(rows, first) \subseteq Row /\ IsFiniteSet(Numbered(rows, first))
         /\ Values(Numbered(rows, first)) = Values(rows)
         /\ \A r \in Numbered(rows, first) :
              first <= r.id /\ r.id < first + Cardinality(rows)
         /\ Cardinality(rows) \in Nat
<1> DEFINE Below(r) == {q \in rows : q.value < r.value}
           G(r) == [id |-> first + Cardinality(Below(r)), value |-> r.value]
<1>1. Numbered(rows, first) = {G(r) : r \in rows}
  BY DEF Numbered
<1>2. Cardinality(rows) \in Nat
  BY FS_CardinalityType
<1>3. ASSUME NEW r \in rows
      PROVE  Cardinality(Below(r)) \in Nat /\ Cardinality(Below(r)) < Cardinality(rows)
  <2>1. Below(r) \subseteq rows /\ r \notin Below(r)
    BY DEF Row
  <2>2. /\ IsFiniteSet(Below(r)) /\ Cardinality(Below(r)) <= Cardinality(rows)
        /\ Cardinality(Below(r)) = Cardinality(rows) => Below(r) = rows
    <3> HIDE DEF Below
    <3> QED  BY <2>1, FS_Subset
  <2>3. Cardinality(Below(r)) \in Nat
    <3> HIDE DEF Below
    <3> QED  BY <2>2, FS_CardinalityType
  <2> HIDE DEF Below
  <2> QED  BY <1>2, <2>1, <2>2, <2>3
<1>4. \A r \in rows : G(r) \in Row /\ first <= G(r).id
                       /\ G(r).id < first + Cardinality(rows) /\ G(r).value = r.value
  <2> SUFFICES ASSUME NEW r \in rows
               PROVE  /\ G(r) \in Row /\ first <= G(r).id
                      /\ G(r).id < first + Cardinality(rows) /\ G(r).value = r.value
    OBVIOUS
  <2>1. r.value \in Nat
    BY DEF Row
  <2> HIDE DEF Below
  <2> QED  BY <1>2, <1>3, <2>1 DEF Row
<1>5. IsFiniteSet({G(r) : r \in rows})
  <2> DEFINE g == [r \in rows |-> G(r)]
  <2>1. \A r \in rows : g[r] = G(r)
    BY DEF G
  <2>2. {G(r) : r \in rows} = {g[r] : r \in rows}
    <3> HIDE DEF G, g
    <3> QED  BY <2>1
  <2> HIDE DEF G, g
  <2> QED  BY <2>2, FiniteImage
<1>6. Values({G(r) : r \in rows}) = Values(rows)
  <2> HIDE DEF G
  <2> QED  BY <1>4 DEF Values
<1> HIDE DEF G
<1> QED  BY <1>1, <1>2, <1>4, <1>5, <1>6

-----------------------------------------------------------------------------
(* Types and the number of database handles. *)

FiniteRows == {R \in SUBSET Row : IsFiniteSet(R)}

Handle == [pc : {"idle", "open", "flush", "insert", "done"},
           state : {"memory", "database"}, rows : FiniteRows, lastid : Nat]
Sender == [pc : {"idle", "select", "wait", "upload", "begin", "commit", "update"},
           rows : FiniteRows, more : BOOLEAN, lastid : Nat, gapid : Nat,
           waiting : SUBSET Writers]
Buffer == [mode : {"disk", "memory", "hybrid"}, state : States, db_handles_num : Nat,
           history_lastid_db : Nat, history_lastid_sent : Nat]

(* TypeOK with finite sets of rows *)
TypeInv ==
  /\ pb \in Buffer
  /\ history \in FiniteRows /\ table \in FiniteRows
  /\ lastid_stored \in Nat /\ nextid \in Nat \ {0} /\ nextvalue \in Nat \ {0}
  /\ lock \in Writers \union {Free}
  /\ txn \in Writers \union {Free, "sender"}
  /\ handles \in [Writers -> Handle]
  /\ sender \in Sender
  /\ server \in [last_id : Nat, received : SUBSET Nat]
  /\ proxy \in [pc : {"running", "exiting", "off"}, mode : Modes, starts : Nat]
  /\ discarded \in SUBSET Nat

(* a handle whose rows go to the database and are counted in db_handles_num *)
IsDb(h) == h.pc \in {"insert", "done"} \/ (h.pc = "open" /\ h.state = "database")
DbHandles == {w \in Writers : IsDb(handles[w])}

CountInv ==
  /\ IsFiniteSet(DbHandles)
  /\ proxy.pc # "off" => pb.db_handles_num = Cardinality(DbHandles)

(* a proxy that is off has nothing in memory *)
OffInv ==
  proxy.pc = "off" => /\ history = {} /\ sender.pc = "idle"
                      /\ \A w \in Writers : handles[w].pc = "idle"

Typed == TypeInv /\ CountInv /\ OffInv

LEMMA TypedOK ==
  ASSUME TypeInv PROVE TypeOK
<1>1. Handle \subseteq [pc : {"idle", "open", "flush", "insert", "done"},
                        state : {"memory", "database"}, rows : SUBSET Row,
                        lastid : Nat]
  BY DEF Handle, FiniteRows
<1>2. sender \in [pc : {"idle", "select", "wait", "upload", "begin", "commit", "update"},
                  rows : SUBSET Row, more : BOOLEAN, lastid : Nat, gapid : Nat,
                  waiting : SUBSET Writers]
  BY DEF TypeInv, Sender, FiniteRows
<1>3. handles \in [Writers -> [pc : {"idle", "open", "flush", "insert", "done"},
                        state : {"memory", "database"}, rows : SUBSET Row,
                        lastid : Nat]]
  BY <1>1 DEF TypeInv
<1>4. proxy \in [pc : {"running", "exiting", "off"}, mode : {"disk", "memory", "hybrid"},
                 starts : Nat]
  BY BufferAssumption DEF TypeInv
<1> QED  BY <1>2, <1>3, <1>4 DEF TypeInv, TypeOK, Buffer, FiniteRows

(* Sets of rows. *)
LEMMA RowSets ==
  /\ {} \in FiniteRows
  /\ \A A, B \in FiniteRows : A \cup B \in FiniteRows
  /\ \A A \in FiniteRows : \A B \in SUBSET A : B \in FiniteRows
  /\ \A A \in FiniteRows, n \in Int : First(A, n) \in FiniteRows /\ First(A, n) \subseteq A
  /\ \A A \in FiniteRows, n \in Nat : Numbered(A, n) \in FiniteRows
  /\ \A A \in FiniteRows : LastId(A) \in Nat /\ Cardinality(A) \in Nat
                           /\ Values(A) \subseteq Nat
<1>1. {} \in FiniteRows
  BY FS_EmptySet DEF FiniteRows
<1>2. ASSUME NEW A \in FiniteRows, NEW B \in FiniteRows PROVE A \cup B \in FiniteRows
  BY FS_Union DEF FiniteRows
<1>3. ASSUME NEW A \in FiniteRows, NEW B \in SUBSET A PROVE B \in FiniteRows
  BY FS_Subset DEF FiniteRows
<1>4. ASSUME NEW A \in FiniteRows, NEW n \in Int
      PROVE  First(A, n) \in FiniteRows /\ First(A, n) \subseteq A
  BY FirstRows DEF FiniteRows
<1>5. ASSUME NEW A \in FiniteRows, NEW n \in Nat PROVE Numbered(A, n) \in FiniteRows
  BY NumberedRows DEF FiniteRows
<1>6. ASSUME NEW A \in FiniteRows
      PROVE  LastId(A) \in Nat /\ Cardinality(A) \in Nat /\ Values(A) \subseteq Nat
  <2>1. LastId(A) \in Nat /\ Cardinality(A) \in Nat
    BY LastIdLargest, FS_CardinalityType DEF FiniteRows
  <2>2. Values(A) \subseteq Nat
    BY DEF FiniteRows, Values, Row
  <2> QED  BY <2>1, <2>2
<1> QED  BY <1>1, <1>2, <1>3, <1>4, <1>5, <1>6

(* One handle changes. *)
LEMMA CountSteps ==
  ASSUME IsFiniteSet(DbHandles), handles \in [Writers -> Handle],
         NEW w \in Writers, NEW h, handles' = [handles EXCEPT ![w] = h]
  PROVE  /\ IsFiniteSet(DbHandles') /\ Cardinality(DbHandles) \in Nat
         /\ Cardinality(DbHandles') =
              Cardinality(DbHandles) + (IF IsDb(h) THEN 1 ELSE 0)
                                     - (IF IsDb(handles[w]) THEN 1 ELSE 0)
         /\ IsDb(handles[w]) => Cardinality(DbHandles) > 0
         /\ \A v \in Writers : handles'[v] = IF v = w THEN h ELSE handles[v]
<1>1. \A v \in Writers : handles'[v] = IF v = w THEN h ELSE handles[v]
  OBVIOUS
<1>2. Cardinality(DbHandles) \in Nat
  BY FS_CardinalityType
<1>3. CASE IsDb(h) /\ ~IsDb(handles[w])
  <2>1. DbHandles' = DbHandles \cup {w} /\ w \notin DbHandles
    BY <1>1, <1>3 DEF DbHandles
  <2> QED  BY <1>1, <1>2, <1>3, <2>1, FS_AddElement
<1>4. CASE ~IsDb(h) /\ IsDb(handles[w])
  <2>1. DbHandles' = DbHandles \ {w} /\ w \in DbHandles
    BY <1>1, <1>4 DEF DbHandles
  <2>2. IsFiniteSet(DbHandles') /\ Cardinality(DbHandles') = Cardinality(DbHandles) - 1
    BY <2>1, FS_RemoveElement
  <2>3. Cardinality(DbHandles') \in Nat
    BY <2>2, FS_CardinalityType
  <2> QED  BY <1>1, <1>2, <1>4, <2>2, <2>3
<1>5. CASE IsDb(h) = IsDb(handles[w]) /\ IsDb(h) \in BOOLEAN
  <2>1. DbHandles' = DbHandles
    BY <1>1, <1>5 DEF DbHandles
  <2>2. IsDb(handles[w]) => Cardinality(DbHandles) > 0
    <3>1. IsDb(handles[w]) => w \in DbHandles
      BY DEF DbHandles
    <3> QED  BY <1>2, <3>1, FS_EmptySet
  <2> QED  BY <1>1, <1>2, <1>5, <2>1, <2>2
<1> QED  BY <1>3, <1>4, <1>5 DEF IsDb

-----------------------------------------------------------------------------
(* What zbx_pb_history_close does with the rows of a memory handle: the rows *)
(* in left are for the database, the others are in memory, and what is in    *)
(* neither place was dropped.                                                *)
MemoryClosed(w, rows, left) ==
  /\ left \in FiniteRows /\ left \subseteq rows
  /\ history' \in FiniteRows /\ history' \subseteq history \cup (rows \ left)
  /\ discarded \subseteq discarded' /\ discarded' \subseteq Nat
  /\ Values(history) \cup Values(rows)
       \subseteq Values(history') \cup Values(left) \cup discarded'
  /\ \A x \in rows \ left, r \in left : x.id < r.id

StaysInMemory(w, left) ==
  /\ left = {} /\ Dst(pb.state) = "memory"
  /\ handles' = [handles EXCEPT ![w] = IdleHandle]
  /\ sender' = [sender EXCEPT !.waiting = @ \ {w}]
  /\ pb' = pb /\ lock' = lock

GoesToDatabase(w, rows, left) ==
  /\ handles' = [handles EXCEPT ![w] = ToInsert(left)]
  /\ sender' = sender /\ lock' = lock
  /\ \/ /\ Dst(pb.state) = "database" /\ left = rows /\ history' = history
        /\ pb' = [pb EXCEPT !.db_handles_num = @ + 1]
     \/ /\ pb.state = "memory" /\ pb.mode # "memory"
        /\ pb' = [pb EXCEPT !.state = "memory_database", !.db_handles_num = @ + 1]

WaitsToFlush(w, left) ==
  /\ handles' = [handles EXCEPT ![w] = [ToInsert(left) EXCEPT !.pc = "flush"]]
  /\ sender' = sender /\ pb' = pb /\ lock' = w
  /\ Dst(pb.state) = "memory" /\ pb.mode # "memory"

LEMMA CloseMemoryCases ==
  ASSUME TypeInv, NEW w \in Writers, CloseMemory(w)
  PROVE  \E rows, left :
           /\ rows = Numbered(handles[w].rows, nextid)
           /\ MemoryClosed(w, rows, left)
           /\ \/ StaysInMemory(w, left) \/ GoesToDatabase(w, rows, left)
              \/ WaitsToFlush(w, left)
<1> DEFINE rows == Numbered(handles[w].rows, nextid)
<1>1. rows \in FiniteRows
  BY RowSets DEF TypeInv, Handle
<1>2. history \in FiniteRows /\ discarded \subseteq Nat /\ Capacity \in Nat
  BY BufferAssumption DEF TypeInv
<1>3. ASSUME NEW A, NEW B PROVE Values(A \cup B) = Values(A) \cup Values(B)
  BY DEF Values
<1>4. CASE Dst(pb.state) = "database"
  <2>1. /\ handles' = [handles EXCEPT ![w] = ToInsert(rows)]
        /\ pb' = [pb EXCEPT !.db_handles_num = @ + 1]
        /\ history' = history /\ lock' = lock /\ sender' = sender
        /\ discarded' = discarded
    BY <1>4 DEF CloseMemory, SetHandle
  <2>2. MemoryClosed(w, rows, rows)
    <3> HIDE DEF rows
    <3> QED  BY <1>1, <1>2, <2>1 DEF MemoryClosed
  <2>3. GoesToDatabase(w, rows, rows)
    BY <1>4, <2>1 DEF GoesToDatabase
  <2> QED  BY <2>2, <2>3
<1>5. CASE Dst(pb.state) = "memory"
  <2> DEFINE Newest(all) == all \ First(all, Larger(0, Cardinality(all) - Capacity))
  <2>1. PICK expired \in IF pb.state = "memory" THEN Expired ELSE {{}} :
        \E old \in IF pb.state = "memory" THEN TooOld(expired) ELSE {FALSE} :
          LET kept == history \ expired
              rest == Rest(rows, kept)
          IN  \/ /\ old
                 /\ history' = kept
                 /\ discarded' = discarded \union Values(expired)
                 /\ SetHandle(w, [ToInsert(rows) EXCEPT !.pc = "flush"])
                 /\ lock' = w
                 /\ UNCHANGED <<pb, sender>>
              \/ /\ ~old /\ pb.mode = "memory"
                 /\ history' = Newest(kept \union rows)
                 /\ discarded' = discarded \union Values(expired)
                                   \union Values((kept \union rows) \ Newest(kept \union rows))
                 /\ Deregister(w)
                 /\ UNCHANGED <<pb, lock>>
              \/ /\ ~old /\ pb.mode # "memory" /\ rest = {}
                 /\ history' = kept \union Fits(rows, kept)
                 /\ discarded' = discarded \union Values(expired)
                 /\ Deregister(w)
                 /\ UNCHANGED <<pb, lock>>
              \/ /\ ~old /\ pb.mode # "memory" /\ rest # {}
                 /\ history' = kept \union Fits(rows, kept)
                 /\ discarded' = discarded \union Values(expired)
                 /\ IF pb.state = "database_memory"
                      THEN /\ SetHandle(w, [ToInsert(rest) EXCEPT !.pc = "flush"])
                           /\ lock' = w
                           /\ UNCHANGED pb
                      ELSE /\ SetHandle(w, ToInsert(rest))
                           /\ pb' = [pb EXCEPT !.state = "memory_database",
                                               !.db_handles_num = @ + 1]
                           /\ UNCHANGED lock
                 /\ UNCHANGED sender
    BY <1>5, Zenon DEF CloseMemory, Dst
  <2> DEFINE kept == history \ expired
             rest == Rest(rows, kept)
  <2>2. pb.state \in {"memory", "database_memory"}
    BY <1>5 DEF TypeInv, Buffer, States, Dst
  <2>3. expired \subseteq history
    <3>1. CASE pb.state = "memory"
      <4>1. PICK n : expired = First(history, n)
        BY <2>1, <3>1 DEF Expired
      <4> QED  BY <4>1 DEF First
    <3> QED  BY <2>1, <3>1
  <2>4. /\ kept \in FiniteRows /\ expired \in FiniteRows
        /\ Values(history) = Values(kept) \cup Values(expired)
        /\ Values(expired) \subseteq Nat
    <3>1. history = kept \cup expired
      BY <2>3
    <3> QED  BY <1>2, <1>3, <2>3, <3>1, RowSets
  <2>5. Larger(0, Capacity - Cardinality(kept)) \in Int
    BY <1>2, <2>4, RowSets DEF Larger
  <2>6. /\ Fits(rows, kept) \in FiniteRows /\ Fits(rows, kept) \subseteq rows
        /\ \A x \in Fits(rows, kept), q \in rows \ Fits(rows, kept) : x.id < q.id
    <3> HIDE DEF rows, kept
    <3> QED  BY <1>1, <2>5, FirstRows DEF Fits, FiniteRows
  <2>7. /\ rest \in FiniteRows /\ rest \subseteq rows /\ rows \ rest = Fits(rows, kept)
        /\ Values(rows) = Values(rest) \cup Values(Fits(rows, kept))
        /\ \A x \in rows \ rest, q \in rest : x.id < q.id
    <3>1. rest = rows \ Fits(rows, kept)
      BY DEF Rest
    <3>2. rows = rest \cup Fits(rows, kept) /\ rest \subseteq rows
          /\ rows \ rest = Fits(rows, kept)
      <4> HIDE DEF rest, rows, kept
      <4> QED  BY <2>6, <3>1
    <3>3. rest \in FiniteRows
      <4> HIDE DEF rest, rows, kept
      <4> QED  BY <1>1, <3>2, RowSets
    <3>4. Values(rows) = Values(rest) \cup Values(Fits(rows, kept))
      <4> HIDE DEF rest, rows, kept
      <4> QED  BY <1>3, <3>2
    <3> HIDE DEF rest, rows, kept
    <3> QED  BY <2>6, <3>1, <3>2, <3>3, <3>4
  <2>8. Dst(pb.state) = "memory"
    BY <1>5
  <2>9. ASSUME /\ history' = kept
               /\ discarded' = discarded \union Values(expired)
               /\ SetHandle(w, [ToInsert(rows) EXCEPT !.pc = "flush"])
               /\ lock' = w
               /\ UNCHANGED <<pb, sender>>,
               pb.mode # "memory"
        PROVE  MemoryClosed(w, rows, rows) /\ WaitsToFlush(w, rows)
    <3>1. kept \subseteq history
      OBVIOUS
    <3> HIDE DEF rows, kept
    <3>2. MemoryClosed(w, rows, rows)
      BY <1>1, <1>2, <2>4, <2>9, <3>1 DEF MemoryClosed
    <3>3. WaitsToFlush(w, rows)
      BY <2>8, <2>9 DEF WaitsToFlush, SetHandle
    <3> QED  BY <3>2, <3>3
  <2>10. ASSUME /\ history' = Newest(kept \union rows)
                /\ discarded' = discarded \union Values(expired)
                                  \union Values((kept \union rows) \ Newest(kept \union rows))
                /\ Deregister(w)
                /\ UNCHANGED <<pb, lock>>
         PROVE  MemoryClosed(w, rows, {}) /\ StaysInMemory(w, {})
    <3> DEFINE all == kept \cup rows
    <3>1. all \in FiniteRows /\ Newest(all) \subseteq all /\ kept \subseteq history
      <4> HIDE DEF rows
      <4> QED  BY <1>1, <2>4, RowSets
    <3>2. Newest(all) \in FiniteRows /\ all \ Newest(all) \in FiniteRows
          /\ all = Newest(all) \cup (all \ Newest(all))
      <4> HIDE DEF rows, kept, all, Newest
      <4> QED  BY <3>1, RowSets
    <3>3. /\ Values(all) = Values(Newest(all)) \cup Values(all \ Newest(all))
          /\ Values(all) = Values(kept) \cup Values(rows)
          /\ Values(all \ Newest(all)) \subseteq Nat
      <4>1. Values(all) = Values(kept) \cup Values(rows)
        BY <1>3
      <4> HIDE DEF rows, kept, all, Newest
      <4> QED  BY <1>3, <3>2, <4>1, RowSets
    <3>4. all \subseteq history \cup (rows \ {}) /\ history' = Newest(all)
          /\ discarded' = discarded \cup Values(expired) \cup Values(all \ Newest(all))
          /\ {} \in FiniteRows /\ Values({}) = {}
      BY <2>10, RowSets DEF Values
    <3>5. StaysInMemory(w, {})
      BY <2>8, <2>10 DEF StaysInMemory, Deregister, SetHandle
    <3> HIDE DEF rows, kept, all, Newest
    <3>6. MemoryClosed(w, rows, {})
      BY <1>2, <2>4, <3>1, <3>2, <3>3, <3>4 DEF MemoryClosed
    <3> QED  BY <3>5, <3>6
  <2>11. ASSUME history' = kept \union Fits(rows, kept),
                discarded' = discarded \union Values(expired)
         PROVE  MemoryClosed(w, rows, rest)
    <3>1. kept \subseteq history
      OBVIOUS
    <3> HIDE DEF rows, kept, rest
    <3>2. history' \in FiniteRows /\ Values(history') = Values(kept) \cup Values(Fits(rows, kept))
      BY <1>3, <2>4, <2>6, <2>11, RowSets
    <3> QED  BY <1>2, <2>4, <2>6, <2>7, <2>11, <3>1, <3>2 DEF MemoryClosed
  <2>13. PICK old \in IF pb.state = "memory" THEN TooOld(expired) ELSE {FALSE} :
          \/ /\ old
             /\ history' = kept
             /\ discarded' = discarded \union Values(expired)
             /\ SetHandle(w, [ToInsert(rows) EXCEPT !.pc = "flush"])
             /\ lock' = w
             /\ UNCHANGED <<pb, sender>>
          \/ /\ ~old /\ pb.mode = "memory"
             /\ history' = Newest(kept \union rows)
             /\ discarded' = discarded \union Values(expired)
                               \union Values((kept \union rows) \ Newest(kept \union rows))
             /\ Deregister(w)
             /\ UNCHANGED <<pb, lock>>
          \/ /\ ~old /\ pb.mode # "memory" /\ rest = {}
             /\ history' = kept \union Fits(rows, kept)
             /\ discarded' = discarded \union Values(expired)
             /\ Deregister(w)
             /\ UNCHANGED <<pb, lock>>
          \/ /\ ~old /\ pb.mode # "memory" /\ rest # {}
             /\ history' = kept \union Fits(rows, kept)
             /\ discarded' = discarded \union Values(expired)
             /\ IF pb.state = "database_memory"
                  THEN /\ SetHandle(w, [ToInsert(rest) EXCEPT !.pc = "flush"])
                       /\ lock' = w
                       /\ UNCHANGED pb
                  ELSE /\ SetHandle(w, ToInsert(rest))
                       /\ pb' = [pb EXCEPT !.state = "memory_database",
                                           !.db_handles_num = @ + 1]
                       /\ UNCHANGED lock
             /\ UNCHANGED sender
    BY <2>1, Zenon
  <2>14. old = TRUE => pb.mode # "memory"
    BY <2>13 DEF TooOld
  <2>15. old \in BOOLEAN
    BY <2>13 DEF TooOld
  <2> HIDE DEF rows, kept, rest, Newest
  <2>16. CASE old = TRUE
    BY <2>9, <2>13, <2>14, <2>16, <1>1 DEF rows
  <2>17. CASE old = FALSE /\ pb.mode = "memory"
    BY <2>10, <2>13, <2>17 DEF rows
  <2>18. CASE old = FALSE /\ pb.mode # "memory" /\ rest = {}
    <3>1. StaysInMemory(w, rest)
      BY <2>8, <2>13, <2>18 DEF StaysInMemory, Deregister, SetHandle
    <3>2. MemoryClosed(w, rows, rest)
      BY <2>11, <2>13, <2>18
    <3> QED  BY <3>1, <3>2 DEF rows
  <2>19. CASE old = FALSE /\ pb.mode # "memory" /\ rest # {}
    <3>1. MemoryClosed(w, rows, rest)
      BY <2>11, <2>13, <2>19
    <3>2. CASE pb.state = "database_memory"
      <4>1. WaitsToFlush(w, rest)
        BY <2>8, <2>13, <2>19, <3>2 DEF WaitsToFlush, SetHandle
      <4> QED  BY <3>1, <4>1 DEF rows
    <3>3. CASE pb.state # "database_memory"
      <4>1. GoesToDatabase(w, rows, rest)
        BY <2>2, <2>13, <2>19, <3>3 DEF GoesToDatabase, SetHandle
      <4> QED  BY <3>1, <4>1 DEF rows
    <3> QED  BY <3>2, <3>3
  <2> QED  BY <2>15, <2>16, <2>17, <2>18, <2>19
<1> QED  BY <1>4, <1>5 DEF Dst

-----------------------------------------------------------------------------
(* Every step keeps the types, the count of handles and what a proxy that is *)
(* off has.                                                                  *)

LEMMA LargerType == \A a, b \in Int : Larger(a, b) \in {a, b} /\ a <= Larger(a, b) /\ b <= Larger(a, b)
  BY DEF Larger

PbWith(p, state, last, n) ==
  [p EXCEPT !.state = state, !.history_lastid_db = last, !.db_handles_num = n]

LEMMA BufferSet ==
  ASSUME NEW p \in Buffer, NEW state \in States, NEW last \in Nat, NEW n \in Nat
  PROVE  /\ PbWith(p, state, last, n) \in Buffer
         /\ PbWith(p, state, last, n).db_handles_num = n
         /\ PbWith(p, state, last, n).state = state
         /\ PbWith(p, state, last, n).history_lastid_db = last
         /\ PbWith(p, state, last, n).mode = p.mode
         /\ PbWith(p, state, last, n).history_lastid_sent = p.history_lastid_sent
<1>1. PbWith(p, state, last, n) \in Buffer
  BY DEF PbWith, Buffer
<1>2. PbWith(p, state, last, n).db_handles_num = n
  BY DEF PbWith, Buffer
<1>3. PbWith(p, state, last, n).state = state
  BY DEF PbWith, Buffer
<1>4. PbWith(p, state, last, n).history_lastid_db = last
  BY DEF PbWith, Buffer
<1>5. PbWith(p, state, last, n).mode = p.mode
  BY DEF PbWith, Buffer
<1>6. PbWith(p, state, last, n).history_lastid_sent = p.history_lastid_sent
  BY DEF PbWith, Buffer
<1> QED  BY <1>1, <1>2, <1>3, <1>4, <1>5, <1>6

(* No handle changes, and the proxy does not start. *)
LEMMA CountSame ==
  ASSUME CountInv, handles' = handles, pb'.db_handles_num = pb.db_handles_num,
         proxy'.pc # "off" => proxy.pc # "off"
  PROVE  CountInv'
<1>1. DbHandles' = DbHandles
  BY DEF DbHandles
<1> QED  BY <1>1 DEF CountInv

(* A handle of a running proxy changes. *)
LEMMA CountHandle ==
  ASSUME TypeInv, CountInv, NEW w \in Writers, NEW h, proxy' = proxy, proxy.pc # "off",
         handles' = [handles EXCEPT ![w] = h],
         \/ /\ IsDb(h) /\ ~IsDb(handles[w])
            /\ pb'.db_handles_num = pb.db_handles_num + 1
         \/ /\ ~IsDb(h) /\ IsDb(handles[w])
            /\ pb'.db_handles_num = pb.db_handles_num - 1
         \/ /\ (IsDb(h) /\ IsDb(handles[w])) \/ (~IsDb(h) /\ ~IsDb(handles[w]))
            /\ pb'.db_handles_num = pb.db_handles_num
  PROVE  CountInv' /\ pb'.db_handles_num \in Nat
<1>1. /\ IsFiniteSet(DbHandles') /\ Cardinality(DbHandles) \in Nat
      /\ Cardinality(DbHandles') =
           Cardinality(DbHandles) + (IF IsDb(h) THEN 1 ELSE 0)
                                  - (IF IsDb(handles[w]) THEN 1 ELSE 0)
  BY CountSteps DEF CountInv, TypeInv
<1>2. pb.db_handles_num = Cardinality(DbHandles)
  BY DEF CountInv
<1>3. pb'.db_handles_num = Cardinality(DbHandles')
  BY <1>1, <1>2
<1>4. Cardinality(DbHandles') \in Nat
  BY <1>1, FS_CardinalityType
<1> QED  BY <1>1, <1>3, <1>4 DEF CountInv

LEMMA TypedInit == Init => Typed
<1> SUFFICES ASSUME Init PROVE Typed
  OBVIOUS
<1>1. {} \in FiniteRows /\ LastId({}) = 0
  BY RowSets DEF LastId
<1>2. PICK mode \in Modes :
        /\ pb = InitialPb(mode, {}, 0)
        /\ proxy = [pc |-> "running", mode |-> mode, starts |-> 1]
  BY DEF Init
<1>3. pb \in Buffer /\ pb.db_handles_num = 0
  BY <1>1, <1>2, BufferAssumption DEF InitialPb, Buffer, States
<1>4. IdleHandle \in Handle /\ IdleSender \in Sender /\ ~IsDb(IdleHandle)
  BY <1>1 DEF IdleHandle, IdleSender, Handle, Sender, IsDb
<1>5. TypeInv
  BY <1>1, <1>2, <1>3, <1>4 DEF Init, TypeInv
<1>6. DbHandles = {}
  BY <1>4 DEF Init, DbHandles
<1>7. CountInv
  BY <1>3, <1>6, FS_EmptySet DEF CountInv
<1> QED  BY <1>2, <1>5, <1>7 DEF Typed, OffInv

LEMMA TypedStart == ASSUME Typed, Start PROVE Typed'
<1>1. LastId(table) \in Nat
  BY RowSets DEF Typed, TypeInv
<1>2. pb' \in Buffer /\ pb'.db_handles_num = 0
  BY <1>1, BufferAssumption DEF Start, InitialPb, Typed, TypeInv, Buffer, States
<1>3. TypeInv'
  <2>1. nextid' \in Nat \ {0} /\ lastid_stored' \in Nat
    BY <1>1 DEF Typed, TypeInv, Start
  <2>2. server' \in [last_id : Nat, received : SUBSET Nat]
    BY DEF Typed, TypeInv, Start
  <2>3. proxy' \in [pc : {"running", "exiting", "off"}, mode : Modes, starts : Nat]
    <3>1. proxy' = [proxy EXCEPT !.pc = "running", !.starts = @ + 1]
      BY DEF Start
    <3>2. proxy \in [pc : {"running", "exiting", "off"}, mode : Modes, starts : Nat]
      BY DEF Typed, TypeInv
    <3>3. proxy.mode \in Modes /\ proxy.starts + 1 \in Nat
      BY <3>2
    <3>4. proxy' = [pc |-> "running", mode |-> proxy.mode, starts |-> proxy.starts + 1]
      BY <3>1, <3>2
    <3> QED  BY <3>3, <3>4
  <2> QED  BY <1>2, <2>1, <2>2, <2>3 DEF Typed, TypeInv, Start
<1>4. DbHandles' = {}
  BY DEF Start, Typed, OffInv, DbHandles, IsDb
<1>5. CountInv'
  BY <1>2, <1>4, FS_EmptySet DEF CountInv
<1> QED  BY <1>3, <1>5 DEF Typed, OffInv, Start, TypeInv

LEMMA TypedDisable == ASSUME Typed, Disable PROVE Typed'
<1>1. pb' \in Buffer /\ pb'.db_handles_num = pb.db_handles_num
  BY DEF Disable, Typed, TypeInv, Buffer, States
<1>2. proxy'.pc = "exiting" /\ proxy.pc = "running" /\ proxy' \in [pc : {"running", "exiting", "off"}, mode : Modes, starts : Nat]
  BY DEF Disable, Typed, TypeInv
<1>3. TypeInv'
  BY <1>1, <1>2 DEF Typed, TypeInv, Disable, stored
<1>4. CountInv'
  BY <1>1, <1>2, CountSame DEF Disable, Typed
<1> QED  BY <1>2, <1>3, <1>4 DEF Typed, OffInv

LEMMA TypedFlushOnExit == ASSUME Typed, FlushOnExit PROVE Typed'
<1>1. /\ table' \in FiniteRows /\ lastid_stored' \in Nat /\ discarded' \subseteq Nat
      /\ {} \in FiniteRows
  <2>1. /\ table \in FiniteRows /\ history \in FiniteRows /\ lastid_stored \in Nat
        /\ discarded \subseteq Nat /\ pb.history_lastid_sent \in Nat
    BY DEF Typed, TypeInv, Buffer
  <2>2. table \union history \in FiniteRows /\ Values(history) \subseteq Nat /\ {} \in FiniteRows
    BY <2>1, RowSets
  <2>3. FlushedLastid \in Nat
    BY <2>1 DEF FlushedLastid
  <2>4. \/ /\ table' = table \union history /\ lastid_stored' = FlushedLastid
           /\ discarded' = discarded
        \/ /\ discarded' = discarded \union Values(history) /\ table' = table
           /\ lastid_stored' = lastid_stored
    BY DEF FlushOnExit, Flushed, stored
  <2> QED  BY <2>1, <2>2, <2>3, <2>4
<1>2. proxy'.pc = "off" /\ proxy' \in [pc : {"running", "exiting", "off"}, mode : Modes, starts : Nat]
  BY DEF FlushOnExit, Typed, TypeInv
<1>3. TypeInv'
  BY <1>1, <1>2 DEF Typed, TypeInv, FlushOnExit
<1>4. CountInv'
  BY <1>2, CountSame DEF FlushOnExit, Typed
<1> QED  BY <1>2, <1>3, <1>4 DEF Typed, OffInv, FlushOnExit

LEMMA TypedCrash == ASSUME Typed, Crash PROVE Typed'
<1>1. IdleHandle \in Handle /\ IdleSender \in Sender /\ ~IsDb(IdleHandle) /\ {} \in FiniteRows
  BY RowSets DEF IdleHandle, IdleSender, Handle, Sender, IsDb
<1>2. \A w \in Writers : Values(handles[w].rows) \subseteq Nat
  BY RowSets DEF Typed, TypeInv, Handle
<1>3. UNION {Values(handles[w].rows) : w \in Writers} \subseteq Nat
  BY <1>2
<1>4. Values(history) \subseteq Nat
  BY RowSets DEF Typed, TypeInv
<1>5. discarded' \subseteq Nat
  BY <1>3, <1>4 DEF Crash, Typed, TypeInv
<1>6. proxy'.pc = "off" /\ proxy' \in [pc : {"running", "exiting", "off"}, mode : Modes, starts : Nat]
  BY DEF Crash, Typed, TypeInv
<1>7. TypeInv'
  BY <1>1, <1>5, <1>6 DEF Typed, TypeInv, Crash, stored
<1>8. DbHandles' = {}
  BY <1>1 DEF Crash, DbHandles
<1>9. CountInv'
  BY <1>6, <1>8, FS_EmptySet DEF CountInv
<1> QED  BY <1>6, <1>7, <1>9 DEF Typed, OffInv, Crash, IdleHandle, IdleSender

LEMMA TypedOpen ==
  ASSUME Typed, NEW w \in Writers, Open(w) PROVE Typed'
<1>1. PICK n \in 0 .. MaxBatch :
        /\ nextvalue' = nextvalue + n
        /\ SetHandle(w, [pc |-> "open", state |-> Dst(pb.state), lastid |-> 0,
                         rows |-> {[id |-> 0, value |-> nextvalue + i] : i \in 0..n - 1}])
  BY DEF Open
<1> DEFINE new == {[id |-> 0, value |-> nextvalue + i] : i \in 0..n - 1}
           h == [pc |-> "open", state |-> Dst(pb.state), lastid |-> 0, rows |-> new]
<1>2. n \in Nat /\ nextvalue \in Nat \ {0}
  BY BufferAssumption DEF Typed, TypeInv
<1>3. new \in FiniteRows
  <2> DEFINE f == [i \in 0 .. n - 1 |-> [id |-> 0, value |-> nextvalue + i]]
  <2>1. IsFiniteSet(0 .. n - 1)
    BY <1>2, FS_Interval
  <2>2. new = {f[i] : i \in 0 .. n - 1}
    OBVIOUS
  <2>3. IsFiniteSet({f[i] : i \in 0 .. n - 1})
    <3> HIDE DEF f
    <3> QED  BY <2>1, FiniteImage
  <2>4. new \subseteq Row
    BY <1>2 DEF Row
  <2> HIDE DEF f, new
  <2> QED  BY <2>2, <2>3, <2>4 DEF FiniteRows
<1>4. h \in Handle /\ h.pc = "open" /\ h.state = Dst(pb.state)
  <2> HIDE DEF new
  <2> QED  BY <1>3 DEF Handle, Dst
<1>5. handles' = [handles EXCEPT ![w] = h]
  BY <1>1 DEF SetHandle
<1> HIDE DEF h, new
<1>6. /\ pb' = [pb EXCEPT !.db_handles_num = IF Dst(pb.state) = "database" THEN @ + 1 ELSE @]
      /\ handles[w].pc = "idle" /\ proxy.pc # "off" /\ proxy' = proxy
  BY DEF Open, Running
<1>7. IsDb(h) <=> Dst(pb.state) = "database"
  BY <1>4 DEF IsDb
<1>8. ~IsDb(handles[w])
  BY <1>6 DEF IsDb
<1>9. pb'.db_handles_num = IF IsDb(h) THEN pb.db_handles_num + 1 ELSE pb.db_handles_num
  BY <1>6, <1>7 DEF Typed, TypeInv, Buffer
<1>10. CountInv' /\ pb'.db_handles_num \in Nat
  BY <1>5, <1>6, <1>8, <1>9, CountHandle DEF Typed
<1>11. pb' \in Buffer
  BY <1>6, <1>10 DEF Typed, TypeInv, Buffer
<1>12. handles' \in [Writers -> Handle]
  BY <1>4, <1>5 DEF Typed, TypeInv
<1>13. TypeInv'
  BY <1>1, <1>2, <1>11, <1>12 DEF Typed, TypeInv, Open, stored
<1> QED  BY <1>6, <1>10, <1>13 DEF Typed, OffInv

LEMMA TypedHandles ==
  ASSUME TypeInv, NEW w \in Writers
  PROVE  /\ handles[w] \in Handle /\ handles[w].rows \in FiniteRows
         /\ handles[w].lastid \in Nat /\ handles[w].state \in {"memory", "database"}
         /\ ToInsert(handles[w].rows) \in Handle /\ IdleHandle \in Handle
  BY RowSets DEF TypeInv, Handle, ToInsert, IdleHandle

(* The part of the proxy that runs is unchanged. *)
LEMMA TypedCloseEmpty ==
  ASSUME Typed, NEW w \in Writers, CloseEmpty(w) PROVE Typed'
<1>1. /\ handles[w].pc = "open" /\ handles[w].state = "memory"
      /\ handles' = [handles EXCEPT ![w] = IdleHandle]
      /\ sender' = [sender EXCEPT !.waiting = @ \ {w}]
      /\ pb' = pb /\ proxy' = proxy
  BY DEF CloseEmpty, Deregister, SetHandle, outside
<1>2. proxy.pc # "off" /\ ~IsDb(IdleHandle) /\ ~IsDb(handles[w])
  BY <1>1 DEF Typed, OffInv, IsDb, IdleHandle
<1>3. pb.db_handles_num \in Nat
  BY DEF Typed, TypeInv, Buffer
<1>4. CountInv'
  BY <1>1, <1>2, <1>3, CountHandle DEF Typed
<1>5. sender' \in Sender /\ handles' \in [Writers -> Handle]
  BY <1>1, TypedHandles DEF Typed, TypeInv, Sender
<1>6. TypeInv'
  BY <1>1, <1>5 DEF Typed, TypeInv, CloseEmpty, stored, outside
<1> QED  BY <1>1, <1>2, <1>4, <1>6 DEF Typed, OffInv

LEMMA TypedCloseMemory ==
  ASSUME Typed, NEW w \in Writers, CloseMemory(w) PROVE Typed'
<1>1. PICK rows, left :
        /\ rows = Numbered(handles[w].rows, nextid)
        /\ MemoryClosed(w, rows, left)
        /\ \/ StaysInMemory(w, left) \/ GoesToDatabase(w, rows, left)
           \/ WaitsToFlush(w, left)
  BY CloseMemoryCases DEF Typed
<1>2. /\ handles[w].pc = "open" /\ handles[w].state = "memory" /\ lock = Free
      /\ nextid' = nextid + Cardinality(handles[w].rows)
      /\ UNCHANGED <<stored, txn, outside>>
  BY DEF CloseMemory
<1>3. proxy.pc # "off" /\ ~IsDb(handles[w]) /\ proxy' = proxy
  BY <1>2 DEF Typed, OffInv, IsDb, outside
<1>4. nextid' \in Nat \ {0}
  <2>1. Cardinality(handles[w].rows) \in Nat /\ nextid \in Nat \ {0}
    BY TypedHandles, RowSets DEF Typed, TypeInv
  <2> QED  BY <1>2, <2>1
<1>5. /\ left \in FiniteRows /\ history' \in FiniteRows /\ discarded' \subseteq Nat
  BY <1>1 DEF MemoryClosed
<1> DEFINE h == handles'[w]
<1>6. /\ handles' = [handles EXCEPT ![w] = h] /\ h \in Handle
      /\ sender' \in Sender /\ pb' \in Buffer /\ lock' \in Writers \cup {Free}
      /\ pb'.db_handles_num = IF IsDb(h) THEN pb.db_handles_num + 1 ELSE pb.db_handles_num
  <2>1. pb \in Buffer /\ pb.db_handles_num \in Nat /\ sender \in Sender
        /\ handles \in [Writers -> Handle] /\ lock \in Writers \cup {Free}
    BY DEF Typed, TypeInv, Buffer
  <2>2. CASE StaysInMemory(w, left)
    <3>1. handles' = [handles EXCEPT ![w] = IdleHandle] /\ h = IdleHandle
      BY <2>1, <2>2 DEF StaysInMemory
    <3>2. h \in Handle /\ ~IsDb(h)
      BY <3>1, TypedHandles DEF IsDb, IdleHandle, Typed
    <3>3. sender' \in Sender /\ pb' = pb /\ lock' = lock
      BY <2>1, <2>2 DEF StaysInMemory, Sender
    <3> HIDE DEF h
    <3> QED  BY <1>3, <2>1, <3>1, <3>2, <3>3
  <2>3. CASE GoesToDatabase(w, rows, left)
    <3>1. handles' = [handles EXCEPT ![w] = ToInsert(left)] /\ h = ToInsert(left)
      BY <2>1, <2>3 DEF GoesToDatabase
    <3>2. h \in Handle /\ IsDb(h)
      BY <1>5, <3>1 DEF IsDb, ToInsert, Handle
    <3>3. sender' = sender /\ lock' = lock
          /\ pb' \in Buffer /\ pb'.db_handles_num = pb.db_handles_num + 1
      <4>1. \/ pb' = [pb EXCEPT !.db_handles_num = @ + 1]
            \/ pb' = [pb EXCEPT !.state = "memory_database", !.db_handles_num = @ + 1]
        BY <2>3 DEF GoesToDatabase
      <4>2. pb' \in Buffer /\ pb'.db_handles_num = pb.db_handles_num + 1
        <5>1. CASE pb' = [pb EXCEPT !.db_handles_num = @ + 1]
          BY <2>1, <5>1 DEF Buffer
        <5>2. CASE pb' = [pb EXCEPT !.state = "memory_database", !.db_handles_num = @ + 1]
          <6>1. "memory_database" \in States
            BY DEF States
          <6>2. pb' = PbWith(pb, "memory_database", pb.history_lastid_db,
                             pb.db_handles_num + 1)
            BY <2>1, <5>2 DEF Buffer, PbWith
          <6>3. pb.db_handles_num + 1 \in Nat /\ pb.history_lastid_db \in Nat
            BY <2>1 DEF Buffer
          <6>4. /\ pb' \in Buffer /\ pb'.db_handles_num = pb.db_handles_num + 1
            <7> DEFINE k == pb.db_handles_num + 1
                       last == pb.history_lastid_db
            <7>1. pb \in Buffer /\ k \in Nat /\ last \in Nat
              BY <2>1, <6>3
            <7>2. pb' = PbWith(pb, "memory_database", last, k)
              BY <6>2
            <7>3. pb' \in Buffer /\ pb'.db_handles_num = k
              <8> HIDE DEF k, last
              <8> QED  BY <6>1, <7>1, <7>2, BufferSet
            <7> QED  BY <7>3
          <6> QED  BY <6>4
        <5> QED  BY <4>1, <5>1, <5>2
      <4> QED  BY <2>3, <4>2 DEF GoesToDatabase
    <3> HIDE DEF h
    <3> QED  BY <1>3, <2>1, <3>1, <3>2, <3>3
  <2>4. CASE WaitsToFlush(w, left)
    <3>1. /\ handles' = [handles EXCEPT ![w] = [ToInsert(left) EXCEPT !.pc = "flush"]]
          /\ h = [ToInsert(left) EXCEPT !.pc = "flush"]
      BY <2>1, <2>4 DEF WaitsToFlush
    <3>2. h \in Handle /\ ~IsDb(h)
      BY <1>5, <3>1 DEF IsDb, ToInsert, Handle
    <3>3. sender' = sender /\ lock' = w /\ pb' = pb
      BY <2>1, <2>4 DEF WaitsToFlush
    <3> HIDE DEF h
    <3> QED  BY <1>3, <2>1, <3>1, <3>2, <3>3
  <2> QED  BY <1>1, <2>2, <2>3, <2>4
<1> HIDE DEF h
<1>7. CountInv'
  BY <1>3, <1>6, CountHandle DEF Typed
<1>8. handles' \in [Writers -> Handle]
  BY <1>6 DEF Typed, TypeInv
<1>9. TypeInv'
  BY <1>2, <1>4, <1>5, <1>6, <1>8 DEF Typed, TypeInv, stored, outside
<1> QED  BY <1>3, <1>7, <1>9 DEF Typed, OffInv

LEMMA TypedFallback ==
  ASSUME Typed, NEW w \in Writers, Fallback(w) PROVE Typed'
<1>1. /\ handles[w].pc = "flush" /\ proxy' = proxy /\ lock' = Free
      /\ handles' = [handles EXCEPT ![w] = [handles[w] EXCEPT !.pc = "insert"]]
      /\ pb' = [pb EXCEPT !.state = "database",
                          !.history_lastid_db = Larger(@, LastId(history)),
                          !.db_handles_num = @ + 1]
      /\ history' = {}
      /\ UNCHANGED <<nextid, txn, sender, outside>>
  BY DEF Fallback, SetHandle, outside
<1> DEFINE h == [handles[w] EXCEPT !.pc = "insert"]
<1>2. h \in Handle /\ IsDb(h) /\ ~IsDb(handles[w]) /\ proxy.pc # "off"
  BY <1>1, TypedHandles DEF Handle, IsDb, Typed, OffInv
<1> HIDE DEF h
<1>3. pb \in Buffer /\ pb.db_handles_num \in Nat /\ pb.history_lastid_db \in Nat
      /\ LastId(history) \in Nat
  BY RowSets DEF Typed, TypeInv, Buffer
<1>4. Larger(pb.history_lastid_db, LastId(history)) \in Nat
  BY <1>3 DEF Larger
<1>5. pb' \in Buffer /\ pb'.db_handles_num = pb.db_handles_num + 1
  <2> DEFINE last == Larger(pb.history_lastid_db, LastId(history))
  <2>1. pb' = [pb EXCEPT !.state = "database", !.history_lastid_db = last,
                         !.db_handles_num = @ + 1]
    BY <1>1
  <2> HIDE DEF last
  <2>2. last \in Nat
    BY <1>4 DEF last
  <2>3. "database" \in States
    BY DEF States
  <2>4. pb' = PbWith(pb, "database", last, pb.db_handles_num + 1)
    BY <2>1 DEF PbWith
  <2>5. pb.db_handles_num + 1 \in Nat
    BY <1>3
  <2> DEFINE k == pb.db_handles_num + 1
  <2>6. pb \in Buffer /\ k \in Nat /\ pb' = PbWith(pb, "database", last, k)
    BY <1>3, <2>4, <2>5
  <2>7. pb' \in Buffer /\ pb'.db_handles_num = k
    <3> HIDE DEF k
    <3> QED  BY <2>2, <2>3, <2>6, BufferSet
  <2> QED  BY <2>7
<1>6. handles' = [handles EXCEPT ![w] = h]
  BY <1>1 DEF h
<1>7. CountInv'
  BY <1>1, <1>2, <1>3, <1>5, <1>6, CountHandle DEF Typed
<1>8. /\ table' \in FiniteRows /\ lastid_stored' \in Nat /\ discarded' \subseteq Nat
      /\ {} \in FiniteRows
  <2>1. /\ table \in FiniteRows /\ history \in FiniteRows /\ lastid_stored \in Nat
        /\ discarded \subseteq Nat /\ pb.history_lastid_sent \in Nat
    BY DEF Typed, TypeInv, Buffer
  <2>2. table \union history \in FiniteRows /\ Values(history) \subseteq Nat /\ {} \in FiniteRows
    BY <2>1, RowSets
  <2>3. FlushedLastid \in Nat
    BY <2>1 DEF FlushedLastid
  <2>4. \/ /\ table' = table \union history /\ lastid_stored' = FlushedLastid
           /\ discarded' = discarded
        \/ /\ discarded' = discarded \union Values(history) /\ table' = table
           /\ lastid_stored' = lastid_stored
    BY DEF Fallback, Flushed, stored
  <2> QED  BY <2>1, <2>2, <2>3, <2>4
<1>9. handles' \in [Writers -> Handle]
  BY <1>2, <1>6 DEF Typed, TypeInv
<1>10. TypeInv'
  BY <1>1, <1>5, <1>8, <1>9 DEF Typed, TypeInv, outside
<1> QED  BY <1>1, <1>2, <1>7, <1>10 DEF Typed, OffInv

LEMMA TypedAssignIds ==
  ASSUME Typed, NEW w \in Writers, AssignIds(w) PROVE Typed'
<1> DEFINE h == [handles[w] EXCEPT !.pc = "insert", !.rows = Numbered(@, nextid)]
<1>1. /\ handles[w].pc = "open" /\ handles[w].state = "database" /\ proxy' = proxy
      /\ handles' = [handles EXCEPT ![w] = h] /\ pb' = pb
      /\ nextid' = nextid + Cardinality(handles[w].rows)
  BY DEF AssignIds, SetHandle, outside
<1>2. /\ Numbered(handles[w].rows, nextid) \in FiniteRows
      /\ Cardinality(handles[w].rows) \in Nat /\ nextid \in Nat \ {0}
      /\ handles[w] \in Handle
  BY TypedHandles, RowSets DEF Typed, TypeInv
<1>3. h \in Handle /\ IsDb(h) /\ IsDb(handles[w]) /\ proxy.pc # "off"
  BY <1>1, <1>2 DEF Handle, IsDb, Typed, OffInv
<1> HIDE DEF h
<1>4. pb.db_handles_num \in Nat
  BY DEF Typed, TypeInv, Buffer
<1>5. CountInv'
  BY <1>1, <1>3, <1>4, CountHandle DEF Typed
<1>6. handles' \in [Writers -> Handle] /\ nextid' \in Nat \ {0}
  BY <1>1, <1>2, <1>3 DEF Typed, TypeInv
<1>7. txn' \in Writers \cup {Free, "sender"}
  BY DEF AssignIds, Typed, TypeInv
<1>8. TypeInv'
  BY <1>1, <1>6, <1>7 DEF Typed, TypeInv, AssignIds, stored, outside
<1> QED  BY <1>1, <1>3, <1>5, <1>8 DEF Typed, OffInv

LEMMA TypedInsert ==
  ASSUME Typed, NEW w \in Writers, Insert(w) PROVE Typed'
<1> DEFINE h == [handles[w] EXCEPT !.pc = "done", !.rows = {},
                                   !.lastid = LastId(handles[w].rows)]
<1>1. /\ handles[w].pc = "insert" /\ proxy' = proxy
      /\ handles' = [handles EXCEPT ![w] = h] /\ pb' = pb
  BY DEF Insert, SetHandle, outside
<1>2. /\ handles[w] \in Handle /\ handles[w].rows \in FiniteRows
      /\ LastId(handles[w].rows) \in Nat /\ {} \in FiniteRows
      /\ Values(handles[w].rows) \subseteq Nat
  BY TypedHandles, RowSets DEF Typed
<1>3. h \in Handle /\ IsDb(h) /\ IsDb(handles[w]) /\ proxy.pc # "off"
  BY <1>1, <1>2 DEF Handle, IsDb, Typed, OffInv
<1> HIDE DEF h
<1>4. pb.db_handles_num \in Nat
  BY DEF Typed, TypeInv, Buffer
<1>5. CountInv'
  BY <1>1, <1>3, <1>4, CountHandle DEF Typed
<1>6. handles' \in [Writers -> Handle]
  BY <1>1, <1>3 DEF Typed, TypeInv
<1>7. txn' \in Writers \cup {Free, "sender"}
  BY DEF Insert, Typed, TypeInv
<1>8. table' \in FiniteRows /\ discarded' \subseteq Nat
  <2>1. table \in FiniteRows /\ discarded \subseteq Nat
    BY DEF Typed, TypeInv
  <2>2. \/ table' = table \cup handles[w].rows /\ discarded' = discarded
        \/ table' = table /\ discarded' = discarded \cup Values(handles[w].rows)
    BY DEF Insert
  <2>3. table \cup handles[w].rows \in FiniteRows
    BY <1>2, <2>1, RowSets
  <2> QED  BY <1>2, <2>1, <2>2, <2>3
<1>9. TypeInv'
  BY <1>1, <1>6, <1>7, <1>8 DEF Typed, TypeInv, Insert, outside
<1> QED  BY <1>1, <1>3, <1>5, <1>9 DEF Typed, OffInv

LEMMA TypedClose ==
  ASSUME Typed, NEW w \in Writers, Close(w) PROVE Typed'
<1>1. /\ handles[w].pc = "done" /\ proxy' = proxy
      /\ handles' = [handles EXCEPT ![w] = IdleHandle]
      /\ sender' = [sender EXCEPT !.waiting = @ \ {w}]
      /\ pb' = [pb EXCEPT !.history_lastid_db = Larger(@, handles[w].lastid),
                          !.db_handles_num = @ - 1]
  BY DEF Close, Deregister, SetHandle, outside
<1>2. IdleHandle \in Handle /\ ~IsDb(IdleHandle) /\ IsDb(handles[w]) /\ proxy.pc # "off"
      /\ handles[w].lastid \in Nat
  BY <1>1, TypedHandles DEF IdleHandle, IsDb, Typed, OffInv
<1>3. pb \in Buffer /\ pb.db_handles_num \in Nat /\ pb.history_lastid_db \in Nat
  BY DEF Typed, TypeInv, Buffer
<1>4. Larger(pb.history_lastid_db, handles[w].lastid) \in Nat
  BY <1>2, <1>3 DEF Larger
<1>5. pb'.db_handles_num = pb.db_handles_num - 1
  BY <1>1, <1>3 DEF Buffer
<1>6. CountInv' /\ pb'.db_handles_num \in Nat
  BY <1>1, <1>2, <1>3, <1>5, CountHandle DEF Typed
<1>7. pb' \in Buffer
  BY <1>1, <1>3, <1>4, <1>6 DEF Buffer
<1>8. sender' \in Sender /\ handles' \in [Writers -> Handle]
  BY <1>1, <1>2 DEF Typed, TypeInv, Sender
<1>9. TypeInv'
  BY <1>1, <1>7, <1>8 DEF Typed, TypeInv, Close, stored, outside
<1> QED  BY <1>1, <1>2, <1>6, <1>9 DEF Typed, OffInv

(* A step of the sender changes no handle. *)
LEMMA TypedSender ==
  ASSUME Typed, handles' = handles, proxy' = proxy, proxy.pc # "off",
         pb' \in Buffer, pb'.db_handles_num = pb.db_handles_num,
         history' \in FiniteRows, lastid_stored' \in Nat, sender' \in Sender,
         server' \in [last_id : Nat, received : SUBSET Nat],
         txn' \in Writers \cup {Free, "sender"},
         UNCHANGED <<table, lock, nextid, nextvalue, discarded>>
  PROVE  Typed'
<1>1. CountInv'
  BY CountSame DEF Typed
<1>2. TypeInv'
  BY DEF Typed, TypeInv
<1> QED  BY <1>1, <1>2 DEF Typed, OffInv

(* What a sender that is not idle has. *)
LEMMA SenderFacts ==
  ASSUME Typed
  PROVE  /\ sender \in Sender /\ sender.rows \in FiniteRows /\ sender.lastid \in Nat
         /\ sender.gapid \in Nat /\ IdleSender \in Sender /\ LastId(sender.rows) \in Nat
         /\ sender.pc # "idle" => proxy.pc # "off"
         /\ pb \in Buffer /\ history \in FiniteRows /\ table \in FiniteRows
         /\ lastid_stored \in Nat /\ server \in [last_id : Nat, received : SUBSET Nat]
         /\ txn \in Writers \cup {Free, "sender"} /\ pb.history_lastid_sent \in Nat
<1>1. sender \in Sender /\ sender.rows \in FiniteRows /\ sender.lastid \in Nat
      /\ sender.gapid \in Nat
  BY DEF Typed, TypeInv, Sender
<1>2. IdleSender \in Sender /\ LastId(sender.rows) \in Nat
  BY <1>1, RowSets DEF IdleSender, Sender
<1> QED  BY <1>1, <1>2 DEF Typed, OffInv, TypeInv, Buffer

LEMMA TypedGetRows == ASSUME Typed, GetRows PROVE Typed'
<1>1. /\ proxy.pc # "off"
      /\ UNCHANGED <<pb, history, lock, stored, nextid, txn, handles, outside, discarded>>
  BY DEF GetRows, Running
<1>2. First(history, Limit) \in FiniteRows /\ (Cardinality(history) >= Limit) \in BOOLEAN
  BY SenderFacts, RowSets, BufferAssumption
<1>3. sender' \in Sender
  <2>1. CASE sender' = [sender EXCEPT !.pc = "upload", !.rows = First(history, Limit),
                                      !.more = Cardinality(history) >= Limit]
    BY <1>2, <2>1, SenderFacts DEF Sender
  <2>2. CASE sender' = [sender EXCEPT !.pc = "select", !.lastid = lastid_stored]
    BY <2>2, SenderFacts DEF Sender
  <2> QED  BY <2>1, <2>2 DEF GetRows, SetSender
<1> QED  BY <1>1, <1>3, SenderFacts, TypedSender DEF stored, outside

LEMMA SelectedRows ==
  ASSUME Typed
  PROVE  /\ Selected \in FiniteRows /\ Selected \subseteq table
         /\ \A r \in Selected : r.id > sender.lastid
         /\ \A r \in Selected, q \in table :
              q.id > sender.lastid /\ q.id <= r.id => q \in Selected
<1> DEFINE R == {r \in table : r.id > sender.lastid}
           n == Limit - Cardinality(sender.rows)
<1>1. R \in FiniteRows /\ n \in Int
  <2>1. R \in SUBSET table
    OBVIOUS
  <2>2. R \in FiniteRows
    <3> HIDE DEF R
    <3> QED  BY <2>1, SenderFacts, RowSets
  <2>3. Cardinality(sender.rows) \in Nat /\ Limit \in Nat
    BY SenderFacts, RowSets, BufferAssumption
  <2> QED  BY <2>2, <2>3
<1>2. Selected = First(R, n)
  BY DEF Selected
<1>3. /\ First(R, n) \in FiniteRows /\ First(R, n) \subseteq R
      /\ \A r \in First(R, n), q \in R : q.id <= r.id => q \in First(R, n)
  <2> HIDE DEF R, n
  <2> QED  BY <1>1, FirstRows, RowSets DEF FiniteRows
<1>4. \A q \in table : q.id > sender.lastid => q \in R
  OBVIOUS
<1>5. \A r \in R : r \in table /\ r.id > sender.lastid
  OBVIOUS
<1> HIDE DEF R, n
<1> QED  BY <1>2, <1>3, <1>4, <1>5

(* What Select takes, and the gaps it sees. *)
Gaps == {r \in Selected : Gap(r)}
Taken == {r \in Selected : \A g \in Gaps : r.id < g.id}

LEMMA TypedSelect == ASSUME Typed, Select PROVE Typed'
<1>1. /\ sender.pc = "select"
      /\ UNCHANGED <<pb, history, lock, stored, nextid, txn, handles, outside, discarded>>
  BY DEF Select
<1>2. Gaps \in FiniteRows /\ Taken \in FiniteRows /\ sender.rows \cup Taken \in FiniteRows
  <2>1. Gaps \in FiniteRows /\ Taken \in FiniteRows
    BY SelectedRows, RowSets DEF Gaps, Taken
  <2> QED  BY <2>1, SenderFacts, RowSets
<1>3. LastId(Taken) \in Nat /\ LastId(First(Gaps, 1)) \in Nat
  <2>1. First(Gaps, 1) \in FiniteRows
    BY <1>2, RowSets
  <2> QED  BY <1>2, <2>1, RowSets
<1>4. Larger(sender.lastid, LastId(Taken)) \in Nat
  BY <1>3, SenderFacts DEF Larger
<1>5. \/ sender' = [sender EXCEPT !.pc = "upload", !.rows = sender.rows \cup Taken,
                                  !.more = Cardinality(sender.rows \cup Taken) = Limit,
                                  !.lastid = 0, !.gapid = 0]
      \/ sender' = [sender EXCEPT !.pc = "wait", !.rows = sender.rows \cup Taken,
                      !.lastid = Larger(@, LastId(Taken)),
                      !.gapid = LastId(First(Gaps, 1)),
                      !.waiting = {w \in Writers : handles[w].pc # "idle"}]
  BY DEF Select, SetSender, Gaps, Taken
<1>6. sender' \in Sender
  <2> DEFINE all == sender.rows \cup Taken
             more == Cardinality(all) = Limit
             last == Larger(sender.lastid, LastId(Taken))
             gap == LastId(First(Gaps, 1))
             open == {w \in Writers : handles[w].pc # "idle"}
  <2>1. all \in FiniteRows /\ more \in BOOLEAN /\ last \in Nat /\ gap \in Nat
        /\ open \in SUBSET Writers
    BY <1>2, <1>3, <1>4
  <2>2. \/ sender' = [sender EXCEPT !.pc = "upload", !.rows = all, !.more = more,
                                    !.lastid = 0, !.gapid = 0]
        \/ sender' = [sender EXCEPT !.pc = "wait", !.rows = all, !.lastid = last,
                                    !.gapid = gap, !.waiting = open]
    BY <1>5
  <2> HIDE DEF all, more, last, gap, open
  <2>3. CASE sender' = [sender EXCEPT !.pc = "upload", !.rows = all, !.more = more,
                                      !.lastid = 0, !.gapid = 0]
    BY <2>1, <2>3, SenderFacts DEF Sender
  <2>4. CASE sender' = [sender EXCEPT !.pc = "wait", !.rows = all, !.lastid = last,
                                      !.gapid = gap, !.waiting = open]
    BY <2>1, <2>4, SenderFacts DEF Sender
  <2> QED  BY <2>2, <2>3, <2>4
<1> QED  BY <1>1, <1>6, SenderFacts, TypedSender DEF stored, outside

LEMMA TypedWaitHandles == ASSUME Typed, WaitHandles PROVE Typed'
<1>1. sender' \in Sender /\ sender.pc = "wait"
  BY SenderFacts DEF WaitHandles, SetSender, Sender
<1> QED  BY <1>1, SenderFacts, TypedSender DEF WaitHandles, stored, outside

LEMMA ReceivedType ==
  ASSUME Typed
  PROVE  /\ Received \in [last_id : Nat, received : SUBSET Nat]
         /\ Received.last_id = Larger(server.last_id, LastId(sender.rows))
         /\ Received.received
              = server.received \union Values({r \in sender.rows : r.id > server.last_id})
<1>1. Larger(server.last_id, LastId(sender.rows)) \in Nat
  BY SenderFacts DEF Larger
<1>2. {r \in sender.rows : r.id > server.last_id} \in FiniteRows
  <2> DEFINE new == {r \in sender.rows : r.id > server.last_id}
  <2>1. new \in SUBSET sender.rows
    OBVIOUS
  <2> HIDE DEF new
  <2>2. new \in FiniteRows
    BY <2>1, SenderFacts, RowSets
  <2> QED  BY <2>2 DEF new
<1>3. Values({r \in sender.rows : r.id > server.last_id}) \subseteq Nat
  BY <1>2, RowSets
<1>4. server.received \subseteq Nat
  BY SenderFacts
<1> QED  BY <1>1, <1>3, <1>4 DEF Received

LEMMA TypedUpload == ASSUME Typed, Upload PROVE Typed'
<1>1. sender' \in Sender /\ sender.pc = "upload"
  BY SenderFacts DEF Upload, SetSender, Sender
<1>2. server' \in [last_id : Nat, received : SUBSET Nat]
  BY ReceivedType DEF Upload
<1> QED  BY <1>1, <1>2, SenderFacts, TypedSender DEF Upload, stored

LEMMA TypedUploadFails == ASSUME Typed, UploadFails PROVE Typed'
<1>1. sender' \in Sender /\ sender.pc = "upload"
  BY SenderFacts DEF UploadFails, SetSender
<1>2. server' \in [last_id : Nat, received : SUBSET Nat]
  BY ReceivedType, SenderFacts DEF UploadFails
<1> QED  BY <1>1, <1>2, SenderFacts, TypedSender DEF UploadFails, stored

LEMMA TypedBegin == ASSUME Typed, Begin PROVE Typed'
<1>1. sender' \in Sender /\ sender.pc = "begin"
  BY SenderFacts DEF Begin, SetSender, Sender
<1>2. txn' \in Writers \cup {Free, "sender"}
  BY SenderFacts DEF Begin
<1> QED  BY <1>1, <1>2, SenderFacts, TypedSender DEF Begin, stored, outside

LEMMA TypedSetLastid == ASSUME Typed, SetLastid PROVE Typed'
<1>1. sender' \in Sender /\ sender.pc = "commit"
  BY SenderFacts DEF SetLastid, SetSender, Sender
<1>2. txn' \in Writers \cup {Free, "sender"}
  BY SenderFacts DEF SetLastid
<1>3. pb' \in Buffer /\ pb'.db_handles_num = pb.db_handles_num
  <2> DEFINE last == LastId(sender.rows)
  <2>1. pb' = [pb EXCEPT !.history_lastid_sent = last] /\ last \in Nat
    BY SenderFacts DEF SetLastid
  <2> HIDE DEF last
  <2> QED  BY <2>1, SenderFacts DEF Buffer
<1>4. history' \in FiniteRows /\ lastid_stored' \in Nat
  <2>1. Unsent(LastId(sender.rows)) \in FiniteRows
    BY SenderFacts, RowSets DEF Unsent
  <2>2. history' \in {history, Unsent(LastId(sender.rows))}
        /\ lastid_stored' \in {lastid_stored, LastId(sender.rows)}
    BY DEF SetLastid
  <2> QED  BY <2>1, <2>2, SenderFacts
<1> QED  BY <1>1, <1>2, <1>3, <1>4, SenderFacts, TypedSender DEF SetLastid, outside

LEMMA TypedUpdateState == ASSUME Typed, UpdateState PROVE Typed'
<1>1. sender' \in Sender /\ sender.pc = "update"
  BY SenderFacts DEF UpdateState, SetSender
<1>2. pb' \in Buffer /\ pb'.db_handles_num = pb.db_handles_num
  <2>1. NextState \in States
    BY SenderFacts DEF NextState, Buffer, States
  <2>2. pb' \in {pb, [pb EXCEPT !.state = NextState]}
    BY DEF UpdateState
  <2> QED  BY <2>1, <2>2, SenderFacts DEF Buffer
<1>3. lastid_stored' \in Nat
  <2>1. lastid_stored' \in {lastid_stored, pb.history_lastid_sent}
    BY DEF UpdateState
  <2> QED  BY <2>1, SenderFacts
<1> QED  BY <1>1, <1>2, <1>3, SenderFacts, TypedSender DEF UpdateState, outside

LEMMA TypedUpdateSkipped == ASSUME Typed, UpdateSkipped PROVE Typed'
<1>1. sender' \in Sender /\ sender.pc = "update"
  BY SenderFacts DEF UpdateSkipped, SetSender
<1> QED  BY <1>1, SenderFacts, TypedSender DEF UpdateSkipped, stored, outside

LEMMA TypedNext == Typed /\ [Next]_vars => Typed'
<1> SUFFICES ASSUME Typed, [Next]_vars PROVE Typed'
  OBVIOUS
<1>1. CASE UNCHANGED vars
  BY <1>1 DEF vars, Typed, TypeInv, CountInv, DbHandles, OffInv
<1>2. CASE \E w \in Writers : Open(w) \/ Closing(w)
  BY <1>2, TypedOpen, TypedCloseEmpty, TypedCloseMemory, TypedFallback, TypedAssignIds,
     TypedInsert, TypedClose DEF Closing
<1>3. CASE Sending
  BY <1>3, TypedGetRows, TypedSelect, TypedWaitHandles, TypedUpload, TypedUploadFails,
     TypedBegin, TypedSetLastid, TypedUpdateState, TypedUpdateSkipped DEF Sending
<1>4. CASE Start \/ Disable \/ FlushOnExit \/ Crash
  BY <1>4, TypedStart, TypedDisable, TypedFlushOnExit, TypedCrash
<1> QED  BY <1>1, <1>2, <1>3, <1>4 DEF Next

(***************************************************************************)
(* Types, with every number of writers, rows and restarts: among others    *)
(* the number of database handles, which handles of all processes change   *)
(* in shared memory (zbx_pb_history_open, zbx_pb_history_close), never     *)
(* becomes negative.                                                       *)
(***************************************************************************)
THEOREM BufferTypeCorrect == Spec => []TypeOK
<1>1. Typed => TypeOK
  BY TypedOK DEF Typed
<1> QED  BY <1>1, TypedInit, TypedNext, PTL DEF Spec

-----------------------------------------------------------------------------
(***************************************************************************)
(* No value is lost in the proxy buffer.                                   *)
(*                                                                         *)
(* No value is lost because identifiers are given in the order in which    *)
(* rows are uploaded: a row that is on its way to the database has an      *)
(* identifier above everything that was uploaded (the sender stops at a    *)
(* gap and waits for the handles that were open when it saw the gap), and  *)
(* memory rows and database rows never overtake each other.  The invariant *)
(* says this of three numbers, the identifier stored in the database, the  *)
(* one kept in the buffer and the one kept by the server: rows up to it    *)
(* have been received and rows that are on their way are above it.         *)
(***************************************************************************)

-----------------------------------------------------------------------------
(* The invariant. *)

(***************************************************************************)
(* The rows of a handle on their way to the database have identifiers.     *)
(* Env is what the order of identifiers is about: the rows in memory and   *)
(* in the database, the rows on their way, the values received and the     *)
(* next identifier.                                                        *)
(***************************************************************************)
Flight(h) == IF h.pc \in {"insert", "flush"} THEN h.rows ELSE {}

Env == [stored |-> history \cup table, flight |-> [w \in Writers |-> Flight(handles[w])],
        received |-> server.received, next |-> nextid]

(* Rows up to x have been received or are in rows, rows on their way follow. *)
Taking(x, rows, e) ==
  /\ x \in Nat /\ x < e.next
  /\ \A r \in e.stored : r.id <= x => r.value \in e.received \/ r \in rows
  /\ \A w \in Writers : \A r \in e.flight[w] : x < r.id

Ids(e) ==
  /\ \A r \in e.stored : 0 < r.id /\ r.id < e.next
  /\ \A w \in Writers : \A r \in e.flight[w] :
       /\ 0 < r.id /\ r.id < e.next
       /\ \A t \in e.stored : t.id # r.id
       /\ \A v \in Writers \ {w} : \A q \in e.flight[v] : q.id # r.id

(* Every handle whose rows precede the gap is waited for, or has written them. *)
GapWaited(s, e) ==
  /\ s.gapid < e.next
  /\ \A w \in Writers : \/ s.pc = "wait" /\ w \in s.waiting
                        \/ \A r \in e.flight[w] : s.gapid <= r.id

SenderOk(s, e, last_id, src) ==
  /\ s.pc = "idle" => s.rows = {} /\ s.gapid = 0
  /\ s.pc \in {"select", "wait"} =>
       /\ src = "database"
       /\ Taking(s.lastid, s.rows, e)
       /\ \A q \in s.rows : q.id <= s.lastid
       /\ GapWaited(s, e)
  /\ s.pc = "upload" => \A q \in s.rows : Taking(q.id, s.rows, e)
  /\ s.pc \in {"begin", "commit"} => s.rows # {} /\ \A q \in s.rows : q.id <= last_id

IdInv == Ids(Env)
CoverInv == /\ Taking(lastid_stored, {}, Env)
            /\ Taking(pb.history_lastid_sent, {}, Env)
            /\ Taking(server.last_id, {}, Env)
SenderInv == SenderOk(sender, Env, server.last_id, Src(pb.state))

HandleInv ==
  \A w \in Writers :
    /\ handles[w].pc = "flush" => lock = w /\ handles[w].state = "memory"
    /\ handles[w].pc \in {"idle", "done"} => handles[w].rows = {}

(* Rows on their way to the database follow the rows in memory. *)
FlightAfter ==
  \A w \in Writers : \A r \in Flight(handles[w]), x \in history : x.id < r.id

(* In the modes without transitions there is one place for rows. *)
DiskInv ==
  /\ pb.state = "database" /\ history = {}
  /\ \A w \in Writers : handles[w].state = "database" /\ handles[w].pc # "flush"
MemoryInv ==
  /\ pb.state = "memory" /\ table = {} /\ lastid_stored = 0
  /\ \A w \in Writers : \/ handles[w].pc = "idle"
                        \/ handles[w].pc = "open" /\ handles[w].state = "memory"

(* Rows of the database and rows in memory are uploaded one after the other. *)
DatabaseFirst ==
  Src(pb.state) = "database" => /\ DbHandles # {} => history = {}
                                /\ \A t \in table, x \in history : t.id < x.id
MemoryFirst ==
  Src(pb.state) = "memory" =>
    \A t \in table : t.value \in server.received \/ \A x \in history : x.id < t.id
CleanInv ==
  pb.state = "memory" => /\ Values(table) \subseteq server.received
                         /\ proxy.pc = "running" => DbHandles = {}
(* history_lastid_db is above the rows of handles that are closed. *)
LastDbInv ==
  proxy.pc = "running" =>
    \A t \in table : \/ t.id <= pb.history_lastid_db
                     \/ \E w \in Writers : handles[w].pc = "done" /\ t.id <= handles[w].lastid

HybridInv ==
  /\ proxy.pc # "exiting"
  /\ \A w \in Writers : w \notin Syncers["hybrid"] => handles[w].pc = "idle"
  /\ pb.state = "database" => history = {}
  /\ DatabaseFirst /\ MemoryFirst /\ CleanInv /\ LastDbInv

ModeInv ==
  /\ pb.mode = proxy.mode
  /\ proxy.mode = "disk" => DiskInv
  /\ proxy.mode = "memory" => MemoryInv
  /\ proxy.mode = "hybrid" => HybridInv

(* Nothing disappears. *)
Places == server.received \cup discarded \cup Values(history \cup table)
            \cup UNION {Values(handles[w].rows) : w \in Writers}
PlaceInv == Collected \subseteq Places

Safe == /\ Typed /\ HandleInv /\ IdInv /\ CoverInv /\ SenderInv
        /\ FlightAfter /\ ModeInv /\ PlaceInv

(***************************************************************************)
(* The modes in which values keep their order: a hybrid proxy has one      *)
(* history syncer and is not stopped while it runs (with more syncers, or  *)
(* when it is stopped, values may be lost: see the README).                *)
(***************************************************************************)
OrderedModes ==
  "hybrid" \in Modes => /\ "exit" \notin Events["hybrid"]
                        /\ \E w : Syncers["hybrid"] \subseteq {w}

-----------------------------------------------------------------------------
(* The order of identifiers is kept by steps that add rows at its end. *)

IsEnv(e) ==
  /\ e.stored \subseteq Row /\ e.next \in Nat
  /\ \A w \in Writers : e.flight[w] \subseteq Row

Grows(e, f) ==
  /\ e.next <= f.next /\ e.received \subseteq f.received
  /\ \A r \in f.stored : \/ r \in e.stored \/ e.next <= r.id
                         \/ \E w \in Writers : r \in e.flight[w]
  /\ \A w \in Writers : \A r \in f.flight[w] : r \in e.flight[w] \/ e.next <= r.id

EnvTyped ==
  /\ IsEnv(Env) /\ Env.stored = history \cup table /\ Env.next = nextid
  /\ Env.received = server.received
  /\ \A w \in Writers : Env.flight[w] = Flight(handles[w])

LEMMA EnvType == TypeInv => EnvTyped
<1> SUFFICES ASSUME TypeInv PROVE EnvTyped
  OBVIOUS
<1>1. \A w \in Writers : Flight(handles[w]) \subseteq Row
  BY TypedHandles DEF Flight, FiniteRows
<1> QED  BY <1>1 DEF EnvTyped, IsEnv, Env, TypeInv, FiniteRows

LEMMA EnvTypes == ASSUME Typed, Typed' PROVE EnvTyped /\ EnvTyped'
<1>1. TypeInv' => EnvTyped'
  BY EnvType, PTL
<1> QED  BY <1>1, EnvType DEF Typed

LEMMA TakingGrows ==
  ASSUME NEW e, NEW f, IsEnv(e), IsEnv(f), Grows(e, f), NEW x, NEW rows,
         Taking(x, rows, e)
  PROVE  Taking(x, rows, f)
<1>1. x \in Nat /\ x < f.next
  BY DEF Taking, Grows, IsEnv
<1>2. ASSUME NEW r \in f.stored, r.id <= x PROVE r.value \in f.received \/ r \in rows
  <2>1. r.id \in Nat /\ x \in Nat /\ x < e.next /\ e.next \in Nat
    BY DEF IsEnv, Row, Taking
  <2>2. ~(e.next <= r.id)
    BY <1>2, <2>1
  <2>3. r \in e.stored
    BY <1>2, <2>1, <2>2 DEF Grows, Taking
  <2> QED  BY <1>2, <2>3 DEF Grows, Taking
<1>3. ASSUME NEW w \in Writers, NEW r \in f.flight[w] PROVE x < r.id
  <2>1. r.id \in Nat /\ x \in Nat /\ x < e.next /\ e.next \in Nat
    BY DEF IsEnv, Row, Taking
  <2>2. r \in e.flight[w] \/ e.next <= r.id
    BY DEF Grows
  <2> QED  BY <2>1, <2>2 DEF Taking
<1> QED  BY <1>1, <1>2, <1>3 DEF Taking

LEMMA GapGrows ==
  ASSUME NEW e, NEW f, IsEnv(e), IsEnv(f), Grows(e, f), NEW s, s.gapid \in Nat,
         GapWaited(s, e), NEW s2, s2.gapid = s.gapid, s2.pc = s.pc,
         \A w \in s.waiting \ s2.waiting : f.flight[w] = {}
  PROVE  GapWaited(s2, f)
<1>1. s2.gapid < f.next
  BY DEF GapWaited, Grows, IsEnv
<1>2. ASSUME NEW w \in Writers, ~(s2.pc = "wait" /\ w \in s2.waiting), NEW r \in f.flight[w]
      PROVE  s2.gapid <= r.id
  <2>1. r.id \in Nat /\ s.gapid < e.next /\ e.next \in Nat
    BY DEF IsEnv, Row, GapWaited
  <2>2. CASE e.next <= r.id
    BY <2>1, <2>2
  <2>3. CASE r \in e.flight[w]
    <3>1. ~(s.pc = "wait" /\ w \in s.waiting)
      BY <1>2
    <3> QED  BY <2>3, <3>1 DEF GapWaited
  <2> QED  BY <2>2, <2>3 DEF Grows
<1> QED  BY <1>1, <1>2 DEF GapWaited

LEMMA SenderGrows ==
  ASSUME NEW e, NEW f, IsEnv(e), IsEnv(f), Grows(e, f), NEW s \in Sender, NEW last_id, NEW src,
         SenderOk(s, e, last_id, src),
         NEW s2, s2 = s \/ \E w \in Writers : s2 = [s EXCEPT !.waiting = @ \ {w}] /\ f.flight[w] = {},
         NEW src2, src = "database" => src2 = "database"
  PROVE  SenderOk(s2, f, last_id, src2)
<1>1. /\ s2.pc = s.pc /\ s2.rows = s.rows /\ s2.lastid = s.lastid /\ s2.gapid = s.gapid
      /\ s.gapid \in Nat
      /\ \A w \in s.waiting \ s2.waiting : f.flight[w] = {}
  BY DEF Sender
<1>2. ASSUME s.pc \in {"select", "wait"}
      PROVE  /\ src2 = "database" /\ Taking(s2.lastid, s2.rows, f)
             /\ \A q \in s2.rows : q.id <= s2.lastid
             /\ GapWaited(s2, f)
  <2>1. /\ src2 = "database" /\ Taking(s.lastid, s.rows, e)
        /\ \A q \in s.rows : q.id <= s.lastid
        /\ GapWaited(s, e)
    BY <1>2 DEF SenderOk
  <2>2. Taking(s.lastid, s.rows, f)
    BY <2>1, TakingGrows
  <2>3. GapWaited(s2, f)
    BY <1>1, <2>1, GapGrows
  <2> QED  BY <1>1, <2>1, <2>2, <2>3
<1>3. ASSUME s.pc = "upload", NEW q \in s2.rows PROVE Taking(q.id, s2.rows, f)
  <2>1. Taking(q.id, s.rows, e)
    BY <1>1, <1>3 DEF SenderOk
  <2> QED  BY <1>1, <2>1, TakingGrows
<1> QED  BY <1>1, <1>2, <1>3 DEF SenderOk

(* Taking is kept by a smaller identifier and by more rows. *)
LEMMA TakingLess ==
  ASSUME NEW e, IsEnv(e), NEW x, NEW rows, Taking(x, rows, e), NEW y \in Nat, y <= x,
         NEW more, rows \subseteq more
  PROVE  Taking(y, more, e)
<1>1. x \in Nat /\ e.next \in Nat
  BY DEF Taking, IsEnv
<1>2. \A r \in e.stored : r.id \in Nat
  BY DEF IsEnv, Row
<1>3. \A w \in Writers : \A r \in e.flight[w] : r.id \in Nat
  BY DEF IsEnv, Row
<1>4. y < e.next
  BY <1>1 DEF Taking
<1>5. ASSUME NEW r \in e.stored, r.id <= y PROVE r.value \in e.received \/ r \in more
  <2>1. r.id <= x
    BY <1>1, <1>2, <1>5
  <2> QED  BY <2>1 DEF Taking
<1>6. ASSUME NEW w \in Writers, NEW r \in e.flight[w] PROVE y < r.id
  <2>1. x < r.id
    BY DEF Taking
  <2> QED  BY <1>1, <1>3, <2>1
<1> QED  BY <1>4, <1>5, <1>6 DEF Taking

(* A sender that is idle or about to update the state keeps nothing. *)
LEMMA SenderRests ==
  ASSUME NEW e, NEW last_id, NEW src, NEW s,
         \/ s.pc = "update"
         \/ s.pc = "idle" /\ s.rows = {} /\ s.gapid = 0
  PROVE  SenderOk(s, e, last_id, src)
BY DEF SenderOk

(* The order of identifiers after a step that is not one of the sender. *)
OrderInv == IdInv /\ CoverInv /\ SenderInv

LEMMA CoverGrows ==
  ASSUME Typed, Typed', CoverInv, Grows(Env, Env'),
         pb'.history_lastid_sent \in {pb.history_lastid_sent, lastid_stored},
         lastid_stored' \in {lastid_stored, pb.history_lastid_sent},
         server'.last_id = server.last_id
  PROVE  CoverInv'
<1>1. IsEnv(Env) /\ IsEnv(Env')
  BY EnvTypes DEF EnvTyped
<1>2. ASSUME NEW x, Taking(x, {}, Env) PROVE Taking(x, {}, Env')
  BY <1>1, <1>2, TakingGrows
<1>3. Taking(lastid_stored, {}, Env')
  BY <1>2 DEF CoverInv
<1>4. Taking(pb.history_lastid_sent, {}, Env')
  BY <1>2 DEF CoverInv
<1>5. Taking(server.last_id, {}, Env')
  BY <1>2 DEF CoverInv
<1>6. Taking(lastid_stored', {}, Env')
  BY <1>3, <1>4
<1>7. Taking(pb'.history_lastid_sent, {}, Env')
  BY <1>3, <1>4
<1> QED  BY <1>5, <1>6, <1>7 DEF CoverInv

LEMMA OrderKept ==
  ASSUME Typed, Typed', OrderInv, Grows(Env, Env'), Ids(Env'), server' = server,
         pb'.history_lastid_sent = pb.history_lastid_sent,
         lastid_stored' \in {lastid_stored, pb.history_lastid_sent},
         Src(pb.state) = "database" => Src(pb'.state) = "database",
         \/ sender' = sender
         \/ \E w \in Writers : /\ sender' = [sender EXCEPT !.waiting = @ \ {w}]
                               /\ Flight(handles'[w]) = {}
  PROVE  OrderInv'
<1>1. /\ IsEnv(Env) /\ IsEnv(Env')
      /\ \A w \in Writers : Env'.flight[w] = Flight(handles'[w])
  BY EnvTypes DEF EnvTyped
<1>2. IdInv'
  BY DEF IdInv
<1>3. CoverInv'
  BY CoverGrows DEF OrderInv
<1>4. SenderInv'
  <2>1. SenderOk(sender, Env, server.last_id, Src(pb.state)) /\ sender \in Sender
    BY SenderFacts DEF OrderInv, SenderInv
  <2>2. \/ sender' = sender
        \/ \E w \in Writers : /\ sender' = [sender EXCEPT !.waiting = @ \ {w}]
                              /\ Env'.flight[w] = {}
    BY <1>1
  <2>3. SenderOk(sender', Env', server.last_id, Src(pb'.state))
    BY <1>1, <2>1, <2>2, SenderGrows
  <2> QED  BY <2>3 DEF SenderInv
<1> QED  BY <1>2, <1>3, <1>4 DEF OrderInv

(* Nothing of the order changes. *)
LEMMA EnvSame ==
  ASSUME Typed, Typed', history' \cup table' = history \cup table, nextid' = nextid,
         server'.received = server.received,
         \A w \in Writers : Flight(handles'[w]) = Flight(handles[w])
  PROVE  Env' = Env /\ Grows(Env, Env')
<1>1. [w \in Writers |-> Flight(handles'[w])] = [w \in Writers |-> Flight(handles[w])]
  OBVIOUS
<1>2. Env' = Env
  BY <1>1 DEF Env
<1>3. nextid \in Nat
  BY DEF Typed, TypeInv
<1> QED  BY <1>2, <1>3, EnvTypes DEF Grows, EnvTyped

-----------------------------------------------------------------------------
(* The history syncers. *)

LEMMA ProxyModes == ASSUME Typed PROVE proxy.mode \in Modes /\ proxy.mode \in {"disk", "memory", "hybrid"}
  BY BufferAssumption DEF Typed, TypeInv

(* A hybrid proxy has one handle at a time. *)
LEMMA Alone ==
  ASSUME Typed, ModeInv, OrderedModes, proxy.mode = "hybrid",
         NEW w \in Writers, handles[w].pc # "idle"
  PROVE  \A v \in Writers : v # w => handles[v].pc = "idle"
<1>1. "hybrid" \in Modes
  BY ProxyModes
<1>2. PICK u : Syncers["hybrid"] \subseteq {u}
  BY <1>1 DEF OrderedModes
<1> QED  BY <1>2 DEF ModeInv, HybridInv

(* Database handles after one handle has changed. *)
LEMMA DbHandleStep ==
  ASSUME NEW w \in Writers, \A v \in Writers \ {w} : handles'[v] = handles[v]
  PROVE  /\ DbHandles' \subseteq DbHandles \cup {w}
         /\ ~IsDb(handles'[w]) => DbHandles' \subseteq DbHandles \ {w}
         /\ IsDb(handles[w]) => DbHandles' \subseteq DbHandles
BY DEF DbHandles

(* The mode's invariant when rows stay where they are. *)
LEMMA ModeHandle ==
  ASSUME Typed, Typed', ModeInv,
         UNCHANGED <<history, table, lastid_stored, proxy, server>>,
         pb'.state = pb.state, pb'.mode = pb.mode, pb.history_lastid_db <= pb'.history_lastid_db,
         NEW w \in Writers, \A v \in Writers \ {w} : handles'[v] = handles[v],
         handles'[w].pc # "idle" => handles[w].pc # "idle" \/ w \in Syncers[proxy.mode],
         proxy.mode = "disk" => handles'[w].state = "database" /\ handles'[w].pc # "flush",
         proxy.mode = "memory" => \/ handles'[w].pc = "idle"
                                  \/ handles'[w].pc = "open" /\ handles'[w].state = "memory",
         IsDb(handles'[w]) => IsDb(handles[w]) \/ Dst(pb.state) = "database",
         handles[w].pc = "done" => \/ handles'[w] = handles[w]
                                   \/ handles[w].lastid <= pb'.history_lastid_db
  PROVE  ModeInv'
<1>1. DbHandles' \subseteq DbHandles \/ Dst(pb.state) = "database"
  BY DEF DbHandles
<1>2. pb.state \in States
  BY DEF Typed, TypeInv, Buffer
<1>3. ASSUME proxy.mode = "disk" PROVE DiskInv'
  BY <1>3 DEF ModeInv, DiskInv
<1>4. ASSUME proxy.mode = "memory" PROVE MemoryInv'
  BY <1>4 DEF ModeInv, MemoryInv
<1>5. ASSUME proxy.mode = "hybrid" PROVE HybridInv'
  <2>1. HybridInv
    BY <1>5 DEF ModeInv
  <2>2. DatabaseFirst'
    <3>1. CASE Dst(pb.state) = "database"
      BY <1>2, <2>1, <3>1 DEF HybridInv, DatabaseFirst, Dst, Src, States
    <3>2. CASE DbHandles' \subseteq DbHandles
      BY <2>1, <3>2 DEF HybridInv, DatabaseFirst
    <3> QED  BY <1>1, <3>1, <3>2
  <2>3. MemoryFirst'
    BY <2>1 DEF HybridInv, MemoryFirst
  <2>4. CleanInv'
    BY <1>1, <2>1 DEF HybridInv, CleanInv, Dst
  <2>5. LastDbInv'
    <3>1. SUFFICES ASSUME proxy.pc = "running", NEW t \in table
                   PROVE  \/ t.id <= pb'.history_lastid_db
                          \/ \E v \in Writers : handles'[v].pc = "done" /\ t.id <= handles'[v].lastid
      BY DEF LastDbInv
    <3>2. t.id \in Nat /\ pb.history_lastid_db \in Nat /\ pb'.history_lastid_db \in Nat
      BY DEF Typed, TypeInv, FiniteRows, Row, Buffer
    <3>3. CASE t.id <= pb.history_lastid_db
      BY <3>2, <3>3
    <3>4. ASSUME NEW v \in Writers, handles[v].pc = "done", t.id <= handles[v].lastid
          PROVE  \/ t.id <= pb'.history_lastid_db
                 \/ \E u \in Writers : handles'[u].pc = "done" /\ t.id <= handles'[u].lastid
      <4>1. handles[v].lastid \in Nat
        BY TypedHandles DEF Typed
      <4>2. CASE handles'[v] = handles[v]
        BY <3>4, <4>2
      <4>3. CASE v = w /\ handles[w].lastid <= pb'.history_lastid_db
        BY <3>2, <3>4, <4>1, <4>3
      <4> QED  BY <3>4, <4>2, <4>3
    <3> QED  BY <2>1, <3>1, <3>3, <3>4 DEF HybridInv, LastDbInv
  <2> QED  BY <1>5, <2>1, <2>2, <2>3, <2>4, <2>5 DEF HybridInv
<1> QED  BY <1>3, <1>4, <1>5 DEF ModeInv

LEMMA SafeOpen ==
  ASSUME Safe, NEW w \in Writers, Open(w) PROVE Safe'
<1>1. Typed /\ Typed'
  BY TypedOpen DEF Safe
<1>2. /\ handles[w].pc = "idle" /\ w \in Syncers[proxy.mode]
      /\ UNCHANGED <<history, lock, stored, nextid, txn, sender, server, proxy, discarded>>
  BY DEF Open
<1>3. PICK n \in 0..MaxBatch :
        /\ nextvalue' = nextvalue + n
        /\ handles' = [handles EXCEPT ![w] =
             [pc |-> "open", state |-> Dst(pb.state), lastid |-> 0,
              rows |-> {[id |-> 0, value |-> nextvalue + i] : i \in 0..n - 1}]]
  BY DEF Open, SetHandle
<1>4. /\ handles'[w].pc = "open" /\ handles'[w].state = Dst(pb.state)
      /\ handles'[w].rows = {[id |-> 0, value |-> nextvalue + i] : i \in 0..n - 1}
      /\ \A v \in Writers \ {w} : handles'[v] = handles[v]
  BY <1>1, <1>3 DEF Typed, TypeInv
<1>5. /\ pb'.state = pb.state /\ pb'.mode = pb.mode
      /\ pb'.history_lastid_sent = pb.history_lastid_sent
      /\ pb'.history_lastid_db = pb.history_lastid_db
  BY <1>1 DEF Open, Typed, TypeInv, Buffer
<1>6. \A v \in Writers : Flight(handles'[v]) = Flight(handles[v])
  BY <1>2, <1>4 DEF Flight
<1>7. Env' = Env /\ Grows(Env, Env')
  BY <1>1, <1>2, <1>6, EnvSame DEF stored
<1>8. OrderInv'
  BY <1>1, <1>2, <1>5, <1>7, OrderKept DEF Safe, OrderInv, IdInv, stored
<1>9. HandleInv'
  BY <1>2, <1>4 DEF Safe, HandleInv
<1>10. FlightAfter'
  BY <1>2, <1>6 DEF Safe, FlightAfter
<1>11. ModeInv'
  <2>1. pb.history_lastid_db <= pb'.history_lastid_db
    BY <1>1, <1>5 DEF Typed, TypeInv, Buffer
  <2>2. IsDb(handles'[w]) => Dst(pb.state) = "database"
    BY <1>4 DEF IsDb
  <2>3. /\ proxy.mode = "disk" => handles'[w].state = "database"
        /\ proxy.mode = "memory" => handles'[w].state = "memory"
    BY <1>4 DEF Safe, ModeInv, DiskInv, MemoryInv, Dst
  <2> QED  BY <1>1, <1>2, <1>4, <1>5, <2>1, <2>2, <2>3, ModeHandle DEF Safe, stored
<1>12. PlaceInv'
  <2>1. SUFFICES ASSUME NEW x \in Collected' PROVE x \in Places'
    BY DEF PlaceInv
  <2>2. CASE x \in Collected
    <3>1. x \in Places
      BY <2>2 DEF Safe, PlaceInv
    <3>2. \A v \in Writers : Values(handles[v].rows) \subseteq Values(handles'[v].rows)
      BY <1>2, <1>4 DEF Safe, HandleInv, Values
    <3> QED  BY <1>2, <3>1, <3>2 DEF Places, stored
  <2>3. CASE x \notin Collected
    <3>1. nextvalue \in Nat \ {0} /\ n \in Nat /\ x \in Nat
      BY <1>1, <1>3, BufferAssumption DEF Typed, TypeInv, Collected
    <3>2. x - nextvalue \in 0..n - 1 /\ x = nextvalue + (x - nextvalue)
      BY <1>3, <2>3, <3>1 DEF Collected
    <3>3. [id |-> 0, value |-> nextvalue + (x - nextvalue)] \in handles'[w].rows
      BY <1>4, <3>2
    <3>4. x \in Values(handles'[w].rows)
      BY <3>2, <3>3 DEF Values
    <3> QED  BY <3>4 DEF Places
  <2> QED  BY <2>2, <2>3
<1> QED  BY <1>1, <1>8, <1>9, <1>10, <1>11, <1>12 DEF Safe, OrderInv

(* Nothing disappears when what was in every place is in some place. *)
LEMMA PlacesKept ==
  ASSUME PlaceInv, nextvalue' = nextvalue,
         server.received \cup discarded \subseteq Places',
         \A r \in history \cup table : r.value \in Places',
         \A w \in Writers : \A r \in handles[w].rows : r.value \in Places'
  PROVE  PlaceInv'
<1>1. Values(history \cup table) \subseteq Places'
  BY DEF Values
<1>2. \A w \in Writers : Values(handles[w].rows) \subseteq Places'
  BY DEF Values
<1>3. Places \subseteq Places'
  BY <1>1, <1>2 DEF Places
<1>4. Collected' = Collected
  BY DEF Collected
<1> QED  BY <1>3, <1>4 DEF PlaceInv

(* Where a value is. *)
LEMMA InPlaces ==
  /\ server'.received \cup discarded' \subseteq Places'
  /\ \A r \in (history \cup table)' : r.value \in Places'
  /\ \A w \in Writers : \A r \in handles'[w].rows : r.value \in Places'
BY DEF Places, Values

LEMMA SafeCloseEmpty ==
  ASSUME Safe, NEW w \in Writers, CloseEmpty(w) PROVE Safe'
<1>1. Typed /\ Typed'
  BY TypedCloseEmpty DEF Safe
<1>2. /\ handles[w].pc = "open" /\ handles[w].state = "memory" /\ handles[w].rows = {}
      /\ handles' = [handles EXCEPT ![w] = IdleHandle]
      /\ sender' = [sender EXCEPT !.waiting = @ \ {w}]
      /\ UNCHANGED <<pb, history, lock, stored, nextid, txn, outside, discarded>>
  BY DEF CloseEmpty, Deregister, SetHandle
<1>3. /\ handles'[w].pc = "idle" /\ handles'[w].state = "database" /\ handles'[w].rows = {}
      /\ \A v \in Writers \ {w} : handles'[v] = handles[v]
  BY <1>1, <1>2 DEF Typed, TypeInv, IdleHandle
<1>4. Flight(handles'[w]) = {} /\ \A v \in Writers : Flight(handles'[v]) = Flight(handles[v])
  BY <1>2, <1>3 DEF Flight
<1>5. Env' = Env /\ Grows(Env, Env')
  BY <1>1, <1>2, <1>4, EnvSame DEF stored, outside
<1>6. OrderInv'
  BY <1>1, <1>2, <1>4, <1>5, OrderKept DEF Safe, OrderInv, IdInv, stored, outside
<1>7. HandleInv' /\ FlightAfter'
  BY <1>2, <1>3, <1>4 DEF Safe, HandleInv, FlightAfter
<1>8. ModeInv'
  <2>1. pb.history_lastid_db <= pb'.history_lastid_db /\ ~IsDb(handles'[w])
    BY <1>1, <1>2, <1>3 DEF Typed, TypeInv, Buffer, IsDb
  <2> QED  BY <1>1, <1>2, <1>3, <2>1, ModeHandle DEF Safe, stored, outside
<1>9. PlaceInv'
  BY <1>2, <1>3, InPlaces, PlacesKept DEF Safe, stored, outside
<1> QED  BY <1>1, <1>6, <1>7, <1>8, <1>9 DEF Safe, OrderInv

LEMMA SafeClose ==
  ASSUME Safe, NEW w \in Writers, Close(w) PROVE Safe'
<1>1. Typed /\ Typed'
  BY TypedClose DEF Safe
<1>2. /\ handles[w].pc = "done" /\ handles[w].rows = {}
      /\ handles' = [handles EXCEPT ![w] = IdleHandle]
      /\ sender' = [sender EXCEPT !.waiting = @ \ {w}]
      /\ UNCHANGED <<history, lock, stored, nextid, txn, outside, discarded>>
  BY DEF Close, Deregister, SetHandle, Safe, HandleInv
<1>3. /\ handles'[w].pc = "idle" /\ handles'[w].state = "database" /\ handles'[w].rows = {}
      /\ \A v \in Writers \ {w} : handles'[v] = handles[v]
  BY <1>1, <1>2 DEF Typed, TypeInv, IdleHandle
<1>4. /\ pb'.state = pb.state /\ pb'.mode = pb.mode
      /\ pb'.history_lastid_sent = pb.history_lastid_sent
      /\ pb'.history_lastid_db = Larger(pb.history_lastid_db, handles[w].lastid)
  BY <1>1 DEF Close, Typed, TypeInv, Buffer
<1>5. Flight(handles'[w]) = {} /\ \A v \in Writers : Flight(handles'[v]) = Flight(handles[v])
  BY <1>2, <1>3 DEF Flight
<1>6. Env' = Env /\ Grows(Env, Env')
  BY <1>1, <1>2, <1>5, EnvSame DEF stored, outside
<1>7. OrderInv'
  BY <1>1, <1>2, <1>4, <1>5, <1>6, OrderKept DEF Safe, OrderInv, IdInv, stored, outside
<1>8. HandleInv' /\ FlightAfter'
  BY <1>2, <1>3, <1>5 DEF Safe, HandleInv, FlightAfter
<1>9. ModeInv'
  <2>1. /\ pb.history_lastid_db <= pb'.history_lastid_db
        /\ handles[w].lastid <= pb'.history_lastid_db
    <3>1. pb.history_lastid_db \in Int /\ handles[w].lastid \in Int
      BY <1>1, TypedHandles DEF Typed, TypeInv, Buffer
    <3> QED  BY <1>4, <3>1, LargerType
  <2>2. ~IsDb(handles'[w])
    BY <1>3 DEF IsDb
  <2> QED  BY <1>1, <1>2, <1>3, <1>4, <2>1, <2>2, ModeHandle DEF Safe, stored, outside
<1>10. PlaceInv'
  BY <1>2, <1>3, InPlaces, PlacesKept DEF Safe, stored, outside
<1> QED  BY <1>1, <1>7, <1>8, <1>9, <1>10 DEF Safe, OrderInv

(* New identifiers follow all others. *)
LEMMA NewRows ==
  ASSUME Typed, NEW w \in Writers, NEW rows, rows = Numbered(handles[w].rows, nextid),
         nextid' = nextid + Cardinality(handles[w].rows)
  PROVE  /\ nextid \in Nat \ {0} /\ nextid' \in Nat /\ nextid <= nextid'
         /\ rows \in FiniteRows /\ Values(rows) = Values(handles[w].rows)
         /\ \A r \in rows : r \in Row /\ r.id \in Nat /\ nextid <= r.id /\ r.id < nextid'
<1>1. handles[w].rows \in FiniteRows /\ nextid \in Nat \ {0}
  BY TypedHandles DEF Typed, TypeInv
<1>2. /\ rows \in FiniteRows /\ Values(rows) = Values(handles[w].rows)
      /\ \A r \in rows : nextid <= r.id /\ r.id < nextid'
      /\ Cardinality(handles[w].rows) \in Nat
  BY <1>1, NumberedRows DEF FiniteRows
<1>3. \A r \in rows : r \in Row /\ r.id \in Nat
  BY <1>2 DEF FiniteRows, Row
<1> QED  BY <1>1, <1>2, <1>3

LEMMA SafeAssignIds ==
  ASSUME Safe, NEW w \in Writers, AssignIds(w) PROVE Safe'
<1> DEFINE rows == Numbered(handles[w].rows, nextid)
<1>1. Typed /\ Typed'
  BY TypedAssignIds DEF Safe
<1>2. /\ handles[w].pc = "open" /\ handles[w].state = "database"
      /\ nextid' = nextid + Cardinality(handles[w].rows)
      /\ handles' = [handles EXCEPT ![w] = [handles[w] EXCEPT !.pc = "insert", !.rows = rows]]
      /\ UNCHANGED <<pb, history, lock, stored, sender, outside, discarded>>
  BY DEF AssignIds, SetHandle
<1>3. /\ handles'[w].pc = "insert" /\ handles'[w].state = "database" /\ handles'[w].rows = rows
      /\ \A v \in Writers \ {w} : handles'[v] = handles[v]
  BY <1>1, <1>2, TypedHandles DEF Typed, TypeInv, Handle
<1>4. /\ nextid \in Nat \ {0} /\ nextid' \in Nat /\ nextid <= nextid'
      /\ rows \in FiniteRows /\ Values(rows) = Values(handles[w].rows)
      /\ \A r \in rows : r \in Row /\ r.id \in Nat /\ nextid <= r.id /\ r.id < nextid'
  <2> HIDE DEF rows
  <2> QED  BY <1>1, <1>2, NewRows DEF rows
<1> HIDE DEF rows
<1>5. /\ Flight(handles'[w]) = rows /\ Flight(handles[w]) = {}
      /\ \A v \in Writers \ {w} : Flight(handles'[v]) = Flight(handles[v])
  BY <1>2, <1>3 DEF Flight
<1>6. EnvTyped /\ EnvTyped'
  BY <1>1, EnvTypes
<1>7. Grows(Env, Env')
  <2>1. /\ Env'.stored = Env.stored /\ Env.next = nextid /\ Env'.next = nextid'
        /\ Env'.received = Env.received /\ Env'.flight[w] = rows
        /\ \A v \in Writers \ {w} : Env'.flight[v] = Env.flight[v]
    BY <1>2, <1>5, <1>6 DEF EnvTyped, stored, outside
  <2> QED  BY <1>4, <2>1 DEF Grows
<1>8. Ids(Env')
  <2>1. \A r \in Env.stored : r.id \in Nat /\ 0 < r.id /\ r.id < nextid
    BY <1>6 DEF Safe, IdInv, Ids, EnvTyped, IsEnv, Row
  <2>2. \A v \in Writers : \A r \in Env.flight[v] : r.id \in Nat /\ 0 < r.id /\ r.id < nextid
    BY <1>6 DEF Safe, IdInv, Ids, EnvTyped, IsEnv, Row
  <2>3. /\ Env'.stored = Env.stored /\ Env'.next = nextid' /\ Env'.flight[w] = rows
        /\ \A v \in Writers \ {w} : Env'.flight[v] = Env.flight[v]
    BY <1>2, <1>5, <1>6 DEF EnvTyped, stored
  <2>4. ASSUME NEW v \in Writers, NEW r \in Env'.flight[v]
        PROVE  /\ 0 < r.id /\ r.id < Env'.next
               /\ \A t \in Env'.stored : t.id # r.id
               /\ \A u \in Writers \ {v} : \A q \in Env'.flight[u] : q.id # r.id
    <3>1. CASE v = w
      BY <1>4, <2>1, <2>2, <2>3, <2>4, <3>1
    <3>2. CASE v # w
      <4>1. r \in Env.flight[v] /\ r.id \in Nat /\ 0 < r.id /\ r.id < nextid
        BY <2>2, <2>3, <2>4, <3>2
      <4>2. \A q \in Env'.flight[w] : q.id # r.id
        BY <1>4, <2>3, <4>1
      <4>3. \A u \in Writers \ {v} : \A q \in Env.flight[u] : q.id # r.id
        BY <4>1 DEF Safe, IdInv, Ids
      <4>4. \A t \in Env.stored : t.id # r.id
        BY <4>1 DEF Safe, IdInv, Ids
      <4> QED  BY <1>4, <2>3, <4>1, <4>2, <4>3, <4>4
    <3> QED  BY <3>1, <3>2
  <2> QED  BY <1>4, <2>1, <2>3, <2>4 DEF Ids
<1>9. OrderInv'
  BY <1>1, <1>2, <1>7, <1>8, OrderKept DEF Safe, OrderInv, stored, outside
<1>10. HandleInv'
  BY <1>2, <1>3 DEF Safe, HandleInv
<1>11. FlightAfter'
  <2>1. \A x \in history : x.id \in Nat /\ x.id < nextid
    BY <1>1, <1>6 DEF Safe, IdInv, Ids, EnvTyped, Typed, TypeInv, FiniteRows, Row
  <2>2. \A r \in rows, x \in history : x.id < r.id
    BY <1>4, <2>1
  <2>3. \A v \in Writers : Flight(handles'[v]) = Flight(handles[v]) \/ Flight(handles'[v]) = rows
    BY <1>5
  <2> QED  BY <1>2, <2>2, <2>3 DEF Safe, FlightAfter
<1>12. ModeInv'
  <2>1. IsDb(handles[w]) /\ pb.history_lastid_db <= pb'.history_lastid_db
    BY <1>1, <1>2 DEF IsDb, Typed, TypeInv, Buffer
  <2>2. proxy.mode # "memory"
    BY <1>2 DEF Safe, ModeInv, MemoryInv
  <2> QED  BY <1>1, <1>2, <1>3, <2>1, <2>2, ModeHandle DEF Safe, stored, outside
<1>13. PlaceInv'
  <2>1. \A r \in handles[w].rows : \E q \in rows : q.value = r.value
    BY <1>4 DEF Values
  <2> QED  BY <1>2, <1>3, <2>1, InPlaces, PlacesKept DEF Safe, stored, outside
<1> QED  BY <1>1, <1>9, <1>10, <1>11, <1>12, <1>13 DEF Safe, OrderInv

LEMMA SafeInsert ==
  ASSUME Safe, NEW w \in Writers, Insert(w) PROVE Safe'
<1>1. Typed /\ Typed'
  BY TypedInsert DEF Safe
<1>2. /\ handles[w].pc = "insert"
      /\ handles' = [handles EXCEPT ![w] =
           [handles[w] EXCEPT !.pc = "done", !.rows = {}, !.lastid = LastId(handles[w].rows)]]
      /\ UNCHANGED <<pb, history, lock, lastid_stored, nextid, sender, outside>>
      /\ \/ table' = table \cup handles[w].rows /\ discarded' = discarded
         \/ table' = table /\ discarded' = discarded \cup Values(handles[w].rows)
  BY DEF Insert, SetHandle
<1>3. /\ handles'[w].pc = "done" /\ handles'[w].state = handles[w].state
      /\ handles'[w].rows = {} /\ handles'[w].lastid = LastId(handles[w].rows)
      /\ \A v \in Writers \ {w} : handles'[v] = handles[v]
  BY <1>1, <1>2, TypedHandles DEF Typed, TypeInv, Handle
<1>4. /\ Flight(handles'[w]) = {} /\ Flight(handles[w]) = handles[w].rows
      /\ \A v \in Writers \ {w} : Flight(handles'[v]) = Flight(handles[v])
  BY <1>2, <1>3 DEF Flight
<1>5. EnvTyped /\ EnvTyped' /\ Ids(Env)
  BY <1>1, EnvTypes DEF Safe, IdInv
<1>6. /\ Env'.stored \subseteq Env.stored \cup Env.flight[w] /\ Env'.next = Env.next
      /\ Env'.flight[w] = {} /\ \A v \in Writers \ {w} : Env'.flight[v] = Env.flight[v]
      /\ Env'.received = Env.received /\ Env.next \in Nat
  BY <1>2, <1>4, <1>5 DEF EnvTyped, IsEnv, outside
<1>7. Grows(Env, Env')
  BY <1>6 DEF Grows
<1>8. Ids(Env')
  <2>1. \A r \in Env'.stored : 0 < r.id /\ r.id < Env'.next
    BY <1>5, <1>6 DEF Ids
  <2>2. ASSUME NEW v \in Writers \ {w}, NEW r \in Env.flight[v], NEW t \in Env'.stored
        PROVE  t.id # r.id
    BY <1>5, <1>6 DEF Ids
  <2> QED  BY <1>5, <1>6, <2>1, <2>2 DEF Ids
<1>9. OrderInv'
  BY <1>1, <1>2, <1>7, <1>8, OrderKept DEF Safe, OrderInv, outside
<1>10. HandleInv' /\ FlightAfter'
  <2>1. HandleInv'
    BY <1>2, <1>3 DEF Safe, HandleInv
  <2>2. FlightAfter'
    BY <1>2, <1>3, <1>4 DEF Safe, FlightAfter
  <2> QED  BY <2>1, <2>2
<1>11. ModeInv'
  <2>1. ASSUME proxy.mode = "disk" PROVE DiskInv'
    BY <1>2, <1>3, <2>1 DEF Safe, ModeInv, DiskInv
  <2>2. proxy.mode # "memory"
    BY <1>2 DEF Safe, ModeInv, MemoryInv
  <2>3. ASSUME proxy.mode = "hybrid" PROVE HybridInv'
    <3>1. HybridInv /\ w \in DbHandles /\ proxy.pc = "running" /\ pb.state # "memory"
      <4>1. HybridInv
        BY <2>3 DEF Safe, ModeInv
      <4>2. w \in DbHandles
        BY <1>2 DEF DbHandles, IsDb
      <4>3. proxy.pc = "running"
        BY <1>1, <1>2, <4>1 DEF HybridInv, Typed, OffInv, TypeInv
      <4> QED  BY <4>1, <4>2, <4>3 DEF HybridInv, CleanInv
    <3>2. DatabaseFirst'
      BY <1>2, <3>1 DEF HybridInv, DatabaseFirst
    <3>3. MemoryFirst'
      <4>1. \A t \in handles[w].rows, x \in history : x.id < t.id
        BY <1>4 DEF Safe, FlightAfter
      <4> QED  BY <1>2, <3>1, <4>1 DEF HybridInv, MemoryFirst, outside
    <3>4. CleanInv'
      BY <1>2, <3>1 DEF CleanInv
    <3>5. LastDbInv'
      <4>1. \A t \in handles[w].rows : t.id <= handles'[w].lastid
        BY <1>1, <1>3, TypedHandles, LastIdLargest DEF Typed, FiniteRows
      <4>2. \A t \in table : \/ t.id <= pb.history_lastid_db
                             \/ \E v \in Writers : handles'[v].pc = "done" /\ t.id <= handles'[v].lastid
        BY <1>2, <1>3, <3>1 DEF HybridInv, LastDbInv
      <4> QED  BY <1>2, <1>3, <4>1, <4>2 DEF LastDbInv
    <3>6. \A v \in Writers : v \notin Syncers["hybrid"] => handles'[v].pc = "idle"
      BY <1>2, <1>3, <3>1 DEF HybridInv
    <3> QED  BY <1>2, <3>1, <3>2, <3>3, <3>4, <3>5, <3>6 DEF HybridInv, outside
  <2> QED  BY <1>2, <2>1, <2>2, <2>3 DEF Safe, ModeInv, outside
<1>12. PlaceInv'
  <2>1. \A r \in handles[w].rows : r.value \in Places'
    BY <1>2, InPlaces DEF Values
  <2> QED  BY <1>2, <1>3, <2>1, InPlaces, PlacesKept DEF Safe, outside
<1> QED  BY <1>1, <1>9, <1>10, <1>11, <1>12 DEF Safe, OrderInv

LEMMA SafeFallback ==
  ASSUME Safe, NEW w \in Writers, Fallback(w) PROVE Safe'
<1>1. Typed /\ Typed'
  BY TypedFallback DEF Safe
<1>2. /\ handles[w].pc = "flush" /\ lock = w
      /\ history' = {}
      /\ handles' = [handles EXCEPT ![w] = [handles[w] EXCEPT !.pc = "insert"]]
      /\ UNCHANGED <<nextid, txn, sender, outside>>
  BY DEF Fallback, SetHandle
<1>3. \/ table' = table \cup history /\ discarded' = discarded
      \/ table' = table /\ discarded' = discarded \cup Values(history)
  BY DEF Fallback, Flushed, stored
<1>4. lastid_stored' \in {lastid_stored, pb.history_lastid_sent}
  BY DEF Fallback, FlushedLastid, stored
<1>5. /\ handles'[w].pc = "insert" /\ handles'[w].state = handles[w].state
      /\ handles'[w].rows = handles[w].rows
      /\ \A v \in Writers \ {w} : handles'[v] = handles[v]
  BY <1>1, <1>2, TypedHandles DEF Typed, TypeInv, Handle
<1>6. /\ pb'.state = "database" /\ pb'.mode = pb.mode
      /\ pb'.history_lastid_sent = pb.history_lastid_sent
      /\ pb'.history_lastid_db = Larger(pb.history_lastid_db, LastId(history))
  BY <1>1 DEF Fallback, Typed, TypeInv, Buffer
<1>7. \A v \in Writers : Flight(handles'[v]) = Flight(handles[v])
  BY <1>2, <1>5 DEF Flight
<1>8. EnvTyped /\ EnvTyped' /\ Ids(Env)
  BY <1>1, EnvTypes DEF Safe, IdInv
<1>9. /\ Env'.stored \subseteq Env.stored /\ Env'.next = Env.next
      /\ \A v \in Writers : Env'.flight[v] = Env.flight[v]
      /\ Env'.received = Env.received /\ Env.next \in Nat
  BY <1>2, <1>3, <1>7, <1>8 DEF EnvTyped, IsEnv, outside
<1>10. Grows(Env, Env') /\ Ids(Env')
  <2>1. Grows(Env, Env')
    BY <1>9 DEF Grows
  <2>2. Ids(Env')
    BY <1>8, <1>9 DEF Ids
  <2> QED  BY <2>1, <2>2
<1>11. OrderInv'
  <2>1. Src(pb'.state) = "database"
    BY <1>6 DEF Src
  <2> QED  BY <1>1, <1>2, <1>4, <1>6, <1>10, <2>1, OrderKept DEF Safe, OrderInv, outside
<1>12. HandleInv'
  <2>1. \A v \in Writers \ {w} : handles[v].pc # "flush"
    BY <1>2 DEF Safe, HandleInv
  <2> QED  BY <1>5, <2>1 DEF Safe, HandleInv
<1>13. FlightAfter'
  BY <1>2 DEF FlightAfter
<1>14. ModeInv'
  <2>1. proxy.mode = "hybrid" /\ HybridInv
    BY <1>1, <1>2, ProxyModes DEF Safe, ModeInv, DiskInv, MemoryInv
  <2>2. DatabaseFirst' /\ MemoryFirst' /\ CleanInv'
    BY <1>2, <1>6 DEF DatabaseFirst, MemoryFirst, CleanInv, Src
  <2>3. LastDbInv'
    <3>1. /\ pb.history_lastid_db \in Nat /\ LastId(history) \in Nat
          /\ \A t \in history : t.id \in Nat /\ t.id <= LastId(history)
          /\ \A t \in table : t.id \in Nat
      BY <1>1, LastIdLargest DEF Typed, TypeInv, Buffer, FiniteRows, Row
    <3>2. /\ pb.history_lastid_db <= pb'.history_lastid_db
          /\ LastId(history) <= pb'.history_lastid_db /\ pb'.history_lastid_db \in Nat
      BY <1>6, <3>1, LargerType
    <3>3. \A t \in history : t.id <= pb'.history_lastid_db
      BY <3>1, <3>2
    <3>4. proxy.pc = "running" =>
            \A t \in table : \/ t.id <= pb.history_lastid_db
                             \/ \E v \in Writers : handles'[v].pc = "done" /\ t.id <= handles'[v].lastid
      BY <1>2, <1>5, <2>1 DEF HybridInv, LastDbInv
    <3>5. proxy.pc = "running" =>
            \A t \in table : \/ t.id <= pb'.history_lastid_db
                             \/ \E v \in Writers : handles'[v].pc = "done" /\ t.id <= handles'[v].lastid
      BY <3>1, <3>2, <3>4
    <3> QED  BY <1>2, <1>3, <3>3, <3>5 DEF LastDbInv, outside
  <2>4. \A v \in Writers : v \notin Syncers["hybrid"] => handles'[v].pc = "idle"
    BY <1>2, <1>5, <2>1 DEF HybridInv
  <2>5. HybridInv'
    BY <1>2, <2>1, <2>2, <2>3, <2>4 DEF HybridInv, outside
  <2> QED  BY <1>2, <1>6, <2>1, <2>5 DEF Safe, ModeInv, outside
<1>15. PlaceInv'
  <2>1. \A r \in history \cup table : r.value \in Places'
    BY <1>3, InPlaces DEF Values
  <2>2. \A v \in Writers : handles'[v].rows = handles[v].rows
    BY <1>5
  <2> QED  BY <1>2, <1>3, <2>1, <2>2, InPlaces, PlacesKept DEF Safe, outside
<1> QED  BY <1>1, <1>11, <1>12, <1>13, <1>14, <1>15 DEF Safe, OrderInv

(* A memory handle that is closed: what each way of closing it does. *)
LEMMA CloseFacts ==
  ASSUME Typed, NEW w \in Writers, handles[w].pc = "open", handles[w].state = "memory",
         NEW rows \in FiniteRows, NEW left, MemoryClosed(w, rows, left),
         \/ StaysInMemory(w, left) \/ GoesToDatabase(w, rows, left) \/ WaitsToFlush(w, left)
  PROVE  /\ \A v \in Writers \ {w} : handles'[v] = handles[v]
         /\ Flight(handles'[w]) = left /\ handles'[w].rows = left
         /\ handles'[w].pc \in {"idle", "flush"} => ~IsDb(handles'[w])
         /\ \/ StaysInMemory(w, left) /\ handles'[w].pc = "idle"
            \/ GoesToDatabase(w, rows, left) /\ handles'[w].pc = "insert"
            \/ /\ WaitsToFlush(w, left)
               /\ handles'[w].pc = "flush" /\ handles'[w].state = "memory"
<1>1. \A h : handles' = [handles EXCEPT ![w] = h] =>
        handles'[w] = h /\ \A v \in Writers \ {w} : handles'[v] = handles[v]
  BY DEF Typed, TypeInv
<1>2. CASE StaysInMemory(w, left)
  <2>1. handles'[w] = IdleHandle /\ \A v \in Writers \ {w} : handles'[v] = handles[v]
    BY <1>1, <1>2 DEF StaysInMemory
  <2>2. left = {}
    BY <1>2 DEF StaysInMemory
  <2> QED  BY <1>2, <2>1, <2>2 DEF IdleHandle, Flight, IsDb
<1>3. CASE GoesToDatabase(w, rows, left)
  <2>1. handles'[w] = ToInsert(left) /\ \A v \in Writers \ {w} : handles'[v] = handles[v]
    BY <1>1, <1>3 DEF GoesToDatabase
  <2> QED  BY <1>3, <2>1 DEF ToInsert, Flight, IsDb
<1>4. CASE WaitsToFlush(w, left)
  <2> DEFINE h == [pc |-> "flush", state |-> "memory", rows |-> left, lastid |-> 0]
  <2>1. h = [ToInsert(left) EXCEPT !.pc = "flush"]
    BY DEF ToInsert
  <2>2. handles'[w] = h /\ \A v \in Writers \ {w} : handles'[v] = handles[v]
    BY <1>1, <1>4, <2>1 DEF WaitsToFlush
  <2> QED  BY <1>4, <2>2 DEF Flight, IsDb
<1> QED  BY <1>2, <1>3, <1>4

(* ... and to the state of the buffer. *)
LEMMA CloseBuffer ==
  ASSUME Typed, NEW w \in Writers, NEW rows, NEW left,
         \/ StaysInMemory(w, left) \/ GoesToDatabase(w, rows, left) \/ WaitsToFlush(w, left)
  PROVE  /\ pb'.mode = pb.mode
         /\ pb'.history_lastid_sent = pb.history_lastid_sent
         /\ pb'.history_lastid_db = pb.history_lastid_db
         /\ \/ pb'.state = pb.state
            \/ /\ GoesToDatabase(w, rows, left) /\ pb.mode # "memory"
               /\ pb.state = "memory" /\ pb'.state = "memory_database"
<1>1. pb \in Buffer
  BY DEF Typed, TypeInv
<1>2. CASE pb' = pb
  BY <1>2
<1>3. CASE pb' = [pb EXCEPT !.db_handles_num = @ + 1]
  BY <1>1, <1>3 DEF Buffer
<1>4. CASE /\ GoesToDatabase(w, rows, left) /\ pb.mode # "memory" /\ pb.state = "memory"
           /\ pb' = [pb EXCEPT !.state = "memory_database", !.db_handles_num = @ + 1]
  BY <1>1, <1>4 DEF Buffer
<1> QED  BY <1>2, <1>3, <1>4 DEF StaysInMemory, GoesToDatabase, WaitsToFlush

LEMMA SafeCloseMemory ==
  ASSUME Safe, OrderedModes, NEW w \in Writers, CloseMemory(w) PROVE Safe'
<1>1. Typed /\ Typed'
  BY TypedCloseMemory DEF Safe
<1>2. /\ handles[w].pc = "open" /\ handles[w].state = "memory" /\ lock = Free
      /\ nextid' = nextid + Cardinality(handles[w].rows)
      /\ UNCHANGED <<stored, txn, outside>>
  BY DEF CloseMemory
<1>3. PICK rows, left :
        /\ rows = Numbered(handles[w].rows, nextid)
        /\ MemoryClosed(w, rows, left)
        /\ StaysInMemory(w, left) \/ GoesToDatabase(w, rows, left) \/ WaitsToFlush(w, left)
  BY <1>1, CloseMemoryCases DEF Typed
<1>4. /\ nextid \in Nat \ {0} /\ nextid' \in Nat /\ nextid <= nextid'
      /\ rows \in FiniteRows /\ Values(rows) = Values(handles[w].rows)
      /\ \A r \in rows : r \in Row /\ r.id \in Nat /\ nextid <= r.id /\ r.id < nextid'
  BY <1>1, <1>2, <1>3, NewRows
<1>5. /\ \A v \in Writers \ {w} : handles'[v] = handles[v]
      /\ Flight(handles'[w]) = left /\ handles'[w].rows = left
      /\ handles'[w].pc \in {"idle", "flush"} => ~IsDb(handles'[w])
      /\ \/ StaysInMemory(w, left) /\ handles'[w].pc = "idle"
         \/ GoesToDatabase(w, rows, left) /\ handles'[w].pc = "insert"
         \/ /\ WaitsToFlush(w, left)
            /\ handles'[w].pc = "flush" /\ handles'[w].state = "memory"
  BY <1>1, <1>2, <1>3, <1>4, CloseFacts
<1>6. /\ pb'.mode = pb.mode
      /\ pb'.history_lastid_sent = pb.history_lastid_sent
      /\ pb'.history_lastid_db = pb.history_lastid_db
      /\ \/ pb'.state = pb.state
         \/ /\ GoesToDatabase(w, rows, left) /\ pb.mode # "memory"
            /\ pb.state = "memory" /\ pb'.state = "memory_database"
  BY <1>1, <1>3, CloseBuffer
<1>7. /\ left \subseteq rows /\ history' \subseteq history \cup (rows \ left)
      /\ \A x \in rows \ left, r \in left : x.id < r.id
  BY <1>3 DEF MemoryClosed
<1>8. proxy.mode \in {"memory", "hybrid"} /\ pb.mode = proxy.mode
  BY <1>1, <1>2, ProxyModes DEF Safe, ModeInv, DiskInv
<1>9. \A v \in Writers \ {w} : Flight(handles[v]) = {} /\ handles[v].pc # "flush"
  <2>1. CASE proxy.mode = "memory"
    BY <2>1 DEF Safe, ModeInv, MemoryInv, Flight
  <2>2. CASE proxy.mode = "hybrid"
    BY <1>1, <1>2, <2>2, Alone DEF Safe, Flight
  <2> QED  BY <1>8, <2>1, <2>2
<1>10. EnvTyped /\ EnvTyped' /\ Ids(Env)
  BY <1>1, EnvTypes DEF Safe, IdInv
<1>11. /\ Env'.stored \subseteq Env.stored \cup (rows \ left)
       /\ Env.next = nextid /\ Env'.next = nextid' /\ Env'.received = Env.received
       /\ Env'.flight[w] = left /\ \A v \in Writers \ {w} : Env'.flight[v] = {}
  BY <1>2, <1>5, <1>7, <1>9, <1>10 DEF EnvTyped, stored, outside
<1>12. Grows(Env, Env')
  BY <1>4, <1>7, <1>11 DEF Grows
<1>13. \A r \in Env.stored : r.id \in Nat /\ 0 < r.id /\ r.id < nextid
  BY <1>10, <1>11 DEF Ids, EnvTyped, IsEnv, Row
<1>14. Ids(Env')
  <2>1. \A r \in Env'.stored : 0 < r.id /\ r.id < Env'.next
    BY <1>4, <1>11, <1>13
  <2>2. \A r \in left : 0 < r.id /\ r.id < Env'.next
    BY <1>4, <1>7, <1>11
  <2>3. ASSUME NEW r \in left, NEW t \in Env'.stored PROVE t.id # r.id
    <3>1. r.id \in Nat /\ nextid <= r.id
      BY <1>4, <1>7
    <3>2. CASE t \in Env.stored
      BY <1>4, <1>13, <3>1, <3>2
    <3>3. CASE t \in rows \ left
      <4>1. t.id < r.id /\ t.id \in Nat
        BY <1>4, <1>7, <3>3
      <4> QED  BY <3>1, <4>1
    <3> QED  BY <1>11, <3>2, <3>3
  <2> QED  BY <1>11, <2>1, <2>2, <2>3 DEF Ids
<1>15. OrderInv'
  <2>1. Src(pb.state) = "database" => Src(pb'.state) = "database"
    BY <1>6 DEF Src
  <2>2. \/ sender' = sender
        \/ sender' = [sender EXCEPT !.waiting = @ \ {w}] /\ Flight(handles'[w]) = {}
    BY <1>5 DEF StaysInMemory, GoesToDatabase, WaitsToFlush
  <2> QED  BY <1>1, <1>2, <1>6, <1>12, <1>14, <2>1, <2>2, OrderKept
           DEF Safe, OrderInv, stored, outside
<1>16. HandleInv'
  <2>1. handles'[w].pc = "idle" => left = {}
    BY <1>5 DEF StaysInMemory
  <2>2. handles'[w].pc = "flush" => lock' = w /\ handles'[w].state = "memory"
    BY <1>5 DEF WaitsToFlush
  <2>3. handles'[w].pc # "done"
    BY <1>5
  <2> QED  BY <1>5, <1>9, <2>1, <2>2, <2>3 DEF Safe, HandleInv
<1>17. \A r \in history : r.id \in Nat /\ r.id < nextid
  BY <1>10, <1>13 DEF EnvTyped
<1>18. FlightAfter'
  <2>1. \A r \in left, x \in history' : x.id < r.id
    BY <1>4, <1>7, <1>17
  <2> QED  BY <1>5, <1>9, <2>1 DEF FlightAfter
<1>19. \A t \in table : t.id \in Nat /\ t.id < nextid
  BY <1>10, <1>13 DEF EnvTyped
<1>20. ASSUME proxy.mode = "hybrid" PROVE HybridInv'
  <2>1. HybridInv /\ pb.mode # "memory" /\ pb.state \in States
    BY <1>1, <1>8, <1>20 DEF Safe, ModeInv, Typed, TypeInv, Buffer
  <2>2. \A v \in Writers \ {w} : handles[v].pc = "idle" /\ handles'[v].pc = "idle"
    BY <1>1, <1>2, <1>5, <1>20, Alone DEF Safe
  <2>3. ~IsDb(handles'[w]) => DbHandles' = {}
    BY <2>2 DEF DbHandles, IsDb
  <2>4. w \in Syncers["hybrid"]
    BY <1>2, <2>1 DEF HybridInv
  <2>5. \A t \in table, x \in rows : t.id < x.id
    BY <1>4, <1>19
  <2>6. \A t \in table, x \in history' : x \in history \/ t.id < x.id
    BY <1>7, <2>5
  <2>7. Dst(pb.state) = "database" => history' = history /\ pb'.state = pb.state
    BY <1>3, <1>6 DEF StaysInMemory, GoesToDatabase, WaitsToFlush, Dst
  <2>8. pb.state = "database_memory" => DbHandles' = {} /\ pb'.state = pb.state
    BY <1>5, <1>6, <2>3 DEF GoesToDatabase, Dst
  <2>9. pb.state = "memory" => pb'.state = "memory_database" \/ DbHandles' = {}
    <3>1. CASE GoesToDatabase(w, rows, left) /\ pb.state = "memory"
      <4>1. pb' = [pb EXCEPT !.state = "memory_database", !.db_handles_num = @ + 1]
        BY <3>1 DEF GoesToDatabase, Dst
      <4> QED  BY <1>1, <4>1 DEF Typed, TypeInv, Buffer
    <3> QED  BY <1>5, <2>3, <3>1
  <2>10. pb.state = "database" => history' = {}
    BY <2>1, <2>7 DEF HybridInv, Dst
  <2>11. pb'.state = pb.state \/ (pb.state = "memory" /\ pb'.state = "memory_database")
    BY <1>6
  <2>12. DatabaseFirst'
    <3>1. SUFFICES ASSUME Src(pb'.state) = "database"
                   PROVE  /\ DbHandles' # {} => history' = {}
                          /\ \A t \in table', x \in history' : t.id < x.id
      BY DEF DatabaseFirst
    <3>2. pb'.state = pb.state /\ pb.state \in {"database", "database_memory"}
      BY <2>1, <2>11, <3>1 DEF Src, States
    <3>3. \A t \in table, x \in history : t.id < x.id
      BY <2>1, <3>1, <3>2 DEF HybridInv, DatabaseFirst
    <3> QED  BY <1>2, <2>6, <2>8, <2>10, <3>2, <3>3 DEF stored
  <2>13. MemoryFirst'
    <3>1. CASE pb.state = "memory"
      <4>1. \A t \in table : t.value \in server.received
        BY <2>1, <3>1 DEF HybridInv, CleanInv, Values
      <4> QED  BY <1>2, <4>1 DEF MemoryFirst, stored, outside
    <3>2. CASE pb.state = "memory_database"
      <4>1. history' = history /\ pb'.state = pb.state
        BY <2>7, <3>2 DEF Dst
      <4> QED  BY <1>2, <2>1, <4>1 DEF HybridInv, MemoryFirst, stored, outside
    <3>3. CASE pb.state \notin {"memory", "memory_database"}
      <4>1. Src(pb'.state) # "memory"
        BY <2>11, <3>3 DEF Src
      <4> QED  BY <4>1 DEF MemoryFirst
    <3> QED  BY <3>1, <3>2, <3>3
  <2>14. CleanInv'
    <3>1. SUFFICES ASSUME pb'.state = "memory"
                   PROVE  /\ Values(table') \subseteq server'.received
                          /\ DbHandles' = {}
      BY DEF CleanInv
    <3>2. pb.state = "memory"
      BY <2>11, <3>1
    <3> QED  BY <1>2, <2>1, <2>9, <3>1, <3>2 DEF HybridInv, CleanInv, stored, outside
  <2>15. LastDbInv'
    <3>1. \A v \in Writers : handles[v].pc = "done" =>
            v # w /\ handles'[v] = handles[v]
      BY <1>2, <1>5
    <3> QED  BY <1>2, <1>6, <2>1, <3>1 DEF HybridInv, LastDbInv, stored, outside
  <2>16. pb'.state = "database" => history' = {}
    BY <2>10, <2>11
  <2>17. \A v \in Writers : v \notin Syncers["hybrid"] => handles'[v].pc = "idle"
    BY <2>2, <2>4
  <2> QED  BY <1>2, <2>1, <2>12, <2>13, <2>14, <2>15, <2>16, <2>17 DEF HybridInv, outside
<1>21. ASSUME proxy.mode = "memory" PROVE MemoryInv'
  <2>1. MemoryInv /\ pb.mode = "memory" /\ pb.state = "memory"
    BY <1>8, <1>21 DEF Safe, ModeInv, MemoryInv
  <2>2. pb'.state = pb.state
    BY <1>6, <2>1
  <2>3. handles'[w].pc = "idle"
    BY <1>5, <2>1 DEF GoesToDatabase, WaitsToFlush, Dst
  <2> QED  BY <1>2, <1>5, <2>1, <2>2, <2>3 DEF MemoryInv, stored
<1>22. ModeInv'
  BY <1>2, <1>6, <1>8, <1>20, <1>21 DEF ModeInv, outside
<1>23. PlaceInv'
  <2>1. /\ discarded \subseteq discarded'
        /\ Values(history) \cup Values(rows) \subseteq Values(history') \cup Values(left) \cup discarded'
    BY <1>3 DEF MemoryClosed
  <2>2. Values(history') \cup Values(left) \cup discarded' \subseteq Places'
    BY <1>5, InPlaces DEF Values
  <2>3. \A r \in history : r.value \in Values(history)
    BY DEF Values
  <2>4. \A r \in handles[w].rows : r.value \in Values(rows)
    BY <1>4 DEF Values
  <2>5. \A r \in history \cup table : r.value \in Places'
    BY <1>2, <2>1, <2>2, <2>3, InPlaces DEF stored
  <2>6. \A v \in Writers : \A r \in handles[v].rows : r.value \in Places'
    BY <1>5, <2>1, <2>2, <2>4, InPlaces
  <2>7. server.received \cup discarded \subseteq Places'
    BY <1>2, <2>1, InPlaces DEF outside
  <2> QED  BY <1>2, <2>5, <2>6, <2>7, PlacesKept DEF Safe, outside
<1> QED  BY <1>1, <1>15, <1>16, <1>18, <1>22, <1>23 DEF Safe, OrderInv

-----------------------------------------------------------------------------
(* The data sender. *)

(* The sender adds no row: it may only remove rows that were received. *)
LEMMA SenderEnv ==
  ASSUME Typed, Typed', Ids(Env), history' \subseteq history,
         UNCHANGED <<table, handles, nextid>>, server.received \subseteq server'.received
  PROVE  Grows(Env, Env') /\ Ids(Env')
<1>1. EnvTyped /\ EnvTyped'
  BY EnvTypes
<1>2. /\ Env'.stored \subseteq Env.stored /\ Env'.next = Env.next
      /\ \A w \in Writers : Env'.flight[w] = Env.flight[w]
      /\ Env.received \subseteq Env'.received /\ Env.next \in Nat
  BY <1>1 DEF EnvTyped, IsEnv
<1>3. Grows(Env, Env')
  BY <1>2 DEF Grows
<1>4. Ids(Env')
  BY <1>2 DEF Ids
<1> QED  BY <1>3, <1>4

LEMMA SenderStep ==
  ASSUME Safe, Typed', pb'.state = pb.state, pb'.mode = pb.mode,
         pb'.history_lastid_db = pb.history_lastid_db,
         history' \subseteq history, \A r \in history \ history' : r.value \in server.received,
         UNCHANGED <<table, handles, nextid, lock, proxy, nextvalue, discarded>>,
         server.received \subseteq server'.received,
         lastid_stored' = lastid_stored \/ Src(pb.state) = "database",
         CoverInv', SenderInv'
  PROVE  Safe'
<1>1. IdInv'
  BY SenderEnv DEF Safe, IdInv
<1>2. HandleInv' /\ FlightAfter'
  BY DEF Safe, HandleInv, FlightAfter
<1>3. ASSUME proxy.mode = "hybrid" PROVE HybridInv'
  <2>1. HybridInv /\ DbHandles' = DbHandles
    BY <1>3 DEF Safe, ModeInv, DbHandles
  <2>2. DatabaseFirst' /\ MemoryFirst' /\ CleanInv' /\ LastDbInv'
    <3>1. DatabaseFirst'
      BY <2>1 DEF HybridInv, DatabaseFirst
    <3>2. MemoryFirst'
      BY <2>1 DEF HybridInv, MemoryFirst
    <3>3. CleanInv'
      BY <2>1 DEF HybridInv, CleanInv
    <3>4. LastDbInv'
      BY <2>1 DEF HybridInv, LastDbInv
    <3> QED  BY <3>1, <3>2, <3>3, <3>4
  <2> QED  BY <2>1, <2>2 DEF HybridInv
<1>4. ASSUME proxy.mode = "disk" PROVE DiskInv'
  BY <1>4 DEF Safe, ModeInv, DiskInv
<1>5. ASSUME proxy.mode = "memory" PROVE MemoryInv'
  BY <1>5 DEF Safe, ModeInv, MemoryInv, Src
<1>6. ModeInv'
  BY <1>3, <1>4, <1>5 DEF Safe, ModeInv
<1>7. PlaceInv'
  <2>1. \A r \in history : r \in history' \/ r.value \in server.received
    OBVIOUS
  <2> QED  BY <2>1, InPlaces, PlacesKept DEF Safe
<1> QED  BY <1>1, <1>2, <1>6, <1>7 DEF Safe

(* A step of the sender that changes nothing but the sender. *)
LEMMA SenderOnly ==
  ASSUME Safe, Typed', SenderInv',
         UNCHANGED <<pb, history, table, lastid_stored, nextid, lock, handles, server, proxy,
                     nextvalue, discarded>>
  PROVE  Safe'
<1>1. Env' = Env /\ Grows(Env, Env')
  BY EnvSame DEF Safe
<1>2. CoverInv'
  BY <1>1, CoverGrows DEF Safe
<1> QED  BY <1>2, SenderStep

LEMMA SafeGetRows ==
  ASSUME Safe, GetRows PROVE Safe'
<1>1. Typed /\ Typed'
  BY TypedGetRows DEF Safe
<1>2. /\ sender.pc = "idle" /\ sender.rows = {} /\ sender.gapid = 0
      /\ UNCHANGED <<pb, history, lock, stored, nextid, txn, handles, outside, discarded>>
  BY DEF GetRows, Safe, SenderInv, SenderOk
<1>3. Env' = Env /\ EnvTyped /\ Ids(Env)
  BY <1>1, <1>2, EnvSame, EnvTypes DEF stored, outside, Safe, IdInv
<1>4. ASSUME Src(pb.state) = "memory" PROVE SenderInv'
  <2> DEFINE rows == First(history, Limit)
  <2>1. sender'.pc = "upload" /\ sender'.rows = rows
    BY <1>1, <1>4, SenderFacts DEF GetRows, SetSender, Sender
  <2>2. /\ rows \subseteq history
        /\ \A q \in rows, x \in history : x.id <= q.id => x \in rows
    <3>1. Limit \in Int /\ history \subseteq Row /\ IsFiniteSet(history)
      BY <1>1, BufferAssumption DEF Typed, TypeInv, FiniteRows
    <3> QED  BY <3>1, FirstRows
  <2> HIDE DEF rows
  <2>3. ASSUME NEW q \in rows PROVE Taking(q.id, rows, Env)
    <3>1. q \in history /\ q.id \in Nat /\ q.id < Env.next
      BY <1>3, <2>2 DEF EnvTyped, IsEnv, Row, Ids
    <3>2. ASSUME NEW t \in table, t.id <= q.id PROVE t.value \in server.received
      <4>1. t.id \in Nat
        BY <1>1 DEF Typed, TypeInv, FiniteRows, Row
      <4>2. CASE proxy.mode = "hybrid"
        <5>1. t.value \in server.received \/ q.id < t.id
          BY <1>4, <3>1, <4>2 DEF Safe, ModeInv, HybridInv, MemoryFirst
        <5> QED  BY <3>1, <3>2, <4>1, <5>1
      <4>3. CASE proxy.mode = "memory"
        BY <4>3 DEF Safe, ModeInv, MemoryInv
      <4>4. CASE proxy.mode = "disk"
        BY <1>4, <4>4 DEF Safe, ModeInv, DiskInv, Src
      <4> QED  BY <1>1, <4>2, <4>3, <4>4, ProxyModes
    <3>3. \A x \in history : x.id <= q.id => x \in rows
      BY <2>2
    <3>4. \A w \in Writers : \A r \in Flight(handles[w]) : q.id < r.id
      BY <3>1 DEF Safe, FlightAfter
    <3> QED  BY <1>3, <3>1, <3>2, <3>3, <3>4 DEF Taking, EnvTyped
  <2> QED  BY <1>3, <2>1, <2>3 DEF SenderInv, SenderOk
<1>5. ASSUME Src(pb.state) = "database" PROVE SenderInv'
  <2>1. /\ sender'.pc = "select" /\ sender'.lastid = lastid_stored
        /\ sender'.rows = {} /\ sender'.gapid = 0
    BY <1>1, <1>2, <1>5, SenderFacts DEF GetRows, SetSender, Sender
  <2>2. Taking(lastid_stored, {}, Env)
    BY DEF Safe, CoverInv
  <2>3. GapWaited(sender', Env)
    <3>1. \A w \in Writers : \A r \in Env.flight[w] : 0 <= r.id
      BY <1>3 DEF EnvTyped, IsEnv, Row
    <3>2. 0 < Env.next
      BY <1>1, <1>3 DEF EnvTyped, Typed, TypeInv
    <3> QED  BY <2>1, <3>1, <3>2 DEF GapWaited
  <2> QED  BY <1>2, <1>3, <1>5, <2>1, <2>2, <2>3 DEF SenderInv, SenderOk
<1>6. SenderInv'
  BY <1>4, <1>5 DEF Src
<1> QED  BY <1>1, <1>2, <1>6, SenderOnly DEF stored, outside

(* A row that is on its way has a gap before the rows that follow it. *)
LEMMA GapSeen ==
  ASSUME Typed, EnvTyped, Ids(Env), sender.pc = "select", SenderInv,
         NEW w \in Writers, NEW r \in Flight(handles[w]),
         NEW q \in Selected, r.id <= q.id
  PROVE  \E g \in Gaps : g.id <= q.id
<1>1. /\ Taking(sender.lastid, sender.rows, Env) /\ sender.lastid \in Nat
      /\ sender.gapid <= r.id /\ sender.gapid \in Nat
  BY SenderFacts DEF SenderInv, SenderOk, GapWaited, EnvTyped
<1>2. r \in Env.flight[w] /\ r.id \in Nat /\ sender.lastid < r.id
  BY <1>1 DEF EnvTyped, IsEnv, Row, Taking
<1>3. \A t \in table : t.id # r.id /\ t.id \in Nat
  BY <1>2 DEF Ids, EnvTyped, IsEnv, Row
<1> DEFINE after == {t \in table : r.id < t.id}
<1>4. q \in after
  <2>1. q \in table
    BY SelectedRows
  <2> QED  BY <1>2, <1>3, <2>1
<1>5. after \in FiniteRows
  BY RowSets DEF Typed, TypeInv
<1>6. PICK m \in after : \A t \in after : m.id <= t.id
  <2> HIDE DEF after
  <2> QED  BY <1>4, <1>5, SmallestRow DEF FiniteRows
<1>7. m \in table /\ m.id \in Nat /\ r.id < m.id /\ m.id <= q.id /\ sender.lastid < m.id
  BY <1>1, <1>2, <1>3, <1>4, <1>6
<1>8. m \in Selected
  BY <1>7, SelectedRows
<1>9. \A t \in table : t.id # m.id - 1
  <2>1. SUFFICES ASSUME NEW t \in table, t.id = m.id - 1 PROVE FALSE
    OBVIOUS
  <2>2. t.id \in Nat /\ t.id # r.id
    BY <1>3
  <2>3. r.id < t.id
    BY <1>2, <1>7, <2>1, <2>2
  <2>4. m.id <= t.id
    BY <1>6, <2>3
  <2> QED  BY <1>7, <2>1, <2>2, <2>4
<1>10. m.id # sender.gapid /\ m.id - 1 # sender.lastid
  BY <1>1, <1>2, <1>7
<1>11. m \in Gaps
  BY <1>8, <1>9, <1>10 DEF Gaps, Gap
<1> QED  BY <1>7, <1>11

(* What Select has taken so far can be uploaded row by row. *)
LEMMA TakenRows ==
  ASSUME Safe, sender.pc = "select", NEW q \in sender.rows \cup Taken
  PROVE  Taking(q.id, sender.rows \cup Taken, Env)
<1> DEFINE rows == sender.rows \cup Taken
<1>1. Typed /\ EnvTyped /\ Ids(Env) /\ SenderInv
  BY EnvType DEF Safe, IdInv, Typed
<1>2. /\ Taking(sender.lastid, sender.rows, Env) /\ sender.lastid \in Nat
      /\ \A r \in sender.rows : r.id <= sender.lastid
      /\ Src(pb.state) = "database"
  BY <1>1, SenderFacts DEF SenderInv, SenderOk
<1>3. sender.rows \subseteq Row /\ Taken \subseteq Selected /\ Selected \subseteq table
  BY <1>1, SenderFacts, SelectedRows DEF FiniteRows, Taken
<1>4. CASE q \in sender.rows
  <2>1. q.id \in Nat /\ q.id <= sender.lastid
    BY <1>2, <1>3, <1>4 DEF Row
  <2> QED  BY <1>1, <1>2, <2>1, TakingLess DEF EnvTyped
<1>5. CASE q \in Taken
  <2>1. /\ q \in table /\ q \in Selected /\ sender.lastid < q.id
        /\ \A g \in Gaps : q.id < g.id
    BY <1>1, <1>3, <1>5, SelectedRows DEF Taken
  <2>2. q.id \in Nat /\ q.id < Env.next
    BY <1>1, <2>1 DEF EnvTyped, IsEnv, Row, Ids
  <2>3. \A t \in table : t.id \in Nat
    BY <1>1 DEF EnvTyped, IsEnv, Row
  <2>4. \A g \in Gaps : g.id \in Nat
    BY <1>3, <2>3 DEF Gaps
  <2>5. ASSUME NEW x \in history PROVE ~(x.id <= q.id)
    <3>1. x.id \in Nat
      BY <1>1 DEF EnvTyped, IsEnv, Row
    <3>2. CASE proxy.mode = "hybrid"
      <4>1. q.id < x.id
        BY <1>2, <2>1, <3>2 DEF Safe, ModeInv, HybridInv, DatabaseFirst
      <4> QED  BY <2>2, <3>1, <4>1
    <3>3. CASE proxy.mode = "disk"
      BY <3>3 DEF Safe, ModeInv, DiskInv
    <3>4. CASE proxy.mode = "memory"
      BY <1>2, <3>4 DEF Safe, ModeInv, MemoryInv, Src
    <3> QED  BY <1>1, <3>2, <3>3, <3>4, ProxyModes
  <2>6. ASSUME NEW t \in table, t.id <= q.id
        PROVE  t.value \in Env.received \/ t \in rows
    <3>1. CASE t.id <= sender.lastid
      BY <1>1, <1>2, <3>1 DEF Taking, EnvTyped
    <3>2. CASE ~(t.id <= sender.lastid)
      <4>1. t.id > sender.lastid
        BY <1>2, <2>3, <3>2
      <4>2. t \in Selected
        BY <1>1, <2>1, <2>6, <4>1, SelectedRows
      <4>3. \A g \in Gaps : t.id < g.id
        BY <2>1, <2>2, <2>3, <2>4, <2>6
      <4> QED  BY <4>2, <4>3 DEF Taken
    <3> QED  BY <3>1, <3>2
  <2>7. ASSUME NEW w \in Writers, NEW r \in Flight(handles[w]) PROVE q.id < r.id
    <3>1. r.id \in Nat
      BY <1>1 DEF EnvTyped, IsEnv, Row
    <3>2. ~(r.id <= q.id)
      <4>1. SUFFICES ASSUME r.id <= q.id PROVE FALSE
        OBVIOUS
      <4>2. PICK g \in Gaps : g.id <= q.id
        BY <1>1, <2>1, <4>1, GapSeen
      <4> QED  BY <2>1, <2>2, <2>4, <4>2
    <3> QED  BY <2>2, <3>1, <3>2
  <2> HIDE DEF rows
  <2>8. Taking(q.id, rows, Env)
    BY <1>1, <2>2, <2>5, <2>6, <2>7 DEF Taking, EnvTyped
  <2> QED  BY <2>8 DEF rows
<1> QED  BY <1>4, <1>5

(* The sender after a select. *)
LEMMA SelectSender ==
  ASSUME Typed, Select
  PROVE  \/ /\ sender'.pc = "upload" /\ sender'.rows = sender.rows \cup Taken
         \/ /\ sender'.pc = "wait" /\ sender'.rows = sender.rows \cup Taken
            /\ sender'.lastid = Larger(sender.lastid, LastId(Taken))
            /\ sender'.gapid = LastId(First(Gaps, 1))
            /\ sender'.waiting = {w \in Writers : handles[w].pc # "idle"}
<1>1. sender \in Sender
  BY SenderFacts
<1> DEFINE rows == sender.rows \cup Taken
           full == Cardinality(rows) = Limit
           last == Larger(sender.lastid, LastId(Taken))
           gap == LastId(First(Gaps, 1))
           open == {w \in Writers : handles[w].pc # "idle"}
<1>2. \/ sender' = [sender EXCEPT !.pc = "upload", !.rows = rows, !.more = full,
                                  !.lastid = 0, !.gapid = 0]
      \/ sender' = [sender EXCEPT !.pc = "wait", !.rows = rows, !.lastid = last,
                                  !.gapid = gap, !.waiting = open]
  BY DEF Select, SetSender, Gaps, Taken
<1>3. \/ /\ sender'.pc = "upload" /\ sender'.rows = rows
      \/ /\ sender'.pc = "wait" /\ sender'.rows = rows /\ sender'.lastid = last
         /\ sender'.gapid = gap /\ sender'.waiting = open
  <2> HIDE DEF rows, full, last, gap, open
  <2> QED  BY <1>1, <1>2 DEF Sender
<1> QED  BY <1>3

LEMMA SafeSelect ==
  ASSUME Safe, Select PROVE Safe'
<1> DEFINE rows == sender.rows \cup Taken
           last == Larger(sender.lastid, LastId(Taken))
           gap == LastId(First(Gaps, 1))
<1>1. Typed /\ Typed'
  BY TypedSelect DEF Safe
<1>2. /\ sender.pc = "select"
      /\ UNCHANGED <<pb, history, lock, stored, nextid, txn, handles, outside, discarded>>
  BY DEF Select
<1>3. Env' = Env /\ EnvTyped /\ Ids(Env)
  BY <1>1, <1>2, EnvSame, EnvTypes DEF stored, outside, Safe, IdInv
<1>4. /\ Taking(sender.lastid, sender.rows, Env) /\ sender.lastid \in Nat
      /\ \A r \in sender.rows : r.id <= sender.lastid /\ r.id \in Nat
      /\ Src(pb.state) = "database"
  BY <1>1, <1>2, SenderFacts DEF Safe, SenderInv, SenderOk, FiniteRows, Row
<1>5. \A q \in rows : Taking(q.id, rows, Env)
  BY <1>2, TakenRows
<1>6. /\ Taken \subseteq Row /\ IsFiniteSet(Taken) /\ Gaps \subseteq table
      /\ Gaps \subseteq Row /\ IsFiniteSet(Gaps)
  <2>1. Taken \in SUBSET Selected /\ Gaps \in SUBSET Selected
    BY DEF Taken, Gaps
  <2>2. Selected \in FiniteRows /\ Selected \subseteq table
    BY <1>1, SelectedRows
  <2>3. Taken \in FiniteRows /\ Gaps \in FiniteRows
    BY <2>1, <2>2, RowSets
  <2> QED  BY <2>1, <2>2, <2>3 DEF FiniteRows
<1>7. /\ LastId(Taken) \in Nat /\ \A r \in Taken : r.id <= LastId(Taken) /\ r.id \in Nat
      /\ Taken = {} => LastId(Taken) = 0
      /\ Taken # {} => \E r \in Taken : r.id = LastId(Taken)
  BY <1>6, LastIdLargest DEF Row
<1>8. last \in {sender.lastid, LastId(Taken)} /\ sender.lastid <= last /\ LastId(Taken) <= last
      /\ last \in Nat
  BY <1>4, <1>7, LargerType
<1>9. Taking(last, rows, Env)
  <2>1. CASE last = sender.lastid
    BY <1>3, <1>4, <2>1, TakingLess DEF EnvTyped
  <2>2. CASE last = LastId(Taken) /\ Taken # {}
    <3>1. PICK r \in Taken : r.id = last
      BY <1>7, <2>2
    <3> QED  BY <1>5, <3>1
  <2>3. CASE last = LastId(Taken) /\ Taken = {}
    BY <1>4, <1>7, <1>8, <2>1, <2>3
  <2> QED  BY <1>8, <2>1, <2>2, <2>3
<1>10. \A q \in rows : q.id <= last
  BY <1>4, <1>7, <1>8
<1>11. gap < Env.next
  <2>1. First(Gaps, 1) \subseteq Gaps /\ IsFiniteSet(First(Gaps, 1))
    BY <1>6, FirstRows
  <2>2. /\ First(Gaps, 1) = {} => gap = 0
        /\ First(Gaps, 1) # {} => \E r \in First(Gaps, 1) : r.id = gap
    BY <1>6, <2>1, LastIdLargest
  <2>3. 0 < Env.next
    BY <1>1, <1>3 DEF EnvTyped, Typed, TypeInv
  <2>4. \A r \in table : r.id < Env.next
    BY <1>3 DEF EnvTyped, Ids
  <2> HIDE DEF gap
  <2> QED  BY <1>6, <2>1, <2>2, <2>3, <2>4
<1>12. \A w \in Writers : handles[w].pc = "idle" => Env.flight[w] = {}
  BY <1>3 DEF EnvTyped, Flight
<1>13. \/ sender'.pc = "upload" /\ sender'.rows = rows
       \/ /\ sender'.pc = "wait" /\ sender'.rows = rows /\ sender'.lastid = last
          /\ sender'.gapid = gap
          /\ sender'.waiting = {w \in Writers : handles[w].pc # "idle"}
  BY <1>1, SelectSender
<1> HIDE DEF rows, last, gap
<1>14. SenderInv'
  <2>1. CASE sender'.pc = "upload" /\ sender'.rows = rows
    BY <1>3, <1>5, <2>1 DEF SenderInv, SenderOk
  <2>2. CASE /\ sender'.pc = "wait" /\ sender'.rows = rows /\ sender'.lastid = last
             /\ sender'.gapid = gap
             /\ sender'.waiting = {w \in Writers : handles[w].pc # "idle"}
    <3>1. GapWaited(sender', Env)
      BY <1>11, <1>12, <2>2 DEF GapWaited
    <3> QED  BY <1>2, <1>3, <1>4, <1>9, <1>10, <2>2, <3>1 DEF SenderInv, SenderOk
  <2> QED  BY <1>13, <2>1, <2>2
<1> QED  BY <1>1, <1>2, <1>14, SenderOnly DEF stored, outside

LEMMA SafeWaitHandles ==
  ASSUME Safe, WaitHandles PROVE Safe'
<1>1. Typed /\ Typed'
  BY TypedWaitHandles DEF Safe
<1>2. /\ sender.pc = "wait" /\ sender.waiting = {}
      /\ UNCHANGED <<pb, history, lock, stored, nextid, txn, handles, outside, discarded>>
  BY DEF WaitHandles
<1>3. Env' = Env
  BY <1>1, <1>2, EnvSame DEF stored, outside
<1>4. /\ sender'.pc = "select" /\ sender'.rows = sender.rows
      /\ sender'.lastid = sender.lastid /\ sender'.gapid = sender.gapid
  BY <1>1, SenderFacts DEF WaitHandles, SetSender, Sender
<1>5. GapWaited(sender', Env)
  BY <1>2, <1>4 DEF Safe, SenderInv, SenderOk, GapWaited
<1>6. SenderInv'
  BY <1>2, <1>3, <1>4, <1>5 DEF Safe, SenderInv, SenderOk
<1> QED  BY <1>1, <1>2, <1>6, SenderOnly DEF stored, outside

(* The server takes the rows of an upload. *)
LEMMA UploadReceived ==
  ASSUME Safe, Typed', sender.pc = "upload", server' = Received,
         UNCHANGED <<pb, history, table, lastid_stored, nextid, handles>>
  PROVE  /\ CoverInv' /\ server.received \subseteq server'.received
         /\ \A q \in sender.rows : q.id <= server'.last_id
<1>1. Typed /\ EnvTyped /\ EnvTyped' /\ Ids(Env)
  BY EnvTypes DEF Safe, IdInv
<1>2. /\ server'.last_id = Larger(server.last_id, LastId(sender.rows))
      /\ server'.received
           = server.received \union Values({r \in sender.rows : r.id > server.last_id})
  BY <1>1, ReceivedType
<1>3. Grows(Env, Env')
  BY <1>1, <1>2, SenderEnv
<1>4. \A x \in Nat : Taking(x, {}, Env) => Taking(x, {}, Env')
  BY <1>1, <1>3, TakingGrows DEF EnvTyped
<1>5. /\ LastId(sender.rows) \in Nat
      /\ \A q \in sender.rows : q.id <= LastId(sender.rows) /\ q.id \in Nat
      /\ sender.rows = {} => LastId(sender.rows) = 0
      /\ sender.rows # {} => \E q \in sender.rows : q.id = LastId(sender.rows)
  BY <1>1, SenderFacts, LastIdLargest DEF FiniteRows, Row
<1>6. server.last_id \in Nat
  BY <1>1, SenderFacts
<1>7. /\ server'.last_id \in {server.last_id, LastId(sender.rows)} /\ server'.last_id \in Nat
      /\ server.last_id <= server'.last_id /\ LastId(sender.rows) <= server'.last_id
  BY <1>2, <1>5, <1>6, LargerType
<1>8. Taking(server.last_id, {}, Env)
  BY DEF Safe, CoverInv
<1>9. Taking(server'.last_id, {}, Env')
  <2>1. CASE server'.last_id = server.last_id
    BY <1>4, <1>6, <1>8, <2>1
  <2>2. CASE server'.last_id = LastId(sender.rows) /\ sender.rows = {}
    BY <1>5, <1>6, <1>7, <2>1, <2>2
  <2>3. CASE server'.last_id = LastId(sender.rows) /\ sender.rows # {}
    <3>1. PICK q \in sender.rows : q.id = server'.last_id
      BY <1>5, <2>3
    <3>2. Taking(q.id, sender.rows, Env)
      BY DEF Safe, SenderInv, SenderOk
    <3>3. Taking(server'.last_id, sender.rows, Env')
      BY <1>1, <1>3, <3>1, <3>2, TakingGrows DEF EnvTyped
    <3>4. ASSUME NEW r \in Env'.stored, r.id <= server'.last_id
          PROVE  r.value \in Env'.received
      <4>1. r \in Env.stored /\ r.id \in Nat
        BY <1>1 DEF EnvTyped, IsEnv, Row
      <4>2. CASE r.id <= server.last_id
        BY <1>1, <1>2, <1>8, <4>1, <4>2 DEF Taking, EnvTyped
      <4>3. CASE r \in sender.rows /\ r.id > server.last_id
        BY <1>1, <1>2, <4>3 DEF EnvTyped, Values
      <4>4. r.value \in Env'.received \/ r \in sender.rows
        BY <3>3, <3>4 DEF Taking
      <4> QED  BY <1>6, <4>1, <4>2, <4>3, <4>4
    <3> QED  BY <3>3, <3>4 DEF Taking
  <2> QED  BY <1>7, <2>1, <2>2, <2>3
<1>10. CoverInv'
  <2>1. /\ lastid_stored \in Nat /\ pb.history_lastid_sent \in Nat
        /\ Taking(lastid_stored, {}, Env) /\ Taking(pb.history_lastid_sent, {}, Env)
    BY <1>1, SenderFacts DEF Safe, CoverInv
  <2> QED  BY <1>4, <1>9, <2>1 DEF CoverInv
<1>11. \A q \in sender.rows : q.id <= server'.last_id
  BY <1>5, <1>7
<1> QED  BY <1>2, <1>10, <1>11

LEMMA SafeUpload ==
  ASSUME Safe, Upload PROVE Safe'
<1>1. Typed /\ Typed'
  BY TypedUpload DEF Safe
<1>2. /\ sender.pc = "upload" /\ server' = Received
      /\ UNCHANGED <<pb, history, lock, stored, nextid, txn, handles, proxy, nextvalue, discarded>>
  BY DEF Upload
<1>3. /\ CoverInv' /\ server.received \subseteq server'.received
      /\ \A q \in sender.rows : q.id <= server'.last_id
  BY <1>1, <1>2, UploadReceived DEF stored
<1>4. /\ sender'.rows = sender.rows
      /\ \/ sender'.pc = "update"
         \/ sender'.pc = "begin" /\ sender.rows # {}
  BY <1>1, SenderFacts DEF Upload, SetSender, Sender
<1>5. SenderInv'
  BY <1>3, <1>4 DEF SenderInv, SenderOk
<1> QED  BY <1>1, <1>2, <1>3, <1>5, SenderStep DEF stored

LEMMA SafeUploadFails ==
  ASSUME Safe, UploadFails PROVE Safe'
<1>1. Typed /\ Typed'
  BY TypedUploadFails DEF Safe
<1>2. /\ sender.pc = "upload" /\ sender' = IdleSender
      /\ UNCHANGED <<pb, history, lock, stored, nextid, txn, handles, proxy, nextvalue, discarded>>
      /\ server' = server \/ server' = Received
  BY DEF UploadFails, SetSender
<1>3. SenderInv'
  BY <1>2, SenderRests DEF SenderInv, IdleSender
<1>4. CASE server' = server
  BY <1>1, <1>2, <1>3, <1>4, SenderOnly DEF stored
<1>5. CASE server' = Received
  <2>1. CoverInv' /\ server.received \subseteq server'.received
    BY <1>1, <1>2, <1>5, UploadReceived DEF stored
  <2> QED  BY <1>1, <1>2, <1>3, <2>1, SenderStep DEF stored
<1> QED  BY <1>2, <1>4, <1>5

LEMMA SafeBegin ==
  ASSUME Safe, Begin PROVE Safe'
<1>1. Typed /\ Typed'
  BY TypedBegin DEF Safe
<1>2. /\ sender.pc = "begin"
      /\ UNCHANGED <<pb, history, lock, stored, nextid, handles, outside, discarded>>
  BY DEF Begin
<1>3. sender'.pc = "commit" /\ sender'.rows = sender.rows
  BY <1>1, SenderFacts DEF Begin, SetSender, Sender
<1>4. SenderInv'
  BY <1>2, <1>3 DEF Safe, SenderInv, SenderOk, outside
<1> QED  BY <1>1, <1>2, <1>4, SenderOnly DEF stored, outside

LEMMA SafeSetLastid ==
  ASSUME Safe, SetLastid PROVE Safe'
<1> DEFINE lastid == LastId(sender.rows)
<1>1. Typed /\ Typed'
  BY TypedSetLastid DEF Safe
<1>2. /\ sender.pc = "commit" /\ sender' = [sender EXCEPT !.pc = "update"]
      /\ UNCHANGED <<lock, table, nextid, handles, outside, discarded>>
      /\ pb' = [pb EXCEPT !.history_lastid_sent = lastid]
      /\ \/ /\ Src(pb.state) = "memory" /\ history' = Unsent(lastid)
            /\ lastid_stored' = lastid_stored
         \/ /\ Src(pb.state) # "memory" /\ history' = history
            /\ lastid_stored' \in {lastid, lastid_stored}
  BY DEF SetLastid, SetSender
<1>3. EnvTyped /\ EnvTyped' /\ Ids(Env)
  BY <1>1, EnvTypes DEF Safe, IdInv
<1>4. /\ pb'.state = pb.state /\ pb'.mode = pb.mode
      /\ pb'.history_lastid_db = pb.history_lastid_db /\ pb'.history_lastid_sent = lastid
  <2>1. pb \in Buffer
    BY <1>1, SenderFacts
  <2> HIDE DEF lastid
  <2> QED  BY <1>2, <2>1 DEF Buffer
<1>5. lastid \in Nat /\ lastid <= server.last_id /\ server.last_id \in Nat
  <2>1. sender.rows # {} /\ \A q \in sender.rows : q.id <= server.last_id
    BY <1>2 DEF Safe, SenderInv, SenderOk
  <2>2. lastid \in Nat /\ \E q \in sender.rows : q.id = lastid
    BY <1>1, <2>1, SenderFacts, LastIdLargest DEF FiniteRows
  <2>3. server.last_id \in Nat
    BY <1>1, SenderFacts
  <2> HIDE DEF lastid
  <2> QED  BY <2>1, <2>2, <2>3
<1> HIDE DEF lastid
<1>6. Taking(server.last_id, {}, Env) /\ Taking(lastid_stored, {}, Env)
  BY DEF Safe, CoverInv
<1>7. Taking(lastid, {}, Env)
  BY <1>3, <1>5, <1>6, TakingLess DEF EnvTyped
<1>8. history' \subseteq history /\ \A r \in history \ history' : r.value \in server.received
  <2>1. ASSUME NEW r \in history, r \notin history' PROVE r.value \in server.received
    <3>1. r.id \in Nat /\ r \in Env.stored
      BY <1>3 DEF EnvTyped, IsEnv, Row
    <3>2. r.id <= server.last_id
      BY <1>2, <1>5, <2>1, <3>1 DEF Unsent
    <3> QED  BY <1>3, <1>6, <3>1, <3>2 DEF Taking, EnvTyped
  <2> QED  BY <1>2, <2>1 DEF Unsent
<1>9. Grows(Env, Env')
  BY <1>1, <1>2, <1>3, <1>8, SenderEnv DEF outside
<1>10. CoverInv'
  <2>1. ASSUME NEW x, Taking(x, {}, Env) PROVE Taking(x, {}, Env')
    BY <1>3, <1>9, <2>1, TakingGrows DEF EnvTyped
  <2>2. Taking(lastid, {}, Env') /\ Taking(server.last_id, {}, Env')
        /\ Taking(lastid_stored, {}, Env')
    BY <1>6, <1>7, <2>1
  <2> QED  BY <1>2, <1>4, <2>2 DEF CoverInv, outside
<1>11. SenderInv'
  <2>1. sender'.pc = "update"
    BY <1>1, <1>2, SenderFacts DEF Sender
  <2> QED  BY <2>1, SenderRests DEF SenderInv
<1>12. lastid_stored' = lastid_stored \/ Src(pb.state) = "database"
  BY <1>2 DEF Src
<1> QED  BY <1>1, <1>2, <1>4, <1>8, <1>10, <1>11, <1>12, SenderStep DEF outside

LEMMA SafeUpdateSkipped ==
  ASSUME Safe, UpdateSkipped PROVE Safe'
<1>1. Typed'
  BY TypedUpdateSkipped DEF Safe
<1>2. SenderInv'
  BY SenderRests DEF UpdateSkipped, SetSender, SenderInv, IdleSender
<1> QED  BY <1>1, <1>2, SenderOnly DEF UpdateSkipped, stored, outside

(* The memory takes over when nothing is left for the database. *)
LEMMA DatabaseDoneClean ==
  ASSUME Safe, proxy.mode = "hybrid", proxy.pc # "off", DatabaseDone
  PROVE  DbHandles = {} /\ Values(table) \subseteq server.received
<1>1. Typed /\ EnvTyped /\ HybridInv /\ proxy.pc = "running"
  BY EnvType DEF Safe, ModeInv, HybridInv, Typed, TypeInv
<1>2. DbHandles = {}
  <2>1. IsFiniteSet(DbHandles) /\ Cardinality(DbHandles) = 0
    BY <1>1 DEF Typed, CountInv, DatabaseDone
  <2> QED  BY <2>1, FS_EmptySet
<1>3. ASSUME NEW t \in table PROVE t.value \in server.received
  <2>1. t.id \in Nat /\ t \in Env.stored
    BY <1>1 DEF EnvTyped, IsEnv, Row
  <2>2. t.id <= pb.history_lastid_db
    <3>1. \A w \in Writers : handles[w].pc # "done"
      BY <1>2 DEF DbHandles, IsDb
    <3> QED  BY <1>1, <3>1 DEF HybridInv, LastDbInv
  <2>3. t.id <= pb.history_lastid_sent
    <3>1. pb.history_lastid_db \in Nat /\ pb.history_lastid_sent \in Nat
      BY <1>1 DEF Typed, TypeInv, Buffer
    <3> QED  BY <2>1, <2>2, <3>1 DEF DatabaseDone
  <2>4. Taking(pb.history_lastid_sent, {}, Env)
    BY DEF Safe, CoverInv
  <2> QED  BY <1>1, <2>1, <2>3, <2>4 DEF Taking, EnvTyped
<1> QED  BY <1>2, <1>3 DEF Values

LEMMA SafeUpdateState ==
  ASSUME Safe, UpdateState PROVE Safe'
<1>1. Typed /\ Typed'
  BY TypedUpdateState DEF Safe
<1>2. /\ sender.pc = "update" /\ sender' = IdleSender
      /\ UNCHANGED <<history, lock, table, nextid, txn, handles, outside, discarded>>
  BY DEF UpdateState, SetSender
<1>3. lastid_stored' \in {lastid_stored, pb.history_lastid_sent}
  BY DEF UpdateState
<1>4. /\ pb'.mode = pb.mode /\ pb'.history_lastid_db = pb.history_lastid_db
      /\ pb'.history_lastid_sent = pb.history_lastid_sent
      /\ pb.mode # "hybrid" => pb' = pb /\ lastid_stored' = lastid_stored
      /\ pb.mode = "hybrid" => pb'.state = NextState
  BY <1>1, SenderFacts DEF UpdateState, Buffer
<1>5. Grows(Env, Env') /\ IdInv'
  BY <1>1, <1>2, SenderEnv DEF Safe, IdInv, outside
<1>6. CoverInv'
  BY <1>1, <1>2, <1>3, <1>4, <1>5, CoverGrows DEF Safe, outside
<1>7. SenderInv'
  BY <1>2, SenderRests DEF SenderInv, IdleSender
<1>8. HandleInv' /\ FlightAfter'
  BY <1>2 DEF Safe, HandleInv, FlightAfter
<1>9. ASSUME proxy.mode = "hybrid" PROVE HybridInv'
  <2>1. HybridInv /\ pb.mode = "hybrid" /\ proxy.pc # "off" /\ DbHandles' = DbHandles
    BY <1>1, <1>2, <1>9, SenderFacts DEF Safe, ModeInv, DbHandles
  <2>2. \/ pb'.state = pb.state
        \/ pb'.state = "database" /\ history = {}
        \/ pb'.state = "database_memory" /\ pb.state = "database"
        \/ pb'.state = "memory" /\ pb.state = "database_memory" /\ DatabaseDone
    BY <1>4, <2>1 DEF NextState
  <2>3. LastDbInv'
    BY <1>2, <1>4, <2>1 DEF HybridInv, LastDbInv, outside
  <2>4. CASE pb'.state = pb.state
    <3>1. DatabaseFirst'
      BY <1>2, <2>1, <2>4 DEF HybridInv, DatabaseFirst
    <3>2. MemoryFirst'
      BY <1>2, <2>1, <2>4 DEF HybridInv, MemoryFirst, outside
    <3>3. CleanInv'
      BY <1>2, <2>1, <2>4 DEF HybridInv, CleanInv, outside
    <3> QED  BY <1>2, <2>1, <2>3, <2>4, <3>1, <3>2, <3>3 DEF HybridInv, outside
  <2>5. CASE pb'.state = "database" /\ history = {}
    <3>1. DatabaseFirst' /\ MemoryFirst' /\ CleanInv'
      BY <1>2, <2>5 DEF DatabaseFirst, MemoryFirst, CleanInv, Src
    <3> QED  BY <1>2, <2>1, <2>3, <2>5, <3>1 DEF HybridInv, outside
  <2>6. CASE pb'.state = "database_memory" /\ pb.state = "database"
    <3>1. DatabaseFirst'
      BY <1>2, <2>1, <2>6 DEF HybridInv, DatabaseFirst, Src
    <3>2. MemoryFirst' /\ CleanInv'
      BY <2>6 DEF MemoryFirst, CleanInv, Src
    <3> QED  BY <1>2, <2>1, <2>3, <2>6, <3>1, <3>2 DEF HybridInv, outside
  <2>7. CASE pb'.state = "memory" /\ pb.state = "database_memory" /\ DatabaseDone
    <3>1. DbHandles = {} /\ Values(table) \subseteq server.received
      BY <1>9, <2>1, <2>7, DatabaseDoneClean
    <3>2. DatabaseFirst' /\ CleanInv'
      BY <1>2, <2>1, <2>7, <3>1 DEF DatabaseFirst, CleanInv, Src, outside
    <3>3. MemoryFirst'
      BY <1>2, <3>1 DEF MemoryFirst, Values, outside
    <3> QED  BY <1>2, <2>1, <2>3, <2>7, <3>2, <3>3 DEF HybridInv, outside
  <2> QED  BY <2>2, <2>4, <2>5, <2>6, <2>7
<1>10. ModeInv'
  <2>1. ASSUME proxy.mode = "disk" PROVE DiskInv'
    BY <1>2, <1>4, <2>1 DEF Safe, ModeInv, DiskInv
  <2>2. ASSUME proxy.mode = "memory" PROVE MemoryInv'
    BY <1>2, <1>4, <2>2 DEF Safe, ModeInv, MemoryInv
  <2> QED  BY <1>2, <1>4, <1>9, <2>1, <2>2 DEF Safe, ModeInv, outside
<1>11. PlaceInv'
  BY <1>2, InPlaces, PlacesKept DEF Safe, outside
<1> QED  BY <1>1, <1>5, <1>6, <1>7, <1>8, <1>10, <1>11 DEF Safe

-----------------------------------------------------------------------------
(* Start and exit. *)

(* Without handles nothing is on its way. *)
LEMMA NoFlight ==
  ASSUME NEW w \in Writers, handles[w].pc = "idle" PROVE Flight(handles[w]) = {}
BY DEF Flight

LEMMA SafeInit == ASSUME Init PROVE Safe
<1>1. Typed /\ EnvTyped
  BY TypedInit, EnvType DEF Typed
<1>2. LastId({}) = 0
  BY DEF LastId
<1>3. PICK mode \in Modes :
        /\ pb = InitialPb(mode, {}, 0)
        /\ proxy = [pc |-> "running", mode |-> mode, starts |-> 1]
  BY DEF Init
<1>4. /\ history = {} /\ table = {} /\ lastid_stored = 0 /\ nextid = 1 /\ lock = Free
      /\ sender = IdleSender /\ server = [last_id |-> 0, received |-> {}]
      /\ nextvalue = 1
      /\ \A w \in Writers : handles[w] = IdleHandle
  BY DEF Init
<1>5. /\ pb.mode = mode /\ pb.history_lastid_sent = 0
      /\ pb.state = IF mode = "disk" THEN "database" ELSE "memory"
  BY <1>2, <1>3, BufferAssumption DEF InitialPb
<1>6. \A w \in Writers : Flight(handles[w]) = {} /\ ~IsDb(handles[w])
  BY <1>4 DEF IdleHandle, Flight, IsDb
<1>7. Env.stored = {} /\ Env.next = 1 /\ \A w \in Writers : Env.flight[w] = {}
  BY <1>1, <1>4, <1>6 DEF EnvTyped
<1>8. IdInv
  BY <1>7 DEF IdInv, Ids
<1>9. CoverInv
  BY <1>4, <1>5, <1>7 DEF CoverInv, Taking
<1>10. SenderInv
  BY <1>4, SenderRests DEF SenderInv, IdleSender
<1>11. HandleInv /\ FlightAfter
  BY <1>4, <1>6 DEF HandleInv, FlightAfter, IdleHandle
<1>12. ModeInv
  <2>1. DbHandles = {}
    BY <1>6 DEF DbHandles
  <2>2. HybridInv \/ mode # "hybrid"
    BY <1>3, <1>4, <1>5, <2>1
       DEF HybridInv, DatabaseFirst, MemoryFirst, CleanInv, LastDbInv, Values, IdleHandle
  <2>3. DiskInv \/ mode # "disk"
    BY <1>4, <1>5 DEF DiskInv, IdleHandle
  <2>4. MemoryInv \/ mode # "memory"
    BY <1>4, <1>5 DEF MemoryInv, IdleHandle
  <2> QED  BY <1>3, <1>5, <2>2, <2>3, <2>4 DEF ModeInv
<1>13. PlaceInv
  BY <1>4 DEF PlaceInv, Collected
<1> QED  BY <1>1, <1>8, <1>9, <1>10, <1>11, <1>12, <1>13 DEF Safe

(* The state pb_create and pb_init_state leave the buffer in. *)
LEMMA StartedPb ==
  ASSUME Typed, Start
  PROVE  /\ pb'.mode = proxy.mode
         /\ pb'.history_lastid_sent \in Nat /\ lastid_stored' \in Nat
         /\ proxy.mode = "disk" => pb'.state = "database"
         /\ proxy.mode = "memory" => pb'.state = "memory" /\ pb'.history_lastid_sent = 0
                                     /\ lastid_stored' = lastid_stored
         /\ proxy.mode # "memory" =>
              /\ pb'.history_lastid_sent <= lastid_stored
              /\ pb'.history_lastid_sent <= LastId(table)
              /\ lastid_stored' <= lastid_stored /\ lastid_stored' <= LastId(table)
              /\ pb'.history_lastid_db = LastId(table)
         /\ proxy.mode = "hybrid" =>
              \/ pb'.state = "database"
              \/ pb'.state = "memory" /\ LastId(table) <= lastid_stored
<1>1. LastId(table) \in Nat /\ lastid_stored \in Nat
  BY RowSets DEF Typed, TypeInv
<1>2. pb' = InitialPb(proxy.mode, table, lastid_stored)
      /\ lastid_stored' = IF proxy.mode # "memory" /\ lastid_stored > LastId(table)
                            THEN LastId(table) ELSE lastid_stored
  BY DEF Start
<1> QED  BY <1>1, <1>2 DEF InitialPb

LEMMA SafeStart == ASSUME Safe, Start PROVE Safe'
<1>1. Typed /\ Typed' /\ EnvTyped /\ EnvTyped' /\ Ids(Env)
  BY TypedStart, EnvTypes DEF Safe, IdInv
<1>2. /\ proxy.pc = "off" /\ nextid' = LastId(table) + 1
      /\ server' = [server EXCEPT !.last_id = 0]
      /\ proxy' = [proxy EXCEPT !.pc = "running", !.starts = @ + 1]
      /\ UNCHANGED <<history, lock, table, txn, handles, sender, nextvalue, discarded>>
  BY DEF Start
<1>3. /\ history = {} /\ sender.pc = "idle" /\ \A w \in Writers : handles[w].pc = "idle"
  BY <1>1, <1>2 DEF Typed, OffInv
<1>4. /\ proxy'.pc = "running" /\ proxy'.mode = proxy.mode
      /\ server'.last_id = 0 /\ server'.received = server.received
  BY <1>1, <1>2 DEF Typed, TypeInv
<1>5. /\ LastId(table) \in Nat /\ lastid_stored \in Nat
      /\ \A t \in table : t.id \in Nat /\ t.id <= LastId(table)
  BY <1>1, LastIdLargest DEF Typed, TypeInv, FiniteRows, Row
<1>6. /\ Env'.stored = table /\ Env'.next = LastId(table) + 1
      /\ Env'.received = server.received /\ \A w \in Writers : Env'.flight[w] = {}
  BY <1>1, <1>2, <1>3, <1>4, NoFlight DEF EnvTyped
<1>7. \A t \in table : 0 < t.id
  BY <1>1 DEF EnvTyped, Ids
<1>8. IdInv'
  <2>1. \A t \in table : 0 < t.id /\ t.id < LastId(table) + 1
    BY <1>5, <1>7
  <2> QED  BY <1>6, <2>1 DEF IdInv, Ids
<1>9. ASSUME NEW x \in Nat, x <= LastId(table), x <= lastid_stored PROVE Taking(x, {}, Env')
  <2>1. Taking(lastid_stored, {}, Env)
    BY DEF Safe, CoverInv
  <2>2. Taking(x, {}, Env)
    BY <1>1, <1>9, <2>1, TakingLess DEF EnvTyped
  <2>3. x < LastId(table) + 1
    BY <1>5, <1>9
  <2> QED  BY <1>1, <1>6, <2>2, <2>3 DEF Taking, EnvTyped
<1>10. Taking(0, {}, Env')
  BY <1>5, <1>9
<1>11. proxy.mode = "memory" => MemoryInv
  BY DEF Safe, ModeInv
<1>12. CoverInv'
  <2>1. CASE proxy.mode = "memory"
    BY <1>1, <1>2, <1>4, <1>10, <1>11, <2>1, StartedPb DEF CoverInv, MemoryInv
  <2>2. CASE proxy.mode # "memory"
    BY <1>1, <1>4, <1>9, <1>10, <2>2, StartedPb DEF CoverInv
  <2> QED  BY <2>1, <2>2
<1>13. SenderInv'
  <2>1. sender'.pc = "idle" /\ sender'.rows = {} /\ sender'.gapid = 0
    BY <1>2, <1>3 DEF Safe, SenderInv, SenderOk
  <2> QED  BY <2>1, SenderRests DEF SenderInv
<1>14. HandleInv' /\ FlightAfter'
  BY <1>2, <1>3 DEF Safe, HandleInv, FlightAfter
<1>15. ASSUME proxy.mode = "hybrid" PROVE HybridInv'
  <2>1. DbHandles' = {}
    BY <1>2, <1>3 DEF DbHandles, IsDb
  <2>2. LastDbInv'
    BY <1>1, <1>2, <1>5, <1>15, StartedPb DEF LastDbInv
  <2>3. CleanInv'
    <3>1. SUFFICES ASSUME pb'.state = "memory", NEW t \in table PROVE t.value \in server.received
      BY <1>2, <1>4, <2>1 DEF CleanInv, Values
    <3>2. LastId(table) <= lastid_stored
      BY <1>1, <1>15, <3>1, StartedPb
    <3>3. t.id <= lastid_stored
      BY <1>5, <3>2
    <3>4. Taking(lastid_stored, {}, Env)
      BY DEF Safe, CoverInv
    <3> QED  BY <1>1, <3>3, <3>4 DEF Taking, EnvTyped
  <2> QED  BY <1>2, <1>3, <1>4, <2>1, <2>2, <2>3 DEF HybridInv, DatabaseFirst, MemoryFirst
<1>16. ModeInv'
  <2>1. ASSUME proxy.mode = "disk" PROVE DiskInv'
    BY <1>1, <1>2, <2>1, StartedPb DEF Safe, ModeInv, DiskInv
  <2>2. ASSUME proxy.mode = "memory" PROVE MemoryInv'
    BY <1>1, <1>2, <1>11, <2>2, StartedPb DEF MemoryInv
  <2> QED  BY <1>1, <1>4, <1>15, <2>1, <2>2, StartedPb DEF ModeInv
<1>17. PlaceInv'
  BY <1>2, <1>4, InPlaces, PlacesKept DEF Safe
<1> QED  BY <1>1, <1>8, <1>12, <1>13, <1>14, <1>16, <1>17 DEF Safe

(* A hybrid proxy is not stopped. *)
LEMMA SafeDisable == ASSUME Safe, OrderedModes, Disable PROVE Safe'
<1>1. Typed /\ Typed'
  BY TypedDisable DEF Safe
<1>2. proxy.mode # "hybrid"
  BY <1>1, ProxyModes DEF Disable, Occurs, OrderedModes
<1>3. /\ pb' = pb /\ proxy' = [proxy EXCEPT !.pc = "exiting"]
      /\ UNCHANGED <<history, lock, stored, nextid, txn, handles, sender, server,
                     nextvalue, discarded>>
  BY <1>2 DEF Disable, Safe, ModeInv
<1>4. proxy'.mode = proxy.mode
  BY <1>1, <1>3 DEF Typed, TypeInv
<1>5. Env' = Env /\ Grows(Env, Env')
  BY <1>1, <1>3, EnvSame DEF stored
<1>6. OrderInv'
  BY <1>1, <1>3, <1>5, OrderKept DEF Safe, OrderInv, IdInv, stored
<1>7. HandleInv' /\ FlightAfter'
  BY <1>3 DEF Safe, HandleInv, FlightAfter
<1>8. ModeInv'
  BY <1>2, <1>3, <1>4 DEF Safe, ModeInv, DiskInv, MemoryInv, stored
<1>9. PlaceInv'
  BY <1>3, InPlaces, PlacesKept DEF Safe, stored
<1> QED  BY <1>1, <1>6, <1>7, <1>8, <1>9 DEF Safe, OrderInv

LEMMA SafeFlushOnExit == ASSUME Safe, FlushOnExit PROVE Safe'
<1>1. Typed /\ Typed'
  BY TypedFlushOnExit DEF Safe
<1>2. /\ proxy.pc = "exiting" /\ history' = {}
      /\ proxy' = [proxy EXCEPT !.pc = "off"]
      /\ UNCHANGED <<pb, lock, nextid, txn, handles, sender, server, nextvalue>>
      /\ \/ /\ pb.mode # "memory" /\ table' = table \cup history
            /\ lastid_stored' \in {lastid_stored, pb.history_lastid_sent}
            /\ discarded' = discarded
         \/ /\ table' = table /\ lastid_stored' = lastid_stored
            /\ discarded' = discarded \cup Values(history)
  BY DEF FlushOnExit, Flushed, FlushedLastid, stored
<1>3. proxy'.mode = proxy.mode /\ proxy.mode # "hybrid" /\ pb.mode = proxy.mode
  BY <1>1, <1>2 DEF Typed, TypeInv, Safe, ModeInv, HybridInv
<1>4. EnvTyped /\ EnvTyped' /\ Ids(Env)
  BY <1>1, EnvTypes DEF Safe, IdInv
<1>5. /\ Env'.stored \subseteq Env.stored /\ Env'.next = Env.next
      /\ \A w \in Writers : Env'.flight[w] = Env.flight[w]
      /\ Env'.received = Env.received /\ Env.next \in Nat
  BY <1>2, <1>4 DEF EnvTyped, IsEnv
<1>6. Grows(Env, Env') /\ Ids(Env')
  <2>1. Grows(Env, Env')
    BY <1>5 DEF Grows
  <2>2. Ids(Env')
    BY <1>4, <1>5 DEF Ids
  <2> QED  BY <2>1, <2>2
<1>7. OrderInv'
  BY <1>1, <1>2, <1>6, OrderKept DEF Safe, OrderInv
<1>8. HandleInv' /\ FlightAfter'
  BY <1>2 DEF Safe, HandleInv, FlightAfter
<1>9. ModeInv'
  <2>1. ASSUME proxy.mode = "disk" PROVE DiskInv'
    BY <1>2, <2>1 DEF Safe, ModeInv, DiskInv
  <2>2. ASSUME proxy.mode = "memory" PROVE MemoryInv'
    BY <1>2, <1>3, <2>2 DEF Safe, ModeInv, MemoryInv
  <2> QED  BY <1>2, <1>3, <2>1, <2>2 DEF ModeInv
<1>10. PlaceInv'
  <2>1. \A r \in history \cup table : r.value \in Places'
    BY <1>2, InPlaces DEF Values
  <2> QED  BY <1>2, <2>1, InPlaces, PlacesKept DEF Safe
<1> QED  BY <1>1, <1>7, <1>8, <1>9, <1>10 DEF Safe, OrderInv

LEMMA SafeCrash == ASSUME Safe, Crash PROVE Safe'
<1>1. Typed /\ Typed'
  BY TypedCrash DEF Safe
<1>2. /\ history' = {} /\ handles' = [w \in Writers |-> IdleHandle] /\ sender' = IdleSender
      /\ proxy' = [proxy EXCEPT !.pc = "off"]
      /\ discarded' = discarded \union Values(history)
                        \union UNION {Values(handles[w].rows) : w \in Writers}
      /\ UNCHANGED <<pb, stored, nextid, server, nextvalue>>
  BY DEF Crash
<1>3. proxy'.pc = "off" /\ proxy'.mode = proxy.mode
  BY <1>1, <1>2 DEF Typed, TypeInv
<1>4. \A w \in Writers : /\ handles'[w].pc = "idle" /\ handles'[w].state = "database"
                         /\ handles'[w].rows = {} /\ Flight(handles'[w]) = {}
  BY <1>2 DEF IdleHandle, Flight
<1>5. EnvTyped /\ EnvTyped' /\ Ids(Env)
  BY <1>1, EnvTypes DEF Safe, IdInv
<1>6. /\ Env'.stored \subseteq Env.stored /\ Env'.next = Env.next
      /\ \A w \in Writers : Env'.flight[w] = {}
      /\ Env'.received = Env.received /\ Env.next \in Nat
  BY <1>2, <1>4, <1>5 DEF EnvTyped, IsEnv, stored
<1>7. Grows(Env, Env') /\ IdInv'
  <2>1. Grows(Env, Env')
    BY <1>6 DEF Grows
  <2>2. Ids(Env')
    BY <1>5, <1>6 DEF Ids
  <2> QED  BY <2>1, <2>2 DEF IdInv
<1>8. CoverInv'
  BY <1>1, <1>2, <1>7, CoverGrows DEF Safe, stored
<1>9. SenderInv'
  BY <1>2, SenderRests DEF SenderInv, IdleSender
<1>10. HandleInv' /\ FlightAfter'
  BY <1>2, <1>4 DEF HandleInv, FlightAfter
<1>11. ASSUME proxy.mode = "hybrid" PROVE HybridInv'
  <2>1. HybridInv
    BY <1>11 DEF Safe, ModeInv
  <2> QED  BY <1>2, <1>3, <1>4, <2>1
           DEF HybridInv, DatabaseFirst, MemoryFirst, CleanInv, LastDbInv, stored
<1>12. ModeInv'
  <2>1. ASSUME proxy.mode = "disk" PROVE DiskInv'
    BY <1>2, <1>4, <2>1 DEF Safe, ModeInv, DiskInv
  <2>2. ASSUME proxy.mode = "memory" PROVE MemoryInv'
    BY <1>2, <1>4, <2>2 DEF Safe, ModeInv, MemoryInv, stored
  <2> QED  BY <1>2, <1>3, <1>11, <2>1, <2>2 DEF Safe, ModeInv
<1>13. PlaceInv'
  <2>1. Values(history) \subseteq Places' /\ \A w \in Writers : Values(handles[w].rows) \subseteq Places'
    BY <1>2, InPlaces
  <2>2. /\ \A r \in history : r.value \in Places'
        /\ \A w \in Writers : \A r \in handles[w].rows : r.value \in Places'
    BY <2>1 DEF Values
  <2> QED  BY <1>2, <2>2, InPlaces, PlacesKept DEF Safe, stored
<1> QED  BY <1>1, <1>7, <1>8, <1>9, <1>10, <1>12, <1>13 DEF Safe

-----------------------------------------------------------------------------
(* What follows. *)

LEMMA SafeNext == OrderedModes => (Safe /\ [Next]_vars => Safe')
<1> SUFFICES ASSUME OrderedModes, Safe, [Next]_vars PROVE Safe'
  OBVIOUS
<1>1. CASE UNCHANGED vars
  <2>1. Typed'
    BY <1>1, TypedNext DEF Safe
  <2>2. /\ UNCHANGED <<pb, history, table, lastid_stored, nextid, lock, handles, sender,
                       server, proxy, nextvalue, discarded>>
    BY <1>1 DEF vars
  <2>3. Env' = Env
    BY <2>1, <2>2, EnvSame DEF Safe
  <2>4. SenderInv'
    BY <2>2, <2>3 DEF Safe, SenderInv
  <2> QED  BY <2>1, <2>2, <2>4, SenderOnly
<1>2. CASE \E w \in Writers : Open(w) \/ Closing(w)
  BY <1>2, SafeOpen, SafeCloseEmpty, SafeCloseMemory, SafeFallback, SafeAssignIds,
     SafeInsert, SafeClose DEF Closing
<1>3. CASE Sending
  BY <1>3, SafeGetRows, SafeSelect, SafeWaitHandles, SafeUpload, SafeUploadFails,
     SafeBegin, SafeSetLastid, SafeUpdateState, SafeUpdateSkipped DEF Sending
<1>4. CASE Start \/ Disable \/ FlushOnExit \/ Crash
  BY <1>4, SafeStart, SafeDisable, SafeFlushOnExit, SafeCrash
<1> QED  BY <1>1, <1>2, <1>3, <1>4 DEF Next

(* A value that is stored is received, or its row has a new identifier. *)
LEMMA SafeNoLoss == Safe => NoLoss
<1> SUFFICES ASSUME Safe, NEW v \in Collected
             PROVE  \/ v \in server.received \union discarded
                    \/ \E w \in Writers : v \in Values(handles[w].rows)
                    \/ \E r \in history \union table : r.value = v /\ Pending(r)
  BY DEF NoLoss
<1>1. EnvTyped
  BY EnvType DEF Safe, Typed
<1>2. v \in Places
  BY DEF Safe, PlaceInv
<1>3. CASE v \in Values(history \cup table) /\ v \notin server.received
  <2>1. PICK r \in history \cup table : r.value = v
    BY <1>3 DEF Values
  <2>2. r \in Env.stored /\ r.id \in Nat /\ r.value \notin Env.received
    BY <1>1, <1>3, <2>1 DEF EnvTyped, IsEnv, Row
  <2>3. /\ server.last_id \in Nat /\ lastid_stored \in Nat
        /\ ~(r.id <= server.last_id) /\ ~(r.id <= lastid_stored)
    BY <2>2 DEF Safe, CoverInv, Taking
  <2>4. r.id > server.last_id /\ r.id > lastid_stored
    BY <2>2, <2>3
  <2> QED  BY <2>1, <2>4 DEF Pending
<1> QED  BY <1>2, <1>3 DEF Places

LEMMA SafeClean == Safe => MemoryClean
<1> SUFFICES ASSUME Safe, proxy.pc = "running", pb.mode = "hybrid", pb.state = "memory"
             PROVE  /\ Values(table) \subseteq server.received
                    /\ \A w \in Writers : handles[w].state = "database" => handles[w].pc = "idle"
  BY DEF MemoryClean
<1>1. Values(table) \subseteq server.received /\ DbHandles = {}
  BY DEF Safe, ModeInv, HybridInv, CleanInv
<1>2. \A w \in Writers : handles[w].pc \in {"idle", "open", "flush", "insert", "done"}
  BY TypedHandles DEF Safe, Typed, Handle
<1> QED  BY <1>1, <1>2 DEF DbHandles, IsDb, Safe, HandleInv

(***************************************************************************)
(* With every number of history syncers in disk and in memory mode, with   *)
(* one in hybrid mode, for every size of buffer and upload, every number   *)
(* of values and every number of crashes and restarts: a value that was    *)
(* collected has been received, was dropped where the code means to drop   *)
(* it, is in a handle, or will be uploaded with an identifier that the     *)
(* server does not take for a duplicate (zbx_pb_history_close,             *)
(* zbx_pb_history_get_rows, zbx_pb_set_history_lastid).                    *)
(***************************************************************************)
THEOREM NothingLost == ASSUME OrderedModes PROVE Spec => []NoLoss
<1>1. Init => Safe
  BY SafeInit
<1>2. Safe /\ [Next]_vars => Safe'
  BY SafeNext
<1> QED  BY <1>1, <1>2, SafeNoLoss, PTL DEF Spec

(***************************************************************************)
(* In memory state of a hybrid proxy the database holds nothing that was   *)
(* not uploaded and no handle is about to write to it, so forgetting the   *)
(* database is safe (pb_update_state, pb_init_state).                      *)
(***************************************************************************)
THEOREM MemoryStateClean == ASSUME OrderedModes PROVE Spec => []MemoryClean
<1>1. Init => Safe
  BY SafeInit
<1>2. Safe /\ [Next]_vars => Safe'
  BY SafeNext
<1> QED  BY <1>1, <1>2, SafeClean, PTL DEF Spec
=============================================================================
