------------------------ MODULE HistoryCache_proofs ------------------------
EXTENDS HistoryCache, FiniteSetTheorems, SequenceTheorems, WellFoundedInduction,
        TLAPS, FoldTheorems

(***************************************************************************)
(* Safety of the history cache for every set of items, triggers, flushers  *)
(* and syncers.  The proofs rest on one inductive invariant, Inv.  Its     *)
(* centre is ListInv, which relates the list of an item to its past: the   *)
(* records are in order and were accepted, every accepted value is in the  *)
(* list, written or gone, everything written is older than what is still   *)
(* in the list, and the newest metadata is in the last record.  ListInv    *)
(* takes the parts of the state as parameters, so that each operation on a *)
(* list (insert, merge, clear, pop, drop, write) is one lemma about lists, *)
(* and the step lemmas only say which operation a handler applies to which *)
(* item.  OwnInv says whose an item is, SyncOf, ReadOf and ProcessedOf     *)
(* what a syncer knows at each place of its round, and LockedOf which      *)
(* triggers it has locked.                                                 *)
(***************************************************************************)

(* ---- types ---- *)
Update == [item : Item, val : BOOLEAN]
List == [data : Seq(Records), busy : BOOLEAN, keep : BOOLEAN]
Hists == UNION {[S -> Records] : S \in SUBSET Item}
SyncerState == [pc : {"idle", "popped", "busy", "locked", "prepared", "timers", "unlock", "push",
                      "ended", "dead"},
                batch : SUBSET Item, trig : SUBSET Trigger,
                hist : Hists,
                calc : SUBSET Trigger, last : BOOLEAN]
FlusherState(x) ==
  /\ x.pc \in {"ready", "waiting", "ended"} /\ x.added \in Nat /\ x.todo \in Seq(Update)
  /\ x.pc = "waiting" => x.todo # <<>>
Caches == UNION {[S -> List] : S \in SUBSET Item}
TypeInv ==
  /\ cache \in Caches /\ queue \in [Item -> {0, 1}]
  /\ accepted \in [Item -> Nat] /\ value \in [Item -> SUBSET Nat] /\ drift \in Int
  /\ written \in [Item -> Seq(Nat)] /\ meta \in [Item -> Nat] /\ gone \in [Item -> SUBSET Nat]
  /\ status \in [Item -> {"active", "disabled", "deleted", "removed"}]
  /\ DOMAIN flush = Flusher
  /\ \A f \in Flusher : FlusherState(flush[f])
  /\ sync \in [Syncer -> SyncerState]

(* whose an item is: the queue's, one syncer's, or nobody's when it is empty *)
Holds(s, i) == i \in sync[s].batch
OwnInv ==
  /\ \A i \in Item : queue[i] = 1 => \A s \in Syncer : ~Holds(s, i)
  /\ \A i \in Item : \A s, t \in Syncer : Holds(s, i) /\ Holds(t, i) => s = t
  /\ \A i \in Item : Data(i) # <<>> <=> queue[i] = 1 \/ \E s \in Syncer : Holds(s, i)

(* the parts of ListInv, for a list d of an item with a records accepted *)
InOrder(d, a) ==
  \A k \in DOMAIN d : d[k].n <= a /\ \A l \in DOMAIN d : k < l => d[k].n < d[l].n
Valued(d, a, v) == v \subseteq 1 .. a /\ \A k \in DOMAIN d : d[k].n \in v => d[k].val
(* an accepted value is written, gone or still in the list *)
Present(d, v, w, g) == v \subseteq Range(w) \union g \union Numbers(d)
(* what is written is older than what is left; the first record may have been *)
(* written already while its syncer has not pushed it, or died (again)        *)
Before(d, a, w, again) ==
  \A k \in DOMAIN w :
    /\ w[k] <= a
    /\ \A l \in DOMAIN d : /\ w[k] <= d[l].n
                           /\ w[k] = d[l].n => again /\ k = Len(w) /\ l = 1
(* values are written in order, and once unless a syncer has died *)
Ascends(w) ==
  \A k, l \in DOMAIN w :
    k < l => w[k] < w[l] \/ (w[k] = w[l] /\ l = k + 1 /\ Dead # {})
(* the newest metadata is in the last record, or in the item *)
MetaOf(d, a, g, m) ==
  /\ \A k \in DOMAIN d : d[k].meta # 0
  /\ IF d = <<>> THEN g = {} => m = a ELSE d[Len(d)].meta = a

(* the list d of an item, with a records accepted, the values v among them, *)
(* the values w written, the records g gone and the metadata m              *)
ListInv(i, d, a, v, w, g, m, again) ==
  /\ InOrder(d, a) /\ Valued(d, a, v) /\ Present(d, v, w, g) /\ Before(d, a, w, again)
  /\ i \in LogItem => MetaOf(d, a, g, m)

(* the first record of item i may have been written and still be in the list *)
Again(i) ==
  \/ \E s \in Syncer : i \in DOMAIN sync[s].hist /\ sync[s].pc # "prepared"
  \/ main \in {"sync", "end"} /\ Dead # {}
ItemInv(i) ==
  /\ ListInv(i, Data(i), accepted[i], value[i], written[i], gone[i], meta[i], Again(i))
  /\ Ascends(written[i])

(* what holds of a syncer at each place of its round *)
SyncOf(s) ==
  /\ sync[s].pc \in {"idle", "ended"} => sync[s].batch = {}
  /\ DOMAIN sync[s].hist \subseteq sync[s].batch
  /\ sync[s].pc \in {"popped", "busy", "locked"} => DOMAIN sync[s].hist = {}
  /\ sync[s].pc = "busy" => \A i \in sync[s].batch : cache[i].busy
  /\ sync[s].pc \in {"prepared", "timers", "unlock", "push"} =>
       \A i \in sync[s].batch : i \in DOMAIN sync[s].hist <=> ~cache[i].busy
SyncInv == \A s \in Syncer : SyncOf(s)
(* what it has read is still the first record (ReadStable, for one syncer) *)
ReadOf(s) ==
  \A i \in DOMAIN sync[s].hist :
    /\ Data(i) # <<>>
    /\ [Data(i)[1] EXCEPT !.undef = sync[s].hist[i].undef] = sync[s].hist[i]
(* after the write, what it has read is written or gone *)
ProcessedOf(s) ==
  sync[s].pc \in {"timers", "unlock", "push"} =>
    \A i \in DOMAIN sync[s].hist :
      /\ sync[s].hist[i].n \in value[i] => sync[s].hist[i].n \in Range(written[i]) \union gone[i]
      /\ i \in LogItem /\ gone[i] = {} => meta[i] = sync[s].hist[i].meta
ProcessedInv == \A s \in Syncer : ProcessedOf(s)
(* the main process writes the rest only when nobody else is left *)
EndInv ==
  main \in {"sync", "end"} =>
    /\ \A s \in Syncer : sync[s].pc \in {"ended", "dead"} /\ sync[s].batch = {}
    /\ \A f \in Flusher : flush[f].pc = "ended"
    /\ main = "end" => \A i \in Item : Data(i) = <<>>

(* until it has recalculated, the triggers of the items it processes are its *)
LockedOf(s) ==
  sync[s].pc \in {"locked", "prepared", "timers"} =>
    \A i \in sync[s].batch : ~cache[i].busy /\ Data(i)[1].val =>
      EnabledTriggers(i) \subseteq sync[s].trig \union toggled
LocksInv ==
  /\ \A s \in Syncer : sync[s].trig \subseteq locked
  /\ \A s, t \in Syncer : s # t => sync[s].trig \cap sync[t].trig = {}
  /\ \A s \in Syncer : /\ sync[s].calc \subseteq sync[s].trig \union toggled
                       /\ sync[s].pc # "unlock" => sync[s].calc = {}
TriggerInv == LocksInv /\ \A s \in Syncer : LockedOf(s)

(* the inductive invariant *)
Inv == /\ TypeInv /\ OwnInv /\ (\A i \in Item : ItemInv(i)) /\ SyncInv /\ ReadStable
       /\ ProcessedInv /\ EndInv /\ TriggerInv

---------------------------------------------------------------------------
(* operations on lists *)

(* the fields of a record, without its other fields *)
LEMMA RecordFields ==
  ASSUME NEW r \in Records
  PROVE  r.n \in Nat /\ r.n # 0 /\ r.val \in BOOLEAN /\ r.meta \in Nat
  BY DEF Records

(* a record is stored at the end of the list *)
LEMMA InsertItem ==
  ASSUME NEW d \in Seq(Records), NEW a \in Nat, NEW v \in SUBSET Nat, NEW w \in Seq(Nat),
         NEW g \in SUBSET Nat, NEW again \in BOOLEAN, NEW m \in Nat, NEW i,
         NEW r \in Records, r.n = a + 1, i \in LogItem => r.meta = a + 1,
         NEW v2, v2 = IF r.val THEN v \union {a + 1} ELSE v,
         ListInv(i, d, a, v, w, g, m, again)
  PROVE  ListInv(i, Append(d, r), a + 1, v2, w, g, m, again)
<1> USE DEF ListInv
<1> DEFINE e == Append(d, r)
<1>1. /\ e \in Seq(Records) /\ Len(e) = Len(d) + 1 /\ Len(d) \in Nat
      /\ DOMAIN e = 1 .. Len(d) + 1 /\ DOMAIN d = 1 .. Len(d)
      /\ e[Len(d) + 1] = r /\ \A k \in DOMAIN d : e[k] = d[k]
  OBVIOUS
<1>2. \A k \in DOMAIN d : d[k].n \in Nat /\ d[k] \in Records
  <2>1. \A k \in DOMAIN d : d[k] \in Records
    OBVIOUS
  <2> QED  BY <2>1, RecordFields
<1> HIDE DEF e
<1>3. \A k \in DOMAIN e : k \in DOMAIN d \/ k = Len(d) + 1
  BY <1>1
<1>4. InOrder(e, a + 1)
  <2>1. ASSUME NEW k \in DOMAIN d
        PROVE  /\ e[k].n \in Nat /\ e[k].n <= a /\ k < Len(d) + 1
               /\ \A l \in DOMAIN d : k < l => e[k].n < e[l].n
    BY <1>1, <1>2 DEF InOrder
  <2>2. ASSUME NEW k \in DOMAIN e PROVE e[k].n <= a + 1
    BY <1>1, <1>3, <2>1
  <2>3. ASSUME NEW k \in DOMAIN e, NEW l \in DOMAIN e, k < l PROVE e[k].n < e[l].n
    <3>1. k \in DOMAIN d
      BY <1>1, <2>3
    <3> QED  BY <1>1, <1>3, <2>1, <2>3, <3>1
  <2> QED  BY <2>2, <2>3 DEF InOrder
<1>5. Valued(e, a + 1, v2)
  <2>1. v2 \subseteq 1 .. a + 1
    BY DEF Valued
  <2>2. ASSUME NEW k \in DOMAIN e, e[k].n \in v2 PROVE e[k].val
    <3>1. CASE k \in DOMAIN d
      <4>1. d[k].n <= a /\ d[k].n \in Nat
        BY <1>2, <3>1 DEF InOrder
      <4> QED  BY <1>1, <2>2, <3>1, <4>1 DEF Valued
    <3>2. CASE k = Len(d) + 1
      BY <1>1, <2>2, <3>2 DEF Valued
    <3> QED  BY <1>3, <3>1, <3>2
  <2> QED  BY <2>1, <2>2 DEF Valued
<1>6. Present(e, v2, w, g)
  <2>1. Numbers(d) \subseteq Numbers(e) /\ a + 1 \in Numbers(e)
    BY <1>1, SMTT(30) DEF Numbers
  <2> QED  BY <2>1 DEF Present
<1>7. Before(e, a + 1, w, again)
  <2>1. ASSUME NEW k \in DOMAIN w PROVE w[k] \in Nat /\ w[k] <= a /\ w[k] <= a + 1
    <3>1. w[k] \in Nat
      OBVIOUS
    <3>2. w[k] <= a
      BY DEF Before
    <3> QED  BY <3>1, <3>2
  <2>2. ASSUME NEW k \in DOMAIN w, NEW l \in DOMAIN e
        PROVE  w[k] <= e[l].n /\ (w[k] = e[l].n => again /\ k = Len(w) /\ l = 1)
    <3>1. CASE l \in DOMAIN d
      BY <1>1, <3>1 DEF Before
    <3>2. CASE l = Len(d) + 1
      BY <1>1, <2>1, <3>2
    <3> QED  BY <1>3, <3>1, <3>2
  <2> QED  BY <2>1, <2>2 DEF Before
<1>8. i \in LogItem => MetaOf(e, a + 1, g, m)
  BY <1>1, <1>3 DEF MetaOf
<1> QED  BY <1>4, <1>5, <1>6, <1>7, <1>8 DEF e

(* a record without a value is merged into the last record *)
MergedList(i, d, a) ==
  [d EXCEPT ![Len(d)].meta = IF i \in LogItem THEN a + 1 ELSE d[Len(d)].meta]
\* A record merged into the last one keeps what is known of the list.
LEMMA MergeItem ==
  ASSUME NEW d \in Seq(Records), NEW a \in Nat, NEW v \in SUBSET Nat, NEW w \in Seq(Nat),
         NEW g \in SUBSET Nat, NEW again \in BOOLEAN, NEW m \in Nat, NEW i,
         Len(d) > 1,
         ListInv(i, d, a, v, w, g, m, again)
  PROVE  /\ MergedList(i, d, a) \in Seq(Records) /\ Len(MergedList(i, d, a)) = Len(d)
         /\ MergedList(i, d, a)[1] = d[1]
         /\ ListInv(i, MergedList(i, d, a), a + 1, v, w, g, m, again)
<1> DEFINE e == MergedList(i, d, a)
           x == IF i \in LogItem THEN a + 1 ELSE d[Len(d)].meta
<1> USE DEF ListInv, MergedList
<1>1. /\ DOMAIN d = 1 .. Len(d) /\ DOMAIN e = 1 .. Len(d) /\ Len(d) \in Nat /\ Len(d) \in DOMAIN d
      /\ \A k \in DOMAIN d : d[k] \in Records /\ d[k].n \in Nat /\ d[k].meta \in Nat
  <2>1. \A k \in DOMAIN d : d[k] \in Records
    OBVIOUS
  <2>2. DOMAIN d = 1 .. Len(d) /\ DOMAIN e = 1 .. Len(d) /\ Len(d) \in Nat /\ Len(d) \in DOMAIN d
    OBVIOUS
  <2> QED  BY <2>1, <2>2, RecordFields
<1>2. /\ e[Len(d)] = [d[Len(d)] EXCEPT !.meta = x]
      /\ \A k \in DOMAIN d : k # Len(d) => e[k] = d[k]
  BY <1>1
<1>3. /\ e[Len(d)].meta = x /\ e[Len(d)] \in Records
      /\ e[Len(d)].n = d[Len(d)].n /\ e[Len(d)].val = d[Len(d)].val
  <2>1. x \in Nat
    BY <1>1
  <2> HIDE DEF x, e
  <2> QED  BY <1>1, <1>2, <2>1 DEF Records
<1>4. \A k \in DOMAIN d : e[k].n = d[k].n /\ e[k].val = d[k].val /\ e[k] \in Records
  BY <1>1, <1>2, <1>3
<1>5. e \in Seq(Records) /\ Len(e) = Len(d) /\ e[1] = d[1]
  <2>1. e \in [1 .. Len(d) -> Records]
    BY <1>1, <1>4
  <2>2. e \in Seq(Records) /\ Len(e) = Len(d)
    BY <1>1, <2>1
  <2> QED  BY <1>1, <1>2, <2>2
<1>6. InOrder(e, a + 1) /\ Valued(e, a + 1, v)
  BY <1>1, <1>4 DEF InOrder, Valued
<1>7. Present(e, v, w, g)
  <2>1. Numbers(e) = Numbers(d)
    BY <1>1, <1>4 DEF Numbers
  <2> QED  BY <2>1 DEF Present
<1>8. Before(e, a + 1, w, again)
  <2>1. ASSUME NEW k \in DOMAIN w PROVE w[k] <= a + 1
    <3>1. w[k] \in Nat
      OBVIOUS
    <3>2. w[k] <= a
      BY DEF Before
    <3> QED  BY <3>1, <3>2
  <2>2. ASSUME NEW k \in DOMAIN w, NEW l \in DOMAIN e
        PROVE  w[k] <= e[l].n /\ (w[k] = e[l].n => again /\ k = Len(w) /\ l = 1)
    <3>1. l \in DOMAIN d /\ e[l].n = d[l].n
      BY <1>1, <1>4
    <3> QED  BY <3>1 DEF Before
  <2> QED  BY <2>1, <2>2 DEF Before
<1>9. i \in LogItem => MetaOf(e, a + 1, g, m)
  BY <1>1, <1>2, <1>3, <1>5 DEF MetaOf
<1> QED  BY <1>5, <1>6, <1>7, <1>8, <1>9

(* a list that loses records: what is kept is in order and known *)
HeldInv(i, h, a, v, w, g, m, again) == ListInv(i, h.data, a, v, w, g, m, again)
KeptFrom(h, e) ==
  /\ e \in List /\ e.busy = h.busy
  /\ h.data = <<>> <=> e.data = <<>>
  /\ h.data # <<>> => e.data[1] = h.data[1]
GoneWith(g, h, e) == g \union (Numbers(h.data) \ Numbers(e.data))
\* Records cleared from a list are gone; a list that a syncer has keeps its first.
LEMMA ClearItem ==
  ASSUME NEW h \in List, NEW a \in Nat, NEW v \in SUBSET Nat, NEW w \in Seq(Nat),
         NEW g \in SUBSET Nat, NEW again \in BOOLEAN, NEW m \in Nat, NEW i,
         HeldInv(i, h, a, v, w, g, m, again)
  PROVE  /\ KeptFrom(h, ClearMiddle(h))
         /\ HeldInv(i, ClearMiddle(h), a, v, w, GoneWith(g, h, ClearMiddle(h)), m, again)
<1> DEFINE d == h.data
           e == ClearMiddle(h).data
           g2 == GoneWith(g, h, ClearMiddle(h))
<1>5. d = h.data /\ e = ClearMiddle(h).data /\ g2 = g \union (Numbers(d) \ Numbers(e))
  BY DEF GoneWith
<1> USE <1>5
<1> HIDE DEF d, e
<1>0. /\ InOrder(d, a) /\ Valued(d, a, v) /\ Present(d, v, w, g) /\ Before(d, a, w, again)
      /\ i \in LogItem => MetaOf(d, a, g, m)
  BY DEF ListInv, HeldInv
<1>1. d \in Seq(Records) /\ Len(d) \in Nat /\ (Len(d) = 0 <=> d = <<>>)
  BY DEF List
<1>2. /\ ClearMiddle(h) \in List /\ ClearMiddle(h).busy = h.busy
      /\ e = d \/ (Len(d) > 1 /\ e = <<d[1], d[Len(d)]>>)
  <2>1. CASE Len(d) = 0
    BY <2>1 DEF ClearMiddle
  <2>2. CASE Len(d) = 1
    BY <2>2 DEF ClearMiddle, List
  <2>3. CASE Len(d) # 0 /\ Len(d) # 1
    <3>1. ClearMiddle(h) = [h EXCEPT !.data = <<d[1], d[Len(d)]>>] /\ Len(d) > 1
      <4>1. Len(h.data) # 0 /\ Len(h.data) # 1
        BY <2>3
      <4>2. ClearMiddle(h) = [h EXCEPT !.data = <<h.data[1], h.data[Len(h.data)]>>]
        BY <4>1, Zenon DEF ClearMiddle
      <4>3. \A n \in Nat : n # 0 /\ n # 1 => n > 1
        OBVIOUS
      <4>4. Len(d) > 1
        BY <1>1, <2>3, <4>3
      <4> QED  BY <4>2, <4>4, Zenon
    <3>2. d[1] \in Records /\ d[Len(d)] \in Records
      BY <1>1, <3>1
    <3>3. <<d[1], d[Len(d)]>> \in Seq(Records)
      BY <3>2
    <3> QED  BY <3>1, <3>3 DEF List
  <2> QED  BY <2>1, <2>2, <2>3
<1>3. CASE e = d
  <2>1. Numbers(d) \ Numbers(e) = {}
    BY <1>3
  <2>2. g2 = g
    BY <2>1
  <2> QED  BY <1>2, <1>3, <2>2 DEF HeldInv, KeptFrom
<1>4. CASE Len(d) > 1 /\ e = <<d[1], d[Len(d)]>>
  <2>1. /\ DOMAIN d = 1 .. Len(d) /\ 1 \in DOMAIN d /\ Len(d) \in DOMAIN d
        /\ DOMAIN e = {1, 2} /\ e[1] = d[1] /\ e[2] = d[Len(d)] /\ Len(e) = 2
        /\ d # <<>> /\ e # <<>> /\ 1 < Len(d) /\ 1 # Len(d)
    BY <1>1, <1>4
  <2>2. InOrder(e, a) /\ Valued(e, a, v)
    BY <1>0, <2>1, SMTT(30) DEF InOrder, Valued
  <2>3. Present(e, v, w, g2)
    BY <1>0 DEF Present
  <2>4. Before(e, a, w, again)
    <3>1. ASSUME NEW k \in DOMAIN w
          PROVE  /\ w[k] <= a /\ w[k] <= d[1].n /\ (w[k] = d[1].n => again /\ k = Len(w))
                 /\ w[k] <= d[Len(d)].n /\ w[k] # d[Len(d)].n
      BY <1>0, <2>1 DEF Before
    <3> QED  BY <2>1, <3>1 DEF Before
  <2>5. i \in LogItem => MetaOf(e, a, g2, m)
    BY <1>0, <2>1 DEF MetaOf
  <2> QED  BY <1>2, <2>1, <2>2, <2>3, <2>4, <2>5 DEF ListInv, HeldInv, KeptFrom
<1> QED  BY <1>2, <1>3, <1>4

(* the first record of the list has been processed *)
Done(i, d, a, v, w, g, m) ==
  /\ InOrder(d, a) /\ Valued(d, a, v) /\ Present(d, v, w, g)
  /\ \A k \in DOMAIN w : w[k] <= a /\ w[k] <= d[1].n
  /\ d[1].n \in v => d[1].n \in Range(w) \union g
  /\ i \in LogItem => /\ d[Len(d)].meta = a /\ \A k \in DOMAIN d : d[k].meta # 0
                      /\ g = {} => m = d[1].meta

\* What is known of a list holds when its syncer takes it.
LEMMA PopItem ==
  ASSUME NEW d \in Seq(Records), d # <<>>, NEW a \in Nat, NEW v \in SUBSET Nat,
         NEW w \in Seq(Nat), NEW g \in SUBSET Nat, NEW again \in BOOLEAN, NEW m \in Nat,
         NEW i,
         Done(i, d, a, v, w, g, m)
  PROVE  Tail(d) \in Seq(Records) /\ ListInv(i, Tail(d), a, v, w, g, m, again)
<1> USE DEF ListInv, Done
<1> DEFINE e == Tail(d)
<1>1. /\ e \in Seq(Records) /\ Len(e) = Len(d) - 1 /\ Len(d) \in Nat /\ Len(d) > 0
      /\ DOMAIN d = 1 .. Len(d) /\ DOMAIN e = 1 .. Len(d) - 1
      /\ \A k \in DOMAIN e : e[k] = d[k + 1]
      /\ (e = <<>> <=> Len(d) = 1)
  <2>1. /\ Len(d) \in Nat /\ Len(d) > 0 /\ DOMAIN d = 1 .. Len(d)
        /\ e \in Seq(Records) /\ Len(e) = Len(d) - 1
    OBVIOUS
  <2>2. DOMAIN e = 1 .. Len(d) - 1 /\ \A k \in DOMAIN e : e[k] = d[k + 1]
    OBVIOUS
  <2>3. e = <<>> <=> Len(e) = 0
    <3> HIDE DEF e
    <3> QED  BY <2>1
  <2> QED  BY <2>1, <2>2, <2>3
<1> HIDE DEF e
<1>2. /\ \A k \in DOMAIN d : d[k] \in Records /\ d[k].n \in Nat
      /\ \A k \in DOMAIN e : k + 1 \in DOMAIN d /\ k < k + 1 /\ 1 < k + 1
      /\ 1 \in DOMAIN d
  <2>1. \A k \in DOMAIN d : d[k] \in Records
    OBVIOUS
  <2> QED  BY <1>1, <2>1, RecordFields
<1>3. InOrder(e, a)
  <2>1. ASSUME NEW k \in DOMAIN e PROVE e[k].n <= a
    BY <1>1, <1>2 DEF InOrder
  <2>2. ASSUME NEW k \in DOMAIN e, NEW l \in DOMAIN e, k < l PROVE e[k].n < e[l].n
    <3>1. k + 1 < l + 1
      BY <1>1, <2>2
    <3> QED  BY <1>1, <1>2, <3>1 DEF InOrder
  <2> QED  BY <2>1, <2>2 DEF InOrder
<1>4. Valued(e, a, v)
  BY <1>1, <1>2 DEF Valued
<1>5. Present(e, v, w, g)
  <2>1. ASSUME NEW k \in DOMAIN d PROVE k = 1 \/ d[k].n \in Numbers(e)
    <3>1. CASE k # 1
      <4>1. k - 1 \in DOMAIN e /\ e[k - 1] = d[k]
        BY <1>1, <3>1, SMTT(30)
      <4> QED  BY <4>1 DEF Numbers
    <3> QED  BY <3>1
  <2>2. Numbers(d) \subseteq {d[1].n} \union Numbers(e)
    BY <2>1 DEF Numbers
  <2> QED  BY <2>2 DEF Present
<1>6. Before(e, a, w, again)
  <2>1. ASSUME NEW k \in DOMAIN w, NEW l \in DOMAIN e PROVE w[k] < e[l].n
    <3>1. w[k] \in Nat /\ w[k] <= d[1].n
      OBVIOUS
    <3>2. d[1].n < e[l].n /\ d[1].n \in Nat /\ e[l].n \in Nat
      BY <1>1, <1>2 DEF InOrder
    <3> QED  BY <3>1, <3>2
  <2>2. ASSUME NEW k \in DOMAIN w, NEW l \in DOMAIN e PROVE w[k] <= e[l].n /\ w[k] # e[l].n
    <3>1. w[k] \in Nat /\ e[l].n \in Nat
      BY <1>1, <1>2
    <3> QED  BY <2>1, <3>1
  <2> QED  BY <2>2 DEF Before
<1>7. i \in LogItem => MetaOf(e, a, g, m)
  <2> SUFFICES ASSUME i \in LogItem PROVE MetaOf(e, a, g, m)
    OBVIOUS
  <2>1. \A k \in DOMAIN e : e[k].meta # 0
    BY <1>1, <1>2
  <2>2. CASE e = <<>>
    BY <1>1, <2>1, <2>2 DEF MetaOf
  <2>3. CASE e # <<>>
    <3>1. Len(e) \in DOMAIN e /\ Len(e) + 1 = Len(d)
      BY <1>1, <2>3
    <3>2. e[Len(e)].meta = a
      BY <1>1, <3>1
    <3> QED  BY <2>1, <2>3, <3>2 DEF MetaOf
  <2> QED  BY <2>2, <2>3
<1> QED  BY <1>1, <1>3, <1>4, <1>5, <1>6, <1>7 DEF e

(* an item that is removed from the cache *)
LEMMA DropItem ==
  ASSUME NEW d \in Seq(Records), d # <<>>, NEW a \in Nat, NEW v \in SUBSET Nat,
         NEW w \in Seq(Nat), NEW g \in SUBSET Nat, NEW again \in BOOLEAN, NEW m \in Nat,
         NEW i, NEW g2, g2 = g \union Numbers(Tail(d)),
         Done(i, d, a, v, w, g, m)
  PROVE  ListInv(i, <<>>, a, v, w, g2, m, again)
<1> USE DEF ListInv
<1>1. /\ InOrder(Tail(d), a) /\ Valued(Tail(d), a, v)
      /\ Present(Tail(d), v, w, g) /\ Before(Tail(d), a, w, again)
      /\ i \in LogItem => MetaOf(Tail(d), a, g, m)
  BY PopItem
<1>2. Tail(d) \in Seq(Records) /\ DOMAIN (<<>>) = {}
  OBVIOUS
<1> DEFINE e == Tail(d)
<1> HIDE DEF e
<1>3. InOrder(<<>>, a) /\ Before(<<>>, a, w, again) /\ Valued(<<>>, a, v)
  BY <1>1, <1>2 DEF InOrder, Before, Valued
<1>4. Present(<<>>, v, w, g2)
  BY <1>1 DEF Present
<1>5. i \in LogItem => MetaOf(<<>>, a, g2, m)
  <2>1. CASE e = <<>>
    <3>1. Numbers(e) = {}
      BY <1>2, <2>1 DEF Numbers
    <3>2. g2 = g
      BY <3>1 DEF e
    <3> QED  BY <1>1, <2>1, <3>2 DEF e
  <2>2. CASE e # <<>>
    <3>1. 1 \in DOMAIN e
      BY <1>2, <2>2 DEF e
    <3>2. Numbers(e) # {}
      BY <3>1 DEF Numbers
    <3>3. g2 # {}
      BY <3>2 DEF e
    <3> QED  BY <1>2, <3>3 DEF MetaOf
  <2> QED  BY <2>1, <2>2
<1> QED  BY <1>3, <1>4, <1>5

(* the first record of a list is written to the database, unless it is not ok *)
WrittenWith(w, d, ok) == IF ok /\ d[1].val THEN Append(w, d[1].n) ELSE w
MetaWith(m, d, ok) == IF ok /\ d[1].meta # 0 THEN d[1].meta ELSE m
\* The list knows that its first record is written.
LEMMA WriteItem ==
  ASSUME NEW d \in Seq(Records), d # <<>>, NEW a \in Nat, NEW v \in SUBSET Nat,
         NEW w \in Seq(Nat), NEW g \in SUBSET Nat, NEW again \in BOOLEAN, NEW m \in Nat,
         NEW i, again => Dead # {}, NEW ok \in BOOLEAN,
         NEW g2 \in SUBSET Nat, g \subseteq g2, ~ok => d[1].n \in g2,
         ListInv(i, d, a, v, w, g, m, again), Ascends(w)
  PROVE  /\ WrittenWith(w, d, ok) \in Seq(Nat) /\ Ascends(WrittenWith(w, d, ok))
         /\ MetaWith(m, d, ok) \in Nat
         /\ Done(i, d, a, v, WrittenWith(w, d, ok), g2, MetaWith(m, d, ok))
         /\ ~again => ListInv(i, d, a, v, WrittenWith(w, d, ok), g2, MetaWith(m, d, ok), TRUE)
<1> DEFINE w2 == WrittenWith(w, d, ok)
           m2 == MetaWith(m, d, ok)
<1>18. /\ w2 = IF ok /\ d[1].val THEN Append(w, d[1].n) ELSE w
       /\ m2 = IF ok /\ d[1].meta # 0 THEN d[1].meta ELSE m
  BY DEF WrittenWith, MetaWith
<1> USE <1>18
<1> HIDE DEF w2, m2
<1>0. /\ InOrder(d, a) /\ Valued(d, a, v) /\ Present(d, v, w, g) /\ Before(d, a, w, again)
      /\ i \in LogItem => MetaOf(d, a, g, m)
  BY DEF ListInv
<1>1. /\ 1 \in DOMAIN d /\ Len(d) \in DOMAIN d /\ \A l \in DOMAIN d : l = 1 \/ 1 < l
      /\ \A l \in DOMAIN d : d[l].n \in Nat /\ d[l].meta \in Nat /\ d[l].val \in BOOLEAN
  <2>1. \A l \in DOMAIN d : d[l] \in Records
    OBVIOUS
  <2>2. 1 \in DOMAIN d /\ Len(d) \in DOMAIN d /\ \A l \in DOMAIN d : l = 1 \/ 1 < l
    OBVIOUS
  <2> QED  BY <2>1, <2>2, RecordFields
<1> DEFINE n == d[1].n
           more == ok /\ d[1].val
<1>2. n \in Nat /\ n <= a /\ (\A l \in DOMAIN d : l # 1 => n < d[l].n) /\ more \in BOOLEAN
  BY <1>0, <1>1 DEF InOrder
<1>3. \A k \in DOMAIN w : /\ w[k] \in Nat /\ w[k] <= a /\ w[k] <= n
                          /\ w[k] = n => again /\ k = Len(w)
  <2>1. \A k \in DOMAIN w : w[k] \in Nat
    OBVIOUS
  <2> QED  BY <1>0, <1>1, <2>1 DEF Before
<1>10. n \in v => d[1].val
  BY <1>0, <1>1 DEF Valued
<1>11. w2 = IF more THEN Append(w, n) ELSE w
  OBVIOUS
<1> HIDE DEF n, more
<1>4. more => /\ w2 \in Seq(Nat) /\ Len(w2) = Len(w) + 1 /\ Len(w) \in Nat
              /\ DOMAIN w2 = 1 .. Len(w) + 1 /\ DOMAIN w = 1 .. Len(w)
              /\ w2[Len(w) + 1] = n /\ \A k \in DOMAIN w : w2[k] = w[k]
  BY <1>2, <1>11
<1>5. more => \A k \in DOMAIN w2 : k \in DOMAIN w \/ k = Len(w) + 1
  BY <1>4
<1>6. w2 \in Seq(Nat) /\ \A k \in DOMAIN w2 : w2[k] \in Nat /\ w2[k] <= a /\ w2[k] <= n
  BY <1>2, <1>3, <1>4, <1>5, <1>11
<1>7. Ascends(w2)
  <2>1. ASSUME more, NEW k \in DOMAIN w2, NEW l \in DOMAIN w2, k < l
        PROVE  w2[k] < w2[l] \/ (w2[k] = w2[l] /\ l = k + 1 /\ Dead # {})
    <3>1. k \in DOMAIN w
      BY <1>4, <2>1
    <3>2. CASE l \in DOMAIN w
      BY <1>4, <2>1, <3>1, <3>2 DEF Ascends
    <3>3. CASE l = Len(w) + 1
      <4>1. w2[l] = n /\ w2[k] = w[k] /\ w[k] \in Nat /\ n \in Nat /\ w[k] <= n
            /\ (w[k] = n => again /\ k = Len(w))
        BY <1>2, <1>3, <1>4, <2>1, <3>1, <3>3
      <4> QED  BY <3>3, <4>1, SMTT(30)
    <3> QED  BY <1>5, <2>1, <3>2, <3>3
  <2>2. more => Ascends(w2)
    BY <2>1 DEF Ascends
  <2> QED  BY <1>11, <2>2
<1>8. Range(w) \subseteq Range(w2) /\ (more => n \in Range(w2))
  <2>1. more => Range(w) \subseteq Range(w2) /\ n \in Range(w2)
    BY <1>4 DEF Range
  <2> QED  BY <1>11, <2>1
<1>9. ~again => Before(d, a, w2, TRUE)
  <2>1. ASSUME ~again, NEW k \in DOMAIN w2, NEW l \in DOMAIN d
        PROVE  w2[k] <= d[l].n /\ (w2[k] = d[l].n => k = Len(w2) /\ l = 1)
    <3>1. w2[k] \in Nat /\ w2[k] <= n /\ (w2[k] = n => k = Len(w2))
      BY <1>3, <1>4, <1>5, <1>6, <1>11, <2>1
    <3>2. d[l].n \in Nat /\ n \in Nat /\ (l = 1 \/ n < d[l].n) /\ (l = 1 => d[l].n = n)
      BY <1>1, <1>2 DEF n
    <3>3. CASE l = 1
      BY <3>1, <3>2, <3>3
    <3>4. CASE n < d[l].n
      BY <3>1, <3>2, <3>4, SMTT(30)
    <3> QED  BY <3>2, <3>3, <3>4
  <2> QED  BY <1>6, <2>1 DEF Before
<1>12. m2 \in Nat
  BY <1>1
<1>13. Present(d, v, w2, g2)
  BY <1>0, <1>8 DEF Present
<1>14. n \in v => n \in Range(w2) \union g2
  BY <1>8, <1>10 DEF n, more
<1>15. i \in LogItem => /\ d[Len(d)].meta = a /\ \A k \in DOMAIN d : d[k].meta # 0
                        /\ g2 = {} => m2 = d[1].meta
  BY <1>0, <1>1 DEF MetaOf
<1>16. Done(i, d, a, v, w2, g2, m2)
  BY <1>0, <1>6, <1>13, <1>14, <1>15 DEF Done, n
<1>17. ~again => ListInv(i, d, a, v, w2, g2, m2, TRUE)
  BY <1>0, <1>9, <1>13, <1>15 DEF ListInv, MetaOf
<1> QED  BY <1>6, <1>7, <1>12, <1>16, <1>17 DEF w2, m2

---------------------------------------------------------------------------
(* adding records *)

DataIn(c, i) == IF i \in DOMAIN c THEN c[i].data ELSE <<>>

Stores == [cache : Caches, queue : [Item -> {0, 1}], accepted : [Item -> Nat],
           value : [Item -> SUBSET Nat], drift : Int]

(* the first record of a list stays where it is *)
KeepsFirst(c, d) ==
  \A i \in DOMAIN c : c[i].data # <<>> =>
    i \in DOMAIN d /\ d[i].data # <<>> /\ d[i].data[1] = c[i].data[1] /\ d[i].busy = c[i].busy

QueuedIn(st, i) ==
  /\ st.queue[i] = 1 => \A s \in Syncer : ~Holds(s, i)
  /\ DataIn(st.cache, i) # <<>> <=> st.queue[i] = 1 \/ \E s \in Syncer : Holds(s, i)
ItemIn(st, i) ==
  ListInv(i, DataIn(st.cache, i), st.accepted[i], st.value[i], written[i], gone[i], meta[i],
          Again(i))
LaterValues(st, i) ==
  /\ accepted[i] <= st.accepted[i]
  /\ \A n \in st.value[i] : n <= accepted[i] => n \in value[i]
Good(st) ==
  /\ st \in Stores
  /\ \A i \in Item : QueuedIn(st, i) /\ ItemIn(st, i) /\ LaterValues(st, i)
  /\ KeepsFirst(cache, st.cache)

(* caches by their lists *)
LEMMA CachesType ==
  ASSUME NEW c
  PROVE  /\ c \in Caches => DOMAIN c \subseteq Item /\ \A i \in DOMAIN c : c[i] \in List
         /\ (/\ c = [i \in DOMAIN c |-> c[i]] /\ DOMAIN c \subseteq Item
             /\ \A i \in DOMAIN c : c[i] \in List) => c \in Caches
<1>1. ASSUME c \in Caches
      PROVE  DOMAIN c \subseteq Item /\ \A i \in DOMAIN c : c[i] \in List
  <2>1. PICK S \in SUBSET Item : c \in [S -> List]
    BY <1>1 DEF Caches
  <2> QED  BY <2>1
<1>2. ASSUME c = [i \in DOMAIN c |-> c[i]], DOMAIN c \subseteq Item,
             \A i \in DOMAIN c : c[i] \in List
      PROVE  c \in Caches
  <2>1. c \in [DOMAIN c -> List] /\ DOMAIN c \in SUBSET Item
    BY <1>2
  <2> QED  BY <2>1 DEF Caches
<1> QED  BY <1>1, <1>2

(* one more record of the item of r is accepted *)
LEMMA CountedStore ==
  ASSUME NEW st \in Stores, NEW r \in Update
  PROVE  /\ Count(st, r) \in Stores
         /\ Count(st, r).cache = st.cache /\ Count(st, r).queue = st.queue
         /\ Count(st, r).drift = st.drift
         /\ \A i \in Item :
              /\ Count(st, r).accepted[i] =
                   IF i = r.item THEN st.accepted[i] + 1 ELSE st.accepted[i]
              /\ Count(st, r).value[i] =
                   IF i = r.item /\ r.val THEN st.value[i] \union {st.accepted[i] + 1}
                   ELSE st.value[i]
         /\ Record(st, r) \in Records /\ Record(st, r).n = st.accepted[r.item] + 1
         /\ Record(st, r).val = r.val /\ Record(st, r).undef = FALSE
         /\ r.item \in LogItem => Record(st, r).meta = st.accepted[r.item] + 1
<1>1. r.item \in Item /\ r.val \in BOOLEAN
  BY DEF Update
<1>2. /\ st.cache \in Caches /\ st.queue \in [Item -> {0, 1}] /\ st.drift \in Int
      /\ st.accepted \in [Item -> Nat] /\ st.value \in [Item -> SUBSET Nat]
  BY DEF Stores
<1>3. st.accepted[r.item] \in Nat /\ st.value[r.item] \subseteq Nat
  BY <1>1, <1>2
<1> DEFINE a2 == [st.accepted EXCEPT ![r.item] = st.accepted[r.item] + 1]
           v2 == [st.value EXCEPT ![r.item] =
                    IF r.val THEN st.value[r.item] \union {st.accepted[r.item] + 1}
                    ELSE st.value[r.item]]
<1>4. Count(st, r) = [st EXCEPT !.accepted = a2, !.value = v2]
  BY DEF Count, Stores
<1>5. a2 \in [Item -> Nat] /\ v2 \in [Item -> SUBSET Nat]
  BY <1>1, <1>2, <1>3
<1>6. \A i \in Item :
        /\ a2[i] = IF i = r.item THEN st.accepted[i] + 1 ELSE st.accepted[i]
        /\ v2[i] = IF i = r.item /\ r.val THEN st.value[i] \union {st.accepted[i] + 1}
                   ELSE st.value[i]
  BY <1>1, <1>2
<1> HIDE DEF a2, v2
<1>7. /\ Count(st, r) \in Stores
      /\ Count(st, r).cache = st.cache /\ Count(st, r).queue = st.queue
      /\ Count(st, r).drift = st.drift
      /\ Count(st, r).accepted = a2 /\ Count(st, r).value = v2
  BY <1>4, <1>5 DEF Stores
<1>8. /\ Record(st, r) \in Records /\ Record(st, r).n = st.accepted[r.item] + 1
      /\ Record(st, r).val = r.val /\ Record(st, r).undef = FALSE
      /\ r.item \in LogItem => Record(st, r).meta = st.accepted[r.item] + 1
  BY <1>1, <1>3 DEF Record, Records
<1> QED  BY <1>6, <1>7, <1>8

(* hc_add_item_values: the list of the item gets the record, and the item is *)
(* queued if it had none                                                     *)
LEMMA InsertedLists ==
  ASSUME NEW st \in Stores, NEW r \in Update, NEW n, n = Insert(st, r, Known(st, r)),
         st.queue[r.item] = 1 => DataIn(st.cache, r.item) # <<>>
  PROVE  /\ n \in Stores
         /\ n.accepted = Count(st, r).accepted /\ n.value = Count(st, r).value
         /\ DataIn(n.cache, r.item) = Append(DataIn(st.cache, r.item), Record(st, r))
         /\ \A i \in Item \ {r.item} : /\ DataIn(n.cache, i) = DataIn(st.cache, i)
                                       /\ n.queue[i] = st.queue[i]
         /\ KeepsFirst(st.cache, n.cache)
         /\ (DataIn(st.cache, r.item) # <<>> \/ st.queue[r.item] = 0) =>
              n.queue[r.item] = IF DataIn(st.cache, r.item) # <<>> THEN st.queue[r.item] ELSE 1
<1> DEFINE i0 == r.item
           rec == Record(st, r)
           c2 == IF Known(st, r) THEN [st.cache EXCEPT ![i0].data = Append(@, rec)]
                 ELSE With(st.cache, i0, [data |-> <<rec>>, busy |-> FALSE, keep |-> TRUE])
           q2 == [st.queue EXCEPT ![i0] =
                    IF Known(st, r) /\ st.cache[i0].data # <<>> THEN @ ELSE @ + 1]
<1>1. /\ i0 \in Item /\ rec \in Records
      /\ st.cache \in Caches /\ st.queue \in [Item -> {0, 1}]
      /\ Count(st, r) \in Stores /\ Count(st, r).queue = st.queue
  BY CountedStore DEF Update, Stores
<1>2. DOMAIN st.cache \subseteq Item /\ \A i \in DOMAIN st.cache : st.cache[i] \in List
  BY <1>1, CachesType
<1>3. n = [Count(st, r) EXCEPT !.cache = c2, !.queue = q2]
  BY <1>1 DEF Insert, Stores
<1>4. /\ c2 \in Caches
      /\ DataIn(c2, i0) = Append(DataIn(st.cache, i0), rec)
      /\ \A i \in Item \ {i0} : DataIn(c2, i) = DataIn(st.cache, i)
      /\ KeepsFirst(st.cache, c2)
  <2>1. CASE Known(st, r)
    <3>1. /\ DOMAIN c2 = DOMAIN st.cache /\ i0 \in DOMAIN st.cache
          /\ c2 = [i \in DOMAIN st.cache |-> c2[i]]
          /\ c2[i0] = [st.cache[i0] EXCEPT !.data = Append(@, rec)]
          /\ \A i \in DOMAIN c2 : i # i0 => c2[i] = st.cache[i]
      BY <2>1 DEF Known
    <3>2. /\ c2[i0] \in List /\ c2[i0].data = Append(st.cache[i0].data, rec)
          /\ c2[i0].busy = st.cache[i0].busy
          /\ st.cache[i0].data \in Seq(Records)
      <4> HIDE DEF c2, rec, i0
      <4>1. st.cache[i0] \in List
        BY <1>2, <3>1
      <4>2. st.cache[i0].data \in Seq(Records)
        BY <4>1 DEF List
      <4> DEFINE x == Append(st.cache[i0].data, rec)
      <4>3. x \in Seq(Records) /\ c2[i0] = [st.cache[i0] EXCEPT !.data = x]
        BY <1>1, <3>1, <4>2
      <4> HIDE DEF x
      <4>4. c2[i0] \in List /\ c2[i0].data = x /\ c2[i0].busy = st.cache[i0].busy
        BY <4>1, <4>3 DEF List
      <4> QED  BY <4>2, <4>4 DEF x
    <3>3. c2 \in Caches
      <4> HIDE DEF c2
      <4>1. \A i \in DOMAIN c2 : c2[i] \in List
        BY <1>2, <3>1, <3>2
      <4>2. DOMAIN c2 \subseteq Item /\ c2 = [i \in DOMAIN c2 |-> c2[i]]
        BY <1>2, <3>1
      <4> QED  BY <4>1, <4>2, CachesType
    <3>4. /\ st.cache[i0].data # <<>> => Append(st.cache[i0].data, rec)[1] = st.cache[i0].data[1]
          /\ Append(st.cache[i0].data, rec) # <<>>
      <4> DEFINE y == st.cache[i0].data
      <4>1. y \in Seq(Records) /\ rec \in Records
        BY <1>1, <3>2
      <4> HIDE DEF y, rec
      <4>2. (y # <<>> => Append(y, rec)[1] = y[1]) /\ Append(y, rec) # <<>>
        BY <4>1
      <4> QED  BY <4>2 DEF y
    <3> HIDE DEF c2, rec, i0
    <3>5. KeepsFirst(st.cache, c2)
      BY <3>1, <3>2, <3>4 DEF KeepsFirst
    <3> QED  BY <3>1, <3>2, <3>3, <3>5 DEF DataIn
  <2>2. CASE ~Known(st, r)
    <3>1. /\ DOMAIN c2 = DOMAIN st.cache \union {i0} /\ i0 \notin DOMAIN st.cache
          /\ c2 = [i \in DOMAIN st.cache \union {i0} |-> c2[i]]
          /\ c2[i0] = [data |-> <<rec>>, busy |-> FALSE, keep |-> TRUE]
          /\ \A i \in DOMAIN st.cache : c2[i] = st.cache[i]
      BY <2>2 DEF Known, With
    <3>2. /\ c2[i0] \in List /\ c2[i0].data = <<rec>> /\ <<rec>> = Append(<<>>, rec)
      <4>1. <<rec>> \in Seq(Records)
        BY <1>1
      <4>2. <<rec>> = Append(<<>>, rec)
        OBVIOUS
      <4> DEFINE one == <<rec>>
      <4>3. c2[i0] = [data |-> one, busy |-> FALSE, keep |-> TRUE] /\ one \in Seq(Records)
        BY <3>1, <4>1
      <4> HIDE DEF c2, rec, i0, one
      <4>4. c2[i0] \in List /\ c2[i0].data = one
        BY <4>3 DEF List
      <4> QED  BY <4>2, <4>4 DEF one
    <3>3. c2 \in Caches
      BY <1>1, <1>2, <3>1, <3>2, CachesType
    <3> HIDE DEF c2, rec, i0
    <3>5. KeepsFirst(st.cache, c2)
      BY <3>1 DEF KeepsFirst
    <3> QED  BY <3>1, <3>2, <3>3, <3>5 DEF DataIn
  <2> QED  BY <2>1, <2>2
<1>5. /\ q2 \in [Item -> {0, 1}]
      /\ \A i \in Item \ {i0} : q2[i] = st.queue[i]
      /\ (DataIn(st.cache, i0) # <<>> \/ st.queue[i0] = 0) =>
           q2[i0] = IF DataIn(st.cache, i0) # <<>> THEN st.queue[i0] ELSE 1
  <2>1. Known(st, r) /\ st.cache[i0].data # <<>> <=> DataIn(st.cache, i0) # <<>>
    BY DEF DataIn, Known
  <2>2. q2 = [st.queue EXCEPT ![i0] = IF DataIn(st.cache, i0) # <<>> THEN @ ELSE @ + 1]
    BY <2>1
  <2>3. st.queue[i0] \in {0, 1} /\ (DataIn(st.cache, i0) # <<>> \/ st.queue[i0] = 0)
    BY <1>1
  <2> HIDE DEF q2
  <2> QED  BY <1>1, <2>2, <2>3
<1> HIDE DEF c2, q2
<1>6. /\ n \in Stores /\ n.cache = c2 /\ n.queue = q2
      /\ n.accepted = Count(st, r).accepted /\ n.value = Count(st, r).value
  BY <1>1, <1>3, <1>4, <1>5 DEF Stores
<1> QED  BY <1>4, <1>5, <1>6

(* adding a record keeps what Good says of the store *)
LEMMA InsertGood ==
  ASSUME TypeInv, NEW st, Good(st), NEW r \in Update
  PROVE  Good(Insert(st, r, Known(st, r)))
<1> DEFINE n == Insert(st, r, Known(st, r))
           i0 == r.item
           rec == Record(st, r)
<1>1. st \in Stores /\ i0 \in Item /\ \A i \in Item : QueuedIn(st, i) /\ ItemIn(st, i)
                                                       /\ LaterValues(st, i)
  BY DEF Good, Update
<1>2. st.queue[i0] = 1 => DataIn(st.cache, i0) # <<>>
  BY <1>1 DEF QueuedIn
<1>3. /\ n \in Stores
      /\ n.accepted = Count(st, r).accepted /\ n.value = Count(st, r).value
      /\ DataIn(n.cache, i0) = Append(DataIn(st.cache, i0), rec)
      /\ \A i \in Item \ {i0} : DataIn(n.cache, i) = DataIn(st.cache, i)
                                /\ n.queue[i] = st.queue[i]
      /\ KeepsFirst(st.cache, n.cache)
      /\ (DataIn(st.cache, i0) # <<>> \/ st.queue[i0] = 0) =>
           n.queue[i0] = IF DataIn(st.cache, i0) # <<>> THEN st.queue[i0] ELSE 1
  BY <1>1, <1>2, InsertedLists
<1>4. /\ rec \in Records /\ rec.n = st.accepted[i0] + 1 /\ rec.val = r.val
      /\ i0 \in LogItem => rec.meta = st.accepted[i0] + 1
      /\ \A i \in Item :
              /\ n.accepted[i] = IF i = i0 THEN st.accepted[i] + 1 ELSE st.accepted[i]
              /\ n.value[i] = IF i = i0 /\ r.val THEN st.value[i] \union {st.accepted[i] + 1}
                              ELSE st.value[i]
  <2> HIDE DEF n
  <2>1. /\ rec \in Records /\ rec.n = st.accepted[i0] + 1 /\ rec.val = r.val
        /\ i0 \in LogItem => rec.meta = st.accepted[i0] + 1
    BY <1>1, CountedStore
  <2>2. \A i \in Item :
          /\ Count(st, r).accepted[i] = IF i = i0 THEN st.accepted[i] + 1 ELSE st.accepted[i]
          /\ Count(st, r).value[i] = IF i = i0 /\ r.val THEN st.value[i] \union {st.accepted[i] + 1}
                                     ELSE st.value[i]
    BY <1>1, CountedStore
  <2> QED  BY <1>3, <2>1, <2>2, ZenonT(40)
<1>5. /\ st.queue \in [Item -> {0, 1}] /\ st.accepted \in [Item -> Nat]
      /\ st.value \in [Item -> SUBSET Nat] /\ st.cache \in Caches
  BY <1>1 DEF Stores
<1>6. DataIn(st.cache, i0) \in Seq(Records)
  BY <1>5, CachesType DEF DataIn, List
<1> HIDE DEF n, i0, rec
<1>7. ASSUME NEW i \in Item PROVE QueuedIn(n, i)
  <2>1. CASE i # i0
    BY <1>1, <1>3, <2>1 DEF QueuedIn
  <2>2. CASE i = i0
    <3>1. Append(DataIn(st.cache, i0), rec) # <<>>
      BY <1>4, <1>6
    <3>2. st.queue[i0] \in {0, 1}
      BY <1>1, <1>5
    <3> QED  BY <1>1, <1>3, <2>2, <3>1, <3>2 DEF QueuedIn
  <2> QED  BY <2>1, <2>2
<1>8. ASSUME NEW i \in Item PROVE LaterValues(n, i)
  <2>1. accepted[i] <= st.accepted[i] /\ st.accepted[i] \in Nat /\ accepted[i] \in Nat
    BY <1>1, <1>5 DEF LaterValues, TypeInv
  <2>2. accepted[i] <= n.accepted[i]
    <3>1. n.accepted[i] = st.accepted[i] \/ n.accepted[i] = st.accepted[i] + 1
      BY <1>4
    <3> QED  BY <2>1, <3>1
  <2>3. ASSUME NEW k \in n.value[i], k <= accepted[i] PROVE k \in value[i]
    <3>1. k \in st.value[i] \/ k = st.accepted[i] + 1
      BY <1>4, <2>3
    <3> QED  BY <1>1, <2>1, <2>3, <3>1 DEF LaterValues
  <2> QED  BY <2>2, <2>3 DEF LaterValues
<1>9. ASSUME NEW i \in Item PROVE ItemIn(n, i)
  <2>1. CASE i # i0
    BY <1>1, <1>3, <1>4, <2>1 DEF ItemIn
  <2>2. CASE i = i0
    <3> DEFINE d == DataIn(st.cache, i0)
               a == st.accepted[i0]
               v == st.value[i0]
               v2 == IF rec.val THEN v \union {a + 1} ELSE v
    <3>1. /\ d \in Seq(Records) /\ a \in Nat /\ v \in SUBSET Nat
          /\ written[i0] \in Seq(Nat) /\ gone[i0] \in SUBSET Nat
          /\ Again(i0) \in BOOLEAN /\ meta[i0] \in Nat 
          /\ rec \in Records /\ rec.n = a + 1 /\ (i0 \in LogItem => rec.meta = a + 1)
      BY <1>1, <1>4, <1>5, <1>6 DEF TypeInv, Again
    <3>2. ListInv(i0, d, a, v, written[i0], gone[i0], meta[i0], Again(i0))
      BY <1>1 DEF ItemIn
    <3>3. DataIn(n.cache, i0) = Append(d, rec) /\ n.accepted[i0] = a + 1 /\ n.value[i0] = v2
      BY <1>1, <1>3, <1>4
    <3>5. v2 = IF rec.val THEN v \union {a + 1} ELSE v
      OBVIOUS
    <3> HIDE DEF d, a, v, v2
    <3>4. ListInv(i0, Append(d, rec), a + 1, v2, written[i0], gone[i0], meta[i0], Again(i0))
      BY <3>1, <3>2, <3>5, InsertItem, SMTT(30)
    <3> QED  BY <2>2, <3>3, <3>4 DEF ItemIn
  <2> QED  BY <2>1, <2>2
<1>10. KeepsFirst(cache, n.cache)
  BY <1>3 DEF Good, KeepsFirst
<1> QED  BY <1>3, <1>7, <1>8, <1>9, <1>10 DEF Good, n

(* so does merging it into the last record *)
LEMMA MergeGood ==
  ASSUME TypeInv, NEW st, Good(st), NEW r \in Update, Merges(st, r)
  PROVE  Good(Merge(st, r))
<1> DEFINE n == Merge(st, r)
           i0 == r.item
           d == DataIn(st.cache, i0)
           a == st.accepted[i0]
           v == st.value[i0]
           e == MergedList(i0, d, a)
           c2 == [st.cache EXCEPT ![i0].data = e]
<1>1. /\ st \in Stores /\ i0 \in Item /\ ~r.val /\ i0 \in DOMAIN st.cache
      /\ \A i \in Item : QueuedIn(st, i) /\ ItemIn(st, i) /\ LaterValues(st, i)
  BY DEF Good, Update, Merges
<1>2. /\ st.queue \in [Item -> {0, 1}] /\ st.accepted \in [Item -> Nat]
      /\ st.value \in [Item -> SUBSET Nat] /\ st.cache \in Caches /\ st.drift \in Int
  BY <1>1 DEF Stores
<1>3. DOMAIN st.cache \subseteq Item /\ \A i \in DOMAIN st.cache : st.cache[i] \in List
  BY <1>2, CachesType
<1>4. d = st.cache[i0].data /\ d \in Seq(Records) /\ Len(d) > 1
  BY <1>1, <1>3 DEF DataIn, List, Merges
<1>5. /\ Count(st, r) \in Stores /\ Count(st, r).cache = st.cache
      /\ Count(st, r).queue = st.queue /\ Count(st, r).drift = st.drift
      /\ i0 \in LogItem => Record(st, r).meta = a + 1
      /\ \A i \in Item :
              /\ Count(st, r).accepted[i] = IF i = i0 THEN st.accepted[i] + 1 ELSE st.accepted[i]
              /\ Count(st, r).value[i] = st.value[i]
  <2>1. \A i \in Item : Count(st, r).value[i] = IF i = r.item /\ r.val
                                                THEN st.value[i] \union {st.accepted[i] + 1}
                                                ELSE st.value[i]
    BY <1>1, CountedStore
  <2>2. \A i \in Item : Count(st, r).value[i] = st.value[i]
    BY <1>1, <2>1
  <2>3. /\ Count(st, r) \in Stores /\ Count(st, r).cache = st.cache
        /\ Count(st, r).queue = st.queue /\ Count(st, r).drift = st.drift
    BY <1>1, CountedStore
  <2>4. i0 \in LogItem => Record(st, r).meta = a + 1
    BY <1>1, CountedStore
  <2>5. \A i \in Item :
          Count(st, r).accepted[i] = IF i = i0 THEN st.accepted[i] + 1 ELSE st.accepted[i]
    BY <1>1, CountedStore
  <2> QED  BY <2>2, <2>3, <2>4, <2>5
<1>6. a \in Nat /\ v \in SUBSET Nat
  BY <1>1, <1>2
<1>7. n = [Count(st, r) EXCEPT !.cache = c2, !.drift = @ + 1]
  BY <1>1, <1>2, <1>4, <1>5 DEF Merge, Stores, MergedList
<1>8. /\ e \in Seq(Records) /\ Len(e) = Len(d) /\ e[1] = d[1]
      /\ ListInv(i0, e, a + 1, v, written[i0], gone[i0], meta[i0], Again(i0))
  <2>1. /\ written[i0] \in Seq(Nat) /\ gone[i0] \in SUBSET Nat
        /\ Again(i0) \in BOOLEAN /\ meta[i0] \in Nat
    BY <1>1 DEF TypeInv, Again
  <2>2. ListInv(i0, d, a, v, written[i0], gone[i0], meta[i0], Again(i0))
    BY <1>1 DEF ItemIn
  <2>4. d \in Seq(Records) /\ Len(d) > 1
    BY <1>4
  <2> HIDE DEF d, a, v, i0
  <2> QED  BY <2>4, <1>6, <2>1, <2>2, MergeItem
<1> HIDE DEF e
<1>9. /\ DOMAIN c2 = DOMAIN st.cache /\ c2 = [i \in DOMAIN st.cache |-> c2[i]]
      /\ c2[i0] = [st.cache[i0] EXCEPT !.data = e]
      /\ \A i \in DOMAIN c2 : i # i0 => c2[i] = st.cache[i]
  BY <1>1
<1>10. c2[i0] \in List /\ c2[i0].data = e /\ c2[i0].busy = st.cache[i0].busy
  <2>1. st.cache[i0] \in List
    BY <1>1, <1>3
  <2> HIDE DEF c2, d, i0
  <2> QED  BY <1>8, <1>9, <2>1 DEF List
<1> HIDE DEF c2
<1>11. c2 \in Caches
  BY <1>3, <1>9, <1>10, CachesType
<1>12. /\ n \in Stores /\ n.cache = c2 /\ n.queue = st.queue
       /\ n.accepted = Count(st, r).accepted /\ n.value = Count(st, r).value
  <2> DEFINE counted == Count(st, r)
  <2>1. counted \in Stores /\ counted.drift \in Int /\ counted.queue = st.queue
        /\ n = [counted EXCEPT !.cache = c2, !.drift = counted.drift + 1]
    BY <1>2, <1>5, <1>7
  <2> DEFINE drifted == counted.drift + 1
  <2>3. drifted \in Int /\ n = [counted EXCEPT !.cache = c2, !.drift = drifted]
    BY <2>1
  <2> HIDE DEF n, counted, drifted
  <2>2. /\ n \in Stores /\ n.cache = c2 /\ n.queue = counted.queue
        /\ n.accepted = counted.accepted /\ n.value = counted.value
    BY <1>11, <2>1, <2>3 DEF Stores
  <2> QED  BY <2>1, <2>2 DEF counted
<1>13. /\ DataIn(n.cache, i0) = e
       /\ \A i \in Item \ {i0} : DataIn(n.cache, i) = DataIn(st.cache, i)
       /\ e # <<>> /\ d # <<>>
  <2> HIDE DEF n
  <2>1. DataIn(n.cache, i0) = e /\ d # <<>>
    BY <1>1, <1>4, <1>9, <1>10, <1>12 DEF DataIn
  <2>2. \A i \in Item \ {i0} : DataIn(n.cache, i) = DataIn(st.cache, i)
    BY <1>9, <1>12 DEF DataIn
  <2>3. e # <<>>
    <3>1. Len(e) > 1
      BY <1>4, <1>8
    <3> QED  BY <3>1
  <2> QED  BY <2>1, <2>2, <2>3
<1> HIDE DEF n
<1>14. ASSUME NEW i \in Item PROVE QueuedIn(n, i)
  BY <1>1, <1>12, <1>13 DEF QueuedIn
<1>15. ASSUME NEW i \in Item PROVE LaterValues(n, i)
  <2>1. accepted[i] <= st.accepted[i] /\ st.accepted[i] \in Nat /\ accepted[i] \in Nat
    BY <1>1, <1>2 DEF LaterValues, TypeInv
  <2>2. n.accepted[i] = st.accepted[i] \/ n.accepted[i] = st.accepted[i] + 1
    BY <1>5, <1>12
  <2>3. accepted[i] <= n.accepted[i] /\ n.value[i] = st.value[i]
    BY <1>5, <1>12, <2>1, <2>2
  <2> QED  BY <1>1, <2>3 DEF LaterValues
<1>16. ASSUME NEW i \in Item PROVE ItemIn(n, i)
  <2>1. CASE i # i0
    <3>1. n.accepted[i] = st.accepted[i] /\ n.value[i] = st.value[i]
      BY <1>5, <1>12, <2>1
    <3> QED  BY <1>1, <1>13, <2>1, <3>1 DEF ItemIn
  <2>2. CASE i = i0
    <3>1. n.accepted[i0] = a + 1 /\ n.value[i0] = v
      BY <1>1, <1>5, <1>12
    <3> QED  BY <1>8, <1>13, <2>2, <3>1 DEF ItemIn
  <2> QED  BY <2>1, <2>2
<1>17. KeepsFirst(cache, n.cache)
  <2>1. KeepsFirst(st.cache, n.cache)
    BY <1>1, <1>4, <1>8, <1>9, <1>10, <1>12, <1>13, ZenonT(40) DEF KeepsFirst
  <2> QED  BY <2>1 DEF Good, KeepsFirst
<1> QED  BY <1>12, <1>14, <1>15, <1>16, <1>17 DEF Good, n

(* the records that are added one after the other: the recursion has a value *)
Added1(start, records, m, f) ==
  f = [k \in 0 .. m |-> IF k = 0 THEN [st |-> start, added |-> 0]
                        ELSE AddOne(f[k - 1], k, records[k])]

(* the function that Absorb defines by recursion exists *)
LEMMA AbsorbExists ==
  ASSUME NEW start, NEW records \in Seq(Update)
  PROVE  \E f : Added1(start, records, Len(records), f)
<1> DEFINE S == {m \in Nat : \E f : Added1(start, records, m, f)}
<1>1. 0 \in S
  <2>1. Added1(start, records, 0, [k \in 0 .. 0 |-> [st |-> start, added |-> 0]])
    BY DEF Added1
  <2> QED  BY <2>1
<1>2. ASSUME NEW m \in S PROVE m + 1 \in S
  <2>1. PICK f : Added1(start, records, m, f)
    OBVIOUS
  <2> DEFINE g == [k \in 0 .. m + 1 |-> IF k <= m THEN f[k]
                                        ELSE AddOne(f[m], m + 1, records[m + 1])]
  <2>2. m \in Nat
    OBVIOUS
  <2>3. ASSUME NEW k \in 0 .. m + 1
        PROVE  g[k] = IF k = 0 THEN [st |-> start, added |-> 0]
                      ELSE AddOne(g[k - 1], k, records[k])
    <3>1. CASE k <= m
      <4>1. k \in 0 .. m /\ (k # 0 => k - 1 \in 0 .. m)
        BY <2>2, <3>1
      <4>2. f[k] = IF k = 0 THEN [st |-> start, added |-> 0]
                   ELSE AddOne(f[k - 1], k, records[k])
        BY <2>1, <4>1 DEF Added1
      <4>3. g[k] = f[k] /\ (k # 0 => g[k - 1] = f[k - 1])
        BY <2>2, <3>1, <4>1
      <4> HIDE DEF g
      <4> QED  BY <4>2, <4>3
    <3>2. CASE ~(k <= m)
      <4>1. k = m + 1 /\ k # 0 /\ k - 1 = m
        BY <2>2, <3>2
      <4>2. g[k] = AddOne(f[m], m + 1, records[m + 1]) /\ g[m] = f[m]
        BY <2>2, <4>1
      <4> HIDE DEF g
      <4> QED  BY <4>1, <4>2
    <3> QED  BY <3>1, <3>2
  <2>4. DOMAIN g = 0 .. m + 1 /\ g = [k \in 0 .. m + 1 |-> g[k]]
    OBVIOUS
  <2> HIDE DEF g
  <2>5. Added1(start, records, m + 1, g)
    BY <2>3, <2>4 DEF Added1
  <2> QED  BY <2>2, <2>5
<1>3. S = Nat
  <2> HIDE DEF S
  <2>1. S \subseteq Nat
    BY DEF S
  <2> QED  BY <1>1, <1>2, <2>1, NatSetInduction
<1>4. Len(records) \in S
  <2> HIDE DEF S
  <2> QED  BY <1>3
<1> QED  BY <1>4

(* hc_add_item_values: records are added one by one until the cache is full *)
LEMMA AbsorbGood ==
  ASSUME TypeInv, NEW start, Good(start), NEW records \in Seq(Update)
  PROVE  /\ Good(Absorb(start, records).st)
         /\ Absorb(start, records).added \in 0 .. Len(records)
<1> DEFINE len == Len(records)
           step == CHOOSE f : Added1(start, records, len, f)
<1>1. Added1(start, records, len, step)
  BY AbsorbExists
<1>2. Absorb(start, records) = step[len]
  BY Zenon DEF Absorb, Added1
<1>3. len \in Nat /\ \A k \in 1 .. len : records[k] \in Update
  OBVIOUS
<1> HIDE DEF step, len
<1> DEFINE S == {k \in Nat : k <= len => Good(step[k].st) /\ step[k].added \in 0 .. k}
<1>4. 0 \in S
  <2>1. step[0] = [st |-> start, added |-> 0]
    BY <1>1, <1>3 DEF Added1
  <2> QED  BY <2>1
<1>5. ASSUME NEW k \in S PROVE k + 1 \in S
  <2> SUFFICES ASSUME k + 1 <= len
               PROVE  Good(step[k + 1].st) /\ step[k + 1].added \in 0 .. k + 1
    OBVIOUS
  <2> DEFINE p == step[k]
             r == records[k + 1]
  <2>1. k \in Nat /\ Good(p.st) /\ p.added \in 0 .. k
    BY <1>3
  <2>2. k + 1 \in 0 .. len /\ k + 1 # 0 /\ (k + 1) - 1 = k /\ k + 1 \in 1 .. len
    BY <1>3, <2>1
  <2>3. step[k + 1] = AddOne(p, k + 1, r)
    BY <1>1, <2>2 DEF Added1
  <2>4. r \in Update
    BY <1>3, <2>2
  <2> HIDE DEF p, r, S
  <2>5. \/ AddOne(p, k + 1, r) = p
        \/ Merges(p.st, r) /\ AddOne(p, k + 1, r) = [st |-> Merge(p.st, r), added |-> k + 1]
        \/ AddOne(p, k + 1, r) = [st |-> Insert(p.st, r, Known(p.st, r)), added |-> k + 1]
    BY DEF AddOne
  <2>6. 0 .. k \subseteq 0 .. k + 1 /\ k + 1 \in 0 .. k + 1
    BY <2>1
  <2> QED  BY <2>1, <2>3, <2>4, <2>5, <2>6, InsertGood, MergeGood
<1>6. S = Nat
  <2> HIDE DEF S
  <2>1. S \subseteq Nat
    BY DEF S
  <2> QED  BY <1>4, <1>5, <2>1, NatSetInduction
<1>7. len \in S
  <2> HIDE DEF S
  <2> QED  BY <1>3, <1>6
<1>8. Good(step[len].st) /\ step[len].added \in 0 .. len
  BY <1>3, <1>7
<1> QED  BY <1>2, <1>8 DEF len

---------------------------------------------------------------------------
(* steps that leave the syncers alone *)

(* an item in a batch is in the cache and has records *)
LEMMA OwnedData ==
  ASSUME OwnInv, TypeInv, NEW s \in Syncer, NEW i \in sync[s].batch
  PROVE  i \in Item /\ i \in DOMAIN cache /\ cache[i].data # <<>> /\ Data(i) = cache[i].data
<1>1. i \in Item
  BY DEF TypeInv, SyncerState
<1>2. Data(i) # <<>>
  BY <1>1 DEF OwnInv, Holds
<1> QED  BY <1>1, <1>2 DEF Data

(* syncers do not notice a step that keeps the first records and adds only new *)
(* values                                                                      *)
LEMMA SyncersKept ==
  ASSUME Inv, TypeInv', UNCHANGED <<sync, written, meta>>,
         KeepsFirst(cache, cache'),
         \A i \in Item : /\ gone[i] \subseteq gone'[i]
                         /\ \A n \in value'[i] : n <= accepted[i] => n \in value[i]
  PROVE  SyncInv' /\ ReadStable' /\ ProcessedInv'
<1>1. ASSUME NEW s \in Syncer, NEW i \in sync[s].batch
      PROVE  /\ i \in Item /\ i \in DOMAIN cache /\ Data(i) # <<>>
             /\ i \in DOMAIN cache' /\ Data(i)' # <<>>
             /\ Data(i)'[1] = Data(i)[1] /\ cache'[i].busy = cache[i].busy
  <2>1. /\ i \in Item /\ i \in DOMAIN cache /\ cache[i].data # <<>> /\ Data(i) = cache[i].data
    BY OwnedData DEF Inv
  <2>2. /\ i \in DOMAIN cache' /\ cache'[i].data # <<>>
        /\ cache'[i].data[1] = cache[i].data[1] /\ cache'[i].busy = cache[i].busy
    BY <2>1 DEF KeepsFirst
  <2>3. Data(i)' = cache'[i].data
    BY <2>2 DEF Data
  <2> QED  BY <2>1, <2>2, <2>3
<1>2. SyncInv'
  BY <1>1 DEF Inv, SyncInv, SyncOf
<1>3. \A s \in Syncer : DOMAIN sync[s].hist \subseteq sync[s].batch
  BY DEF Inv, SyncInv, SyncOf
<1>4. ReadStable'
  BY <1>1, <1>3 DEF Inv, ReadStable
<1>5. ASSUME NEW s \in Syncer, sync[s].pc \in {"timers", "unlock", "push"},
             NEW i \in DOMAIN sync[s].hist
      PROVE  LET n == sync[s].hist[i].n IN
               /\ n \in value'[i] => n \in Range(written[i]) \union gone'[i]
               /\ i \in LogItem /\ gone'[i] = {} => meta[i] = sync[s].hist[i].meta
  <2> DEFINE n == sync[s].hist[i].n
  <2>1. i \in Item /\ Data(i) # <<>> /\ Data(i) \in Seq(Records)
    <3>1. i \in sync[s].batch
      BY <1>3
    <3>2. i \in Item /\ i \in DOMAIN cache /\ Data(i) = cache[i].data /\ Data(i) # <<>>
      BY <3>1, OwnedData DEF Inv
    <3>3. cache[i] \in List
      BY <3>2, CachesType DEF Inv, TypeInv
    <3> QED  BY <3>2, <3>3 DEF List
  <2>2. n <= accepted[i]
    <3>1. Data(i)[1].n = n
      <4>1. [Data(i)[1] EXCEPT !.undef = sync[s].hist[i].undef] = sync[s].hist[i]
        BY DEF Inv, ReadStable
      <4>2. Data(i)[1] \in Records
        BY <2>1
      <4> QED  BY <4>1, <4>2 DEF Records
    <3>2. 1 \in DOMAIN Data(i)
      BY <2>1
    <3>3. InOrder(Data(i), accepted[i])
      BY <2>1 DEF Inv, ItemInv, ListInv
    <3> QED  BY <3>1, <3>2, <3>3 DEF InOrder
  <2>3. /\ n \in value[i] => n \in Range(written[i]) \union gone[i]
        /\ i \in LogItem /\ gone[i] = {} => meta[i] = sync[s].hist[i].meta
    BY <1>5 DEF Inv, ProcessedInv, ProcessedOf
  <2> QED  BY <2>1, <2>2, <2>3
<1>6. ProcessedInv'
  BY <1>5 DEF ProcessedInv, ProcessedOf
<1> QED  BY <1>2, <1>4, <1>6

(* nor one that changes the triggers of an item only through toggled *)
LEMMA TriggersKept ==
  ASSUME Inv, UNCHANGED <<sync, locked>>, KeepsFirst(cache, cache'), toggled \subseteq toggled',
         \A i \in Item : EnabledTriggers(i)' \subseteq EnabledTriggers(i) \union toggled'
  PROVE  TriggerInv'
<1>1. ASSUME NEW s \in Syncer, sync[s].pc \in {"locked", "prepared", "timers"},
             NEW i \in sync[s].batch, ~cache'[i].busy, Data(i)'[1].val
      PROVE  EnabledTriggers(i)' \subseteq sync[s].trig \union toggled'
  <2>1. /\ i \in Item /\ i \in DOMAIN cache /\ cache[i].data # <<>> /\ Data(i) = cache[i].data
    BY OwnedData DEF Inv
  <2>2. /\ i \in DOMAIN cache' /\ cache'[i].data # <<>>
        /\ cache'[i].data[1] = cache[i].data[1] /\ cache'[i].busy = cache[i].busy
    BY <2>1 DEF KeepsFirst
  <2>3. Data(i)' = cache'[i].data
    BY <2>2 DEF Data
  <2>4. EnabledTriggers(i) \subseteq sync[s].trig \union toggled
    BY <1>1, <2>1, <2>2, <2>3 DEF Inv, TriggerInv, LocksInv, LockedOf
  <2> QED  BY <2>1, <2>4
<1> QED  BY <1>1 DEF Inv, TriggerInv, LocksInv, LockedOf

(* steps of the configuration, the operator and the main process that change *)
(* neither the lists nor the syncers                                         *)
LEMMA QuietStep ==
  ASSUME Inv, TypeInv', UNCHANGED <<queue, sync, locked, accepted, value, written, meta, gone>>,
         KeepsFirst(cache, cache'), \A i \in Item : Data(i)' = Data(i),
         main \notin {"sync", "end"}, main' \notin {"sync", "end"}, toggled \subseteq toggled',
         \A i \in Item : EnabledTriggers(i)' \subseteq EnabledTriggers(i) \union toggled'
  PROVE  Inv'
<1>2. SyncInv' /\ ReadStable' /\ ProcessedInv'
  BY SyncersKept
<1>3. TriggerInv'
  BY TriggersKept
<1>4. OwnInv' /\ EndInv'
  BY DEF Inv, OwnInv, EndInv, Holds
<1>5. ASSUME NEW i \in Item PROVE ItemInv(i)'
  <2>1. Again(i)' = Again(i) /\ Data(i)' = Data(i) /\ Dead' = Dead
    BY DEF Again, Dead
  <2>2. Ascends(written[i])'
    BY <2>1 DEF Inv, ItemInv, Ascends
  <2>3. ListInv(i, Data(i), accepted[i], value[i], written[i], gone[i], meta[i], Again(i))
    BY DEF Inv, ItemInv
  <2> QED  BY <2>1, <2>2, <2>3 DEF ItemInv
<1> QED  BY <1>2, <1>3, <1>4, <1>5 DEF Inv

(* the cache is what it was *)
LEMMA SameCache ==
  ASSUME UNCHANGED cache
  PROVE  KeepsFirst(cache, cache') /\ \A i \in Item : Data(i)' = Data(i)
  BY DEF KeepsFirst, Data

(* configuration changes, the end of flushers and of the server *)
LEMMA QuietSteps ==
  ASSUME Inv,
         \/ \E i \in Item : DisableItem(i) \/ DeleteItem(i)
         \/ \E t \in Trigger : ToggleTrigger(t)
         \/ \E f \in Flusher : EndFlusher(f)
         \/ Terminate \/ ShutdownSyncers
  PROVE  Inv'
<1>1. TypeInv
  BY DEF Inv
<1>2. ASSUME NEW i \in Item, DisableItem(i) \/ DeleteItem(i) PROVE Inv'
  <2>1. /\ UNCHANGED <<enabled, toggled, shared, locked, flush, sync, main, fate>>
        /\ main \notin {"sync", "end"}
        /\ status[i] \in {"active", "disabled"}
        /\ \E x \in {"disabled", "deleted"} : status' = [status EXCEPT ![i] = x]
    BY <1>2 DEF DisableItem, DeleteItem, Running
  <2>2. TypeInv'
    BY <1>1, <2>1 DEF TypeInv, shared, fate
  <2>3. \A j \in Item : EnabledTriggers(j)' \subseteq EnabledTriggers(j)
    BY <1>1, <2>1 DEF EnabledTriggers, TypeInv
  <2> QED  BY <2>1, <2>2, <2>3, QuietStep, SameCache DEF shared, fate
<1>3. ASSUME NEW t \in Trigger, ToggleTrigger(t) PROVE Inv'
  <2>1. /\ UNCHANGED <<status, shared, locked, flush, sync, main, fate>>
        /\ main \notin {"sync", "end"} /\ toggled' = toggled \union {t}
        /\ enabled' \subseteq enabled \union {t}
    BY <1>3 DEF ToggleTrigger, Running
  <2>2. TypeInv'
    BY <1>1, <2>1 DEF TypeInv, shared, fate
  <2>3. \A j \in Item : EnabledTriggers(j)' \subseteq EnabledTriggers(j) \union toggled'
    BY <2>1 DEF EnabledTriggers
  <2> QED  BY <2>1, <2>2, <2>3, QuietStep, SameCache DEF shared, fate
<1>4. ASSUME NEW f \in Flusher, EndFlusher(f) PROVE Inv'
  <2>1. /\ UNCHANGED <<shared, locked, config, sync, main, accepted, value, written, meta, gone>>
        /\ main \notin {"sync", "end"}
        /\ flush' = [flush EXCEPT ![f] = [IdleFlusher EXCEPT !.pc = "ended"]]
        /\ drift' = drift - flush[f].added
    BY <1>4 DEF EndFlusher
  <2>2. [IdleFlusher EXCEPT !.pc = "ended"] = [pc |-> "ended", todo |-> <<>>, added |-> 0]
    BY DEF IdleFlusher
  <2>3. DOMAIN flush' = Flusher /\ drift' \in Int
        /\ \A g \in Flusher : flush'[g] = flush[g]
                              \/ flush'[g] = [pc |-> "ended", todo |-> <<>>, added |-> 0]
    <3>1. flush[f].added \in Int /\ drift \in Int
      BY <1>1 DEF TypeInv, FlusherState
    <3>2. drift' \in Int
      BY <2>1, <3>1
    <3> QED  BY <1>1, <2>1, <2>2, <3>2 DEF TypeInv
  <2>4. TypeInv'
    <3>1. <<>> \in Seq(Update)
      OBVIOUS
    <3>2. FlusherState([pc |-> "ended", todo |-> <<>>, added |-> 0])
      BY <3>1 DEF FlusherState
    <3>3. \A g \in Flusher : FlusherState(flush'[g])
      BY <1>1, <2>3, <3>2 DEF TypeInv
    <3> QED  BY <1>1, <2>1, <2>3, <3>3 DEF TypeInv, shared, config
  <2>5. \A j \in Item : EnabledTriggers(j)' = EnabledTriggers(j)
    BY <2>1 DEF EnabledTriggers, config
  <2> QED  BY <2>1, <2>4, <2>5, QuietStep, SameCache DEF shared, config
<1>5. CASE Terminate \/ ShutdownSyncers
  <2>1. /\ UNCHANGED <<shared, locked, config, flush, sync, fate>>
        /\ main \notin {"sync", "end"} /\ main' \notin {"sync", "end"}
    BY <1>5 DEF Terminate, ShutdownSyncers
  <2>2. TypeInv'
    BY <1>1, <2>1 DEF TypeInv, shared, fate, config
  <2>3. \A j \in Item : EnabledTriggers(j)' = EnabledTriggers(j)
    BY <2>1 DEF EnabledTriggers, config
  <2> QED  BY <2>1, <2>2, <2>3, QuietStep, SameCache DEF shared, fate, config
<1> QED  BY <1>2, <1>3, <1>4, <1>5

(* zbx_dc_flush_history, with or without a wait for room *)
LEMMA AddedStep ==
  ASSUME Inv, NEW f \in Flusher, flush[f].pc # "ended", NEW before \in Nat,
         NEW records \in Seq(Update), NEW start, Good(start), NEW result,
         result = Absorb(start, records), Added(f, before, records, result)
  PROVE  Inv'
<1>1. Good(result.st) /\ result.added \in 0 .. Len(records) /\ TypeInv /\ Len(records) \in Nat
  BY AbsorbGood DEF Inv
<1>2. /\ cache' = result.st.cache /\ queue' = result.st.queue
      /\ accepted' = result.st.accepted /\ value' = result.st.value
      /\ drift' = result.st.drift
      /\ UNCHANGED <<locked, config, sync, main, written, meta, gone>>
  BY DEF Added
<1>3. /\ cache' \in Caches /\ queue' \in [Item -> {0, 1}] /\ accepted' \in [Item -> Nat]
      /\ value' \in [Item -> SUBSET Nat] /\ drift' \in Int
  BY <1>1, <1>2 DEF Good, Stores
<1>4. main \notin {"sync", "end"}
  BY DEF Inv, EndInv
<1>5. /\ DOMAIN flush' = Flusher
      /\ \A g \in Flusher : FlusherState(flush'[g])
  <2> DEFINE rest == SubSeq(records, result.added + 1, Len(records))
  <2>1. \/ flush' = [flush EXCEPT ![f] = IdleFlusher]
        \/ /\ Len(records) - result.added # 0
           /\ flush' = [flush EXCEPT ![f] =
                  [pc |-> "waiting", added |-> before + result.added, todo |-> rest]]
    BY DEF Added
  <2>2. IdleFlusher = [pc |-> "ready", todo |-> <<>>, added |-> 0] /\ <<>> \in Seq(Update)
    BY DEF IdleFlusher
  <2>3. result.added \in Nat /\ before + result.added \in Nat /\ result.added <= Len(records)
    BY <1>1
  <2>4. Len(records) - result.added # 0 => rest \in Seq(Update) /\ rest # <<>>
    <3> SUFFICES ASSUME Len(records) - result.added # 0 PROVE rest \in Seq(Update) /\ rest # <<>>
      OBVIOUS
    <3> DEFINE m == result.added + 1
    <3>1. m \in 1 .. Len(records)
      BY <1>1, <2>3
    <3> HIDE DEF m
    <3>2. SubSeq(records, m, Len(records)) \in Seq(Update)
      BY <3>1
    <3>3. Len(SubSeq(records, m, Len(records))) = Len(records) - m + 1
      BY <1>1, <3>1
    <3>4. Len(records) - m + 1 # 0
      BY <1>1, <3>1
    <3>5. Len(SubSeq(records, m, Len(records))) # 0
      BY <3>3, <3>4
    <3> QED  BY <3>2, <3>5 DEF m
  <2> HIDE DEF rest
  <2>5. \A g \in Flusher : \/ flush'[g] = flush[g]
                           \/ flush'[g] = IdleFlusher
                           \/ /\ Len(records) - result.added # 0
                              /\ flush'[g] = [pc |-> "waiting", added |-> before + result.added,
                                              todo |-> rest]
    BY <1>1, <2>1 DEF TypeInv
  <2>6. DOMAIN flush' = Flusher
    BY <1>1, <2>1 DEF TypeInv
  <2>7. FlusherState(IdleFlusher)
    BY <2>2 DEF FlusherState
  <2>8. Len(records) - result.added # 0 =>
          FlusherState([pc |-> "waiting", added |-> before + result.added, todo |-> rest])
    BY <2>3, <2>4 DEF FlusherState
  <2> QED  BY <1>1, <2>5, <2>6, <2>7, <2>8 DEF TypeInv
<1>6. TypeInv'
  BY <1>1, <1>2, <1>3, <1>5 DEF TypeInv, config
<1>7. SyncInv' /\ ReadStable' /\ ProcessedInv'
  BY <1>1, <1>2, <1>6, SyncersKept DEF Good, LaterValues
<1>8. TriggerInv'
  <2>1. \A j \in Item : EnabledTriggers(j)' = EnabledTriggers(j)
    BY <1>2 DEF EnabledTriggers, config
  <2> QED  BY <1>1, <1>2, <2>1, TriggersKept DEF Good, config
<1>9. OwnInv'
  <2>1. \A i \in Item : QueuedIn(result.st, i) /\ Data(i)' = DataIn(result.st.cache, i)
    BY <1>1, <1>2 DEF Good, Data, DataIn
  <2> QED  BY <1>2, <2>1 DEF Inv, OwnInv, Holds, QueuedIn
<1>10. EndInv'
  BY <1>2, <1>4 DEF EndInv
<1>11. ASSUME NEW i \in Item PROVE ItemInv(i)'
  <2>1. Again(i)' = Again(i) /\ Dead' = Dead /\ Data(i)' = DataIn(result.st.cache, i)
    BY <1>2 DEF Again, Dead, Data, DataIn
  <2>2. Ascends(written[i])'
    BY <1>2, <2>1 DEF Inv, ItemInv, Ascends
  <2>3. ItemIn(result.st, i)
    BY <1>1 DEF Good
  <2> QED  BY <1>2, <2>1, <2>2, <2>3 DEF ItemInv, ItemIn
<1> QED  BY <1>6, <1>7, <1>8, <1>9, <1>10, <1>11 DEF Inv

(* the flush of a process and its retries *)
LEMMA FlushSteps ==
  ASSUME Inv, NEW f \in Flusher, Flush(f) \/ FlushRetry(f)
  PROVE  Inv'
<1>1. TypeInv
  BY DEF Inv
<1>2. Good(Store)
  <2>1. Store \in Stores
    BY <1>1 DEF Store, Stores, TypeInv
  <2>2. /\ Store.cache = cache /\ Store.queue = queue /\ Store.accepted = accepted
        /\ Store.value = value
    BY DEF Store
  <2>3. KeepsFirst(cache, cache)
    BY DEF KeepsFirst
  <2>4. ASSUME NEW i \in Item PROVE QueuedIn(Store, i) /\ ItemIn(Store, i) /\ LaterValues(Store, i)
    <3>1. Data(i) = DataIn(Store.cache, i) /\ accepted[i] \in Nat
      BY <1>1, <2>2 DEF Data, DataIn, TypeInv
    <3>2. QueuedIn(Store, i)
      BY <2>2, <3>1 DEF Inv, OwnInv, QueuedIn
    <3>3. ItemIn(Store, i)
      BY <2>2, <3>1 DEF Inv, ItemInv, ItemIn
    <3> QED  BY <2>2, <3>1, <3>2, <3>3 DEF LaterValues
  <2> QED  BY <2>1, <2>2, <2>3, <2>4 DEF Good
<1>3. CASE Flush(f)
  <2>1. PICK records \in Batches : Added(f, 0, records, Absorb(Store, records))
    BY <1>3 DEF Flush
  <2>2. records \in Seq(Update)
    <3>1. PICK k \in 1 .. FlushMax : records \in [1 .. k -> Update]
      BY DEF Batches, Update
    <3>2. k \in Nat
      BY <3>1
    <3> QED  BY <3>1, <3>2
  <2> QED  BY <1>2, <1>3, <2>1, <2>2, AddedStep DEF Flush
<1>4. CASE FlushRetry(f)
  <2> DEFINE first == Head(flush[f].todo)
             rest == Tail(flush[f].todo)
             start == Insert(Store, first, Known(Store, first))
  <2>1. /\ flush[f].pc = "waiting"
        /\ Added(f, flush[f].added + 1, rest, Absorb(start, rest))
    BY <1>4 DEF FlushRetry
  <2>2. flush[f].added + 1 \in Nat
    BY <1>1 DEF TypeInv, FlusherState
  <2>3. first \in Update /\ rest \in Seq(Update)
    BY <1>1, <2>1, HeadTailProperties DEF TypeInv, FlusherState
  <2>4. Good(start)
    BY <1>1, <1>2, <2>3, InsertGood
  <2> HIDE DEF first, rest, start
  <2> QED  BY <2>1, <2>2, <2>3, <2>4, AddedStep
<1> QED  BY <1>3, <1>4

---------------------------------------------------------------------------
(* records that are cleared *)

(* zbx_hc_clear_item_middle: what the lists of the cleared items keep *)
LEMMA ClearedLists ==
  ASSUME Inv, NEW S \in SUBSET Item
  PROVE  /\ Cleared(cache, S) \in Caches /\ DOMAIN Cleared(cache, S) = DOMAIN cache
         /\ KeepsFirst(cache, Cleared(cache, S))
         /\ \A i \in DOMAIN cache : Cleared(cache, S)[i].busy = cache[i].busy
         /\ \A i \in DOMAIN cache \ S : Cleared(cache, S)[i] = cache[i]
         /\ \A i \in Item :
              /\ DataIn(Cleared(cache, S), i) = <<>> <=> Data(i) = <<>>
              /\ Data(i) # <<>> => DataIn(Cleared(cache, S), i)[1] = Data(i)[1]
              /\ i \notin S => DataIn(Cleared(cache, S), i) = Data(i)
                               /\ Cut(cache, Cleared(cache, S))[i] = {}
              /\ Cut(cache, Cleared(cache, S))[i] \subseteq Nat
              /\ ListInv(i, DataIn(Cleared(cache, S), i), accepted[i], value[i], written[i],
                         gone[i] \union Cut(cache, Cleared(cache, S))[i], meta[i], Again(i))
<1> DEFINE c == Cleared(cache, S)
<1>1. cache \in Caches /\ DOMAIN cache \subseteq Item /\ \A i \in DOMAIN cache : cache[i] \in List
  BY CachesType DEF Inv, TypeInv
<1>2. /\ DOMAIN c = DOMAIN cache /\ c = [i \in DOMAIN c |-> c[i]]
      /\ \A i \in DOMAIN cache : c[i] = IF i \in S THEN ClearMiddle(cache[i]) ELSE cache[i]
  BY DEF Cleared
<1> HIDE DEF c
<1>3. ASSUME NEW i \in DOMAIN cache
      PROVE  /\ KeptFrom(cache[i], c[i]) /\ Numbers(cache[i].data) \subseteq Nat
             /\ HeldInv(i, c[i], accepted[i], value[i], written[i],
                        GoneWith(gone[i], cache[i], c[i]), meta[i], Again(i))
  <2>1. /\ cache[i] \in List /\ i \in Item /\ accepted[i] \in Nat /\ value[i] \in SUBSET Nat
        /\ written[i] \in Seq(Nat) /\ gone[i] \in SUBSET Nat /\ meta[i] \in Nat
        /\ Again(i) \in BOOLEAN
    BY <1>1 DEF Inv, TypeInv, Again
  <2>2. HeldInv(i, cache[i], accepted[i], value[i], written[i], gone[i], meta[i], Again(i))
    BY <2>1 DEF Inv, ItemInv, Data, HeldInv
  <2>3. Numbers(cache[i].data) \subseteq Nat
    <3>1. cache[i].data \in Seq(Records)
      BY <2>1 DEF List
    <3>2. \A k \in DOMAIN cache[i].data : cache[i].data[k] \in Records
      BY <3>1
    <3> QED  BY <3>2, RecordFields DEF Numbers
  <2>4. CASE i \in S
    <3>1. c[i] = ClearMiddle(cache[i])
      BY <1>2, <2>4
    <3> QED  BY <2>1, <2>2, <2>3, <3>1, ClearItem
  <2>5. CASE i \notin S
    <3>1. c[i] = cache[i]
      BY <1>2, <2>5
    <3>2. GoneWith(gone[i], cache[i], c[i]) = gone[i]
      BY <3>1 DEF GoneWith
    <3>3. KeptFrom(cache[i], cache[i])
      BY <2>1 DEF KeptFrom
    <3> QED  BY <2>1, <2>2, <2>3, <3>1, <3>2, <3>3
  <2> QED  BY <2>4, <2>5
<1>4. c \in Caches
  BY <1>1, <1>2, <1>3, CachesType DEF KeptFrom
<1>5. KeepsFirst(cache, c)
  BY <1>2, <1>3 DEF KeepsFirst, KeptFrom
<1>6. ASSUME NEW i \in Item
      PROVE  /\ DataIn(c, i) = <<>> <=> Data(i) = <<>>
             /\ Data(i) # <<>> => DataIn(c, i)[1] = Data(i)[1]
             /\ i \notin S => DataIn(c, i) = Data(i) /\ Cut(cache, c)[i] = {}
             /\ Cut(cache, c)[i] \subseteq Nat
             /\ ListInv(i, DataIn(c, i), accepted[i], value[i], written[i],
                        gone[i] \union Cut(cache, c)[i], meta[i], Again(i))
  <2>1. CASE i \in DOMAIN cache
    <3>1. /\ DataIn(c, i) = c[i].data /\ Data(i) = cache[i].data
          /\ Cut(cache, c)[i] = Numbers(cache[i].data) \ Numbers(c[i].data)
      BY <1>2, <2>1 DEF DataIn, Data, Cut
    <3>2. i \notin S => DataIn(c, i) = Data(i) /\ Cut(cache, c)[i] = {}
      <4>1. i \notin S => c[i] = cache[i]
        BY <1>2, <2>1
      <4> QED  BY <3>1, <4>1
    <3>3. Cut(cache, c)[i] \subseteq Nat
      BY <1>3, <2>1, <3>1
    <3>4. gone[i] \union Cut(cache, c)[i] = GoneWith(gone[i], cache[i], c[i])
      BY <3>1 DEF GoneWith
    <3>5. ListInv(i, DataIn(c, i), accepted[i], value[i], written[i],
                  gone[i] \union Cut(cache, c)[i], meta[i], Again(i))
      BY <1>3, <2>1, <3>1, <3>4, Zenon DEF HeldInv
    <3>6. /\ DataIn(c, i) = <<>> <=> Data(i) = <<>>
          /\ Data(i) # <<>> => DataIn(c, i)[1] = Data(i)[1]
      BY <1>3, <2>1, <3>1 DEF KeptFrom
    <3> QED  BY <3>2, <3>3, <3>5, <3>6
  <2>2. CASE i \notin DOMAIN cache
    <3>1. DataIn(c, i) = <<>> /\ Data(i) = <<>> /\ Cut(cache, c)[i] = {}
      BY <1>2, <2>2 DEF DataIn, Data, Cut
    <3>2. gone[i] \union Cut(cache, c)[i] = gone[i]
      BY <3>1
    <3> QED  BY <3>1, <3>2 DEF Inv, ItemInv
  <2> QED  BY <2>1, <2>2
<1>7. \A i \in DOMAIN cache : c[i].busy = cache[i].busy
  BY <1>3 DEF KeptFrom
<1>8. \A i \in DOMAIN cache \ S : c[i] = cache[i]
  BY <1>2
<1> QED  BY <1>2, <1>4, <1>5, <1>6, <1>7, <1>8 DEF c

(* zbx_hc_remove_items_by_ids *)
LEMMA RemoveItemStep ==
  ASSUME Inv, NEW i \in Item, RemoveItem(i)
  PROVE  Inv'
<1>1. /\ UNCHANGED <<enabled, toggled, queue, locked, flush, sync, main, fate>>
      /\ main \notin {"sync", "end"} /\ status[i] = "deleted"
      /\ status' = [status EXCEPT ![i] = "removed"]
  BY DEF RemoveItem, Running
<1>2. TypeInv
  BY DEF Inv
<1>3. cache \in Caches /\ DOMAIN cache \subseteq Item /\ \A j \in DOMAIN cache : cache[j] \in List
  BY <1>2, CachesType DEF TypeInv
<1>4. /\ cache' = [j \in DOMAIN cache' |-> cache'[j]] /\ DOMAIN cache' \subseteq DOMAIN cache
      /\ \A j \in DOMAIN cache' : /\ cache'[j] \in List /\ cache'[j].data = cache[j].data
                                  /\ cache'[j].busy = cache[j].busy
      /\ \A j \in DOMAIN cache \ DOMAIN cache' : cache[j].data = <<>>
  <2>1. CASE Data(i) = <<>>
    <3>1. cache' = [j \in DOMAIN cache \ {i} |-> cache[j]]
      BY <2>1 DEF RemoveItem
    <3>2. i \in DOMAIN cache => cache[i].data = <<>>
      BY <2>1 DEF Data
    <3> QED  BY <1>3, <3>1, <3>2
  <2>2. CASE Data(i) # <<>>
    <3>1. cache' = [cache EXCEPT ![i].keep = FALSE] /\ i \in DOMAIN cache
      BY <2>2 DEF RemoveItem, Data
    <3>2. /\ DOMAIN cache' = DOMAIN cache /\ cache' = [j \in DOMAIN cache' |-> cache'[j]]
          /\ cache'[i] = [cache[i] EXCEPT !.keep = FALSE]
          /\ \A j \in DOMAIN cache : j # i => cache'[j] = cache[j]
      BY <3>1
    <3>3. cache[i] \in List
      BY <1>3, <3>1
    <3>4. /\ cache'[i] \in List /\ cache'[i].data = cache[i].data
          /\ cache'[i].busy = cache[i].busy
      BY <3>2, <3>3 DEF List
    <3> QED  BY <1>3, <3>2, <3>4
  <2> QED  BY <2>1, <2>2
<1>5. cache' \in Caches
  BY <1>3, <1>4, CachesType
<1>6. KeepsFirst(cache, cache') /\ \A j \in Item : Data(j)' = Data(j)
  BY <1>4 DEF KeepsFirst, Data
<1>7. TypeInv'
  BY <1>1, <1>2, <1>5 DEF TypeInv, fate
<1>8. \A j \in Item : EnabledTriggers(j)' \subseteq EnabledTriggers(j)
  BY <1>1, <1>2 DEF EnabledTriggers, TypeInv
<1> QED  BY <1>1, <1>6, <1>7, <1>8, QuietStep DEF fate

(* rtc_history_cache_clear *)
LEMMA HistoryCacheClearStep ==
  ASSUME Inv, NEW j \in Item, HistoryCacheClear(j)
  PROVE  Inv'
<1> DEFINE c == Cleared(cache, {j})
<1>1. /\ UNCHANGED <<queue, locked, config, flush, sync, main,
                     accepted, value, written, meta, drift>>
      /\ main \notin {"sync", "end"} /\ cache' = c
      /\ gone' = [i \in Item |-> gone[i] \union Cut(cache, c)[i]]
  BY DEF HistoryCacheClear, Running, Account
<1>2. /\ c \in Caches /\ KeepsFirst(cache, c)
      /\ \A i \in Item :
           /\ DataIn(c, i) = <<>> <=> Data(i) = <<>>
           /\ Cut(cache, c)[i] \subseteq Nat
           /\ ListInv(i, DataIn(c, i), accepted[i], value[i], written[i],
                      gone[i] \union Cut(cache, c)[i], meta[i], Again(i))
  BY ClearedLists, ZenonT(40)
<1> HIDE DEF c
<1>3. TypeInv'
  BY <1>1, <1>2 DEF Inv, TypeInv, config
<1>4. \A i \in Item : /\ gone'[i] = gone[i] \union Cut(cache, c)[i]
                      /\ Data(i)' = DataIn(c, i)
  BY <1>1 DEF Data, DataIn
<1>5. SyncInv' /\ ReadStable' /\ ProcessedInv'
  BY <1>1, <1>2, <1>3, <1>4, SyncersKept
<1>6. TriggerInv'
  <2>1. \A i \in Item : EnabledTriggers(i)' = EnabledTriggers(i)
    BY <1>1 DEF EnabledTriggers, config
  <2> QED  BY <1>1, <1>2, <2>1, TriggersKept DEF config
<1>7. OwnInv' /\ EndInv'
  BY <1>1, <1>2, <1>4 DEF Inv, OwnInv, EndInv, Holds
<1>8. ASSUME NEW i \in Item PROVE ItemInv(i)'
  <2>1. Again(i)' = Again(i) /\ Dead' = Dead
    BY <1>1 DEF Again, Dead
  <2>2. Ascends(written[i])'
    BY <1>1, <2>1 DEF Inv, ItemInv, Ascends
  <2> QED  BY <1>1, <1>2, <1>4, <2>1, <2>2 DEF ItemInv
<1> QED  BY <1>3, <1>5, <1>6, <1>7, <1>8 DEF Inv

---------------------------------------------------------------------------
(* steps of a syncer *)

(* a step of a syncer leaves the other syncers, and all items that are not *)
(* in its batch, alone                                                     *)
SyncerFrame(s) ==
  /\ \A t \in Syncer \ {s} : sync'[t] = sync[t]
  /\ DOMAIN sync'[s].hist \subseteq sync[s].batch
  /\ sync[s].pc # "dead"
  /\ \A i \in Item \ sync[s].batch :
       /\ Data(i)' = Data(i)
       /\ i \in DOMAIN cache => i \in DOMAIN cache' /\ cache'[i] = cache[i]
       /\ gone'[i] = gone[i] /\ written'[i] = written[i] /\ meta'[i] = meta[i]
  /\ UNCHANGED <<accepted, value, config>>
  /\ main' \notin {"sync", "end"}

(* a step of syncer s within its frame leaves what holds of the others *)
LEMMA OthersKept ==
  ASSUME Inv, NEW s \in Syncer, SyncerFrame(s), NEW t \in Syncer \ {s}
  PROVE  SyncOf(t)' /\ ReadOf(t)' /\ ProcessedOf(t)' /\ LockedOf(t)'
<1>1. sync'[t] = sync[t] /\ t # s /\ UNCHANGED <<value, config>>
  BY DEF SyncerFrame
<1>2. SyncOf(t) /\ ReadOf(t) /\ ProcessedOf(t) /\ LockedOf(t)
  BY DEF Inv, SyncInv, ReadStable, ReadOf, ProcessedInv, TriggerInv
<1>3. ASSUME NEW i \in sync[t].batch
      PROVE  /\ i \in Item /\ Data(i)' = Data(i) /\ cache'[i] = cache[i]
             /\ gone'[i] = gone[i] /\ written'[i] = written[i] /\ meta'[i] = meta[i]
             /\ EnabledTriggers(i)' = EnabledTriggers(i)
  <2>1. i \in Item /\ i \in DOMAIN cache
    BY OwnedData DEF Inv
  <2>2. i \notin sync[s].batch
    BY <1>1, <2>1 DEF Inv, OwnInv, Holds
  <2>3. EnabledTriggers(i)' = EnabledTriggers(i)
    BY <1>1 DEF EnabledTriggers, config
  <2> QED  BY <2>1, <2>2, <2>3 DEF SyncerFrame
<1>4. DOMAIN sync[t].hist \subseteq sync[t].batch
  BY <1>2 DEF SyncOf
<1>5. SyncOf(t)'
  BY <1>1, <1>2, <1>3 DEF SyncOf
<1>6. ReadOf(t)'
  BY <1>1, <1>2, <1>3, <1>4 DEF ReadOf
<1>7. ProcessedOf(t)'
  BY <1>1, <1>2, <1>3, <1>4 DEF ProcessedOf
<1>8. LockedOf(t)'
  BY <1>1, <1>2, <1>3 DEF LockedOf, config
<1> QED  BY <1>5, <1>6, <1>7, <1>8

(* again only ever allows more *)
LEMMA WeakerAgain ==
  ASSUME NEW i, NEW d, NEW a, NEW v, NEW w, NEW g, NEW m, NEW again \in BOOLEAN,
         NEW more \in BOOLEAN, again => more, ListInv(i, d, a, v, w, g, m, again)
  PROVE  ListInv(i, d, a, v, w, g, m, more)
  BY DEF ListInv, Before

(* a step of a syncer revives nobody *)
LEMMA DeadKept ==
  ASSUME NEW s \in Syncer, SyncerFrame(s)
  PROVE  Dead \subseteq Dead'
  BY DEF SyncerFrame, Dead

(* while a syncer runs the main process does not write *)
LEMMA NotSyncing ==
  ASSUME Inv, NEW s \in Syncer, sync[s].pc \notin {"ended", "dead"}
  PROVE  main \notin {"sync", "end"}
  BY DEF Inv, EndInv

(* what a step of a syncer has to show *)
LEMMA SyncerStepInv ==
  ASSUME Inv, NEW s \in Syncer, SyncerFrame(s), main \notin {"sync", "end"},
         TypeInv', OwnInv', SyncOf(s)', ReadOf(s)', ProcessedOf(s)', LockedOf(s)', LocksInv',
         \A i \in sync[s].batch : ItemInv(i)'
  PROVE  Inv'
<1>1. SyncInv' /\ ReadStable' /\ ProcessedInv' /\ TriggerInv'
  BY OthersKept DEF SyncInv, ReadStable, ReadOf, ProcessedInv, TriggerInv
<1>2. EndInv'
  BY DEF EndInv, SyncerFrame
<1>3. ASSUME NEW i \in Item \ sync[s].batch PROVE ItemInv(i)'
  <2>1. /\ Data(i)' = Data(i) /\ gone'[i] = gone[i] /\ written'[i] = written[i]
        /\ meta'[i] = meta[i] /\ accepted' = accepted /\ value' = value
    BY DEF SyncerFrame
  <2>2. DOMAIN sync[s].hist \subseteq sync[s].batch
    BY DEF Inv, SyncInv, SyncOf
  <2>3. Again(i) => Again(i)'
    BY <2>2 DEF Again, SyncerFrame
  <2>4. Again(i) \in BOOLEAN /\ Again(i)' \in BOOLEAN
    BY DEF Again
  <2>5. ListInv(i, Data(i), accepted[i], value[i], written[i], gone[i], meta[i], Again(i))'
    BY <2>1, <2>3, <2>4, WeakerAgain DEF Inv, ItemInv
  <2>6. Ascends(written[i])'
    BY <2>1, DeadKept DEF Inv, ItemInv, Ascends
  <2> QED  BY <2>5, <2>6 DEF ItemInv
<1> QED  BY <1>1, <1>2, <1>3 DEF Inv

(* the syncers hold what they held *)
LEMMA SameOwners ==
  ASSUME Inv, UNCHANGED queue, \A i \in Item : Data(i)' = <<>> <=> Data(i) = <<>>,
         \A s \in Syncer : sync'[s].batch = sync[s].batch
  PROVE  OwnInv'
  BY DEF Inv, OwnInv, Holds

(* the syncers after one of them has changed *)
LEMMA SyncerUpdate ==
  ASSUME TypeInv, NEW s \in Syncer, NEW r \in SyncerState, sync' = [sync EXCEPT ![s] = r]
  PROVE  /\ sync' \in [Syncer -> SyncerState] /\ sync'[s] = r
         /\ \A t \in Syncer \ {s} : sync'[t] = sync[t]
  BY DEF TypeInv

(* zbx_hc_pop_items: the items of the new batch leave the queue *)
LEMMA PopStep ==
  ASSUME Inv, NEW s \in Syncer, Pop(s)
  PROVE  Inv'
<1>1. TypeInv /\ SyncOf(s) /\ ReadOf(s) /\ sync[s] \in SyncerState
  BY DEF Inv, TypeInv, SyncInv, ReadStable, ReadOf
<1>2. PICK batch \in SUBSET Queued :
        /\ queue' = [i \in Item |-> IF i \in batch THEN queue[i] - 1 ELSE queue[i]]
        /\ sync' = [sync EXCEPT ![s] =
              [Goto(s, IF batch = {} THEN "timers" ELSE "popped") EXCEPT !.batch = batch]]
  BY DEF Pop
<1>3. /\ sync[s].pc = "idle" /\ sync[s].batch = {} /\ DOMAIN sync[s].hist = {}
      /\ UNCHANGED <<cache, locked, config, flush, main, fate>>
  BY <1>1 DEF Pop, SyncOf
<1> DEFINE pc == IF batch = {} THEN "timers" ELSE "popped"
           r == [Goto(s, pc) EXCEPT !.batch = batch]
<1>4. batch \subseteq Item /\ \A i \in batch : queue[i] = 1
  BY <1>1 DEF Queued, TypeInv
<1>5. r \in SyncerState /\ r.pc = pc /\ r.batch = batch /\ r.hist = sync[s].hist
      /\ r.trig = sync[s].trig /\ r.calc = sync[s].calc
  BY <1>1, <1>4 DEF SyncerState, Goto
<1>6. pc \in {"timers", "popped"} /\ (pc = "timers" <=> batch = {})
  OBVIOUS
<1> HIDE DEF pc, r
<1>7. /\ sync' \in [Syncer -> SyncerState] /\ sync'[s] = r
      /\ \A t \in Syncer \ {s} : sync'[t] = sync[t]
  BY <1>1, <1>2, <1>5, SyncerUpdate DEF r, pc
<1>8. main \notin {"sync", "end"}
  BY <1>3, NotSyncing
<1>9. \A i \in Item : Data(i)' = Data(i)
  BY <1>3 DEF Data
<1>10. SyncerFrame(s)
  BY <1>3, <1>5, <1>7, <1>8, <1>9 DEF SyncerFrame, fate
<1>11. TypeInv'
  <2>1. queue' \in [Item -> {0, 1}]
    BY <1>1, <1>2, <1>4 DEF TypeInv
  <2> QED  BY <1>1, <1>3, <1>7, <2>1 DEF TypeInv, fate, config
<1>12. OwnInv'
  <2>1. \A i \in Item : IF i \in batch THEN queue'[i] = 0 ELSE queue'[i] = queue[i]
    BY <1>2, <1>4
  <2>2. \A i \in Item, t \in Syncer : Holds(t, i)' <=> Holds(t, i) \/ (t = s /\ i \in batch)
    BY <1>3, <1>5, <1>7 DEF Holds
  <2>3. \A i \in batch : \A t \in Syncer : ~Holds(t, i)
    BY <1>4 DEF Inv, OwnInv
  <2> QED  BY <1>4, <1>9, <2>1, <2>2, <2>3 DEF Inv, OwnInv
<1>13. SyncOf(s)' /\ ReadOf(s)' /\ ProcessedOf(s)' /\ LockedOf(s)'
  BY <1>3, <1>5, <1>6, <1>7 DEF SyncOf, ReadOf, ProcessedOf, LockedOf
<1>14. LocksInv'
  BY <1>3, <1>5, <1>6, <1>7 DEF Inv, TriggerInv, LocksInv, config
<1> QED  BY <1>3, <1>8, <1>10, <1>11, <1>12, <1>13, <1>14, SyncerStepInv

(* the locking of the triggers of a batch, item after item *)
Locked1(order, m, f) ==
  f = [k \in 0 .. m |-> IF k = 0 THEN [trig |-> {}, busy |-> {}]
                        ELSE LockOne(f[k - 1], order[k])]
(* the function that LockItems defines by recursion exists *)
LEMMA LockExists ==
  ASSUME NEW order, NEW n \in Nat
  PROVE  \E f : Locked1(order, n, f)
<1> DEFINE S == {m \in Nat : \E f : Locked1(order, m, f)}
<1>1. 0 \in S
  <2>1. Locked1(order, 0, [k \in 0 .. 0 |-> [trig |-> {}, busy |-> {}]])
    BY DEF Locked1
  <2> QED  BY <2>1
<1>2. ASSUME NEW m \in S PROVE m + 1 \in S
  <2>1. PICK f : Locked1(order, m, f)
    OBVIOUS
  <2> DEFINE g == [k \in 0 .. m + 1 |-> IF k <= m THEN f[k] ELSE LockOne(f[m], order[m + 1])]
  <2>2. m \in Nat
    OBVIOUS
  <2>3. ASSUME NEW k \in 0 .. m + 1
        PROVE  g[k] = IF k = 0 THEN [trig |-> {}, busy |-> {}] ELSE LockOne(g[k - 1], order[k])
    <3>1. CASE k <= m
      <4>1. k \in 0 .. m /\ (k # 0 => k - 1 \in 0 .. m)
        BY <2>2, <3>1
      <4>2. f[k] = IF k = 0 THEN [trig |-> {}, busy |-> {}] ELSE LockOne(f[k - 1], order[k])
        BY <2>1, <4>1 DEF Locked1
      <4>3. g[k] = f[k] /\ (k # 0 => g[k - 1] = f[k - 1])
        BY <2>2, <3>1, <4>1
      <4> HIDE DEF g
      <4> QED  BY <4>2, <4>3
    <3>2. CASE ~(k <= m)
      <4>1. k = m + 1 /\ k # 0 /\ k - 1 = m
        BY <2>2, <3>2
      <4>2. g[k] = LockOne(f[m], order[m + 1]) /\ g[m] = f[m]
        BY <2>2, <4>1
      <4> HIDE DEF g
      <4> QED  BY <4>1, <4>2
    <3> QED  BY <3>1, <3>2
  <2>4. DOMAIN g = 0 .. m + 1 /\ g = [k \in 0 .. m + 1 |-> g[k]]
    OBVIOUS
  <2> HIDE DEF g
  <2>5. Locked1(order, m + 1, g)
    BY <2>3, <2>4 DEF Locked1
  <2> QED  BY <2>2, <2>5
<1>3. S = Nat
  <2> HIDE DEF S
  <2>1. S \subseteq Nat
    BY DEF S
  <2> QED  BY <1>1, <1>2, <2>1, NatSetInduction
<1> QED  BY <1>3

(* zbx_dc_config_lock_triggers_by_history_items: no trigger is locked twice, *)
(* and an item whose triggers are not all locked for it is busy              *)
LocksFor(S, p) ==
  p \in [trig : SUBSET Trigger, busy : SUBSET S] /\ p.trig \cap locked = {}
(* one more item: its triggers are locked, or the item is busy *)
LEMMA LockOneMore ==
  ASSUME NEW S \in SUBSET Item, NEW p, LocksFor(S, p), NEW i \in S
  PROVE  /\ LocksFor(S, LockOne(p, i))
         /\ p.trig \subseteq LockOne(p, i).trig /\ p.busy \subseteq LockOne(p, i).busy
         /\ i \in LockOne(p, i).busy \/ Lockable(i) \subseteq LockOne(p, i).trig
<1>1. Lockable(i) \subseteq Trigger
  BY HistoryCacheAssumption DEF Lockable, EnabledTriggers
<1> DEFINE b2 == p.busy \union {i}
           t2 == p.trig \union Lockable(i)
<1>2. b2 \in SUBSET S /\ t2 \in SUBSET Trigger
  BY <1>1 DEF LocksFor
<1>3. p.busy \subseteq b2 /\ i \in b2 /\ p.trig \subseteq t2 /\ Lockable(i) \subseteq t2
  OBVIOUS
<1>4. CASE Lockable(i) \cap (locked \union p.trig) # {}
  <2>1. LockOne(p, i) = [p EXCEPT !.busy = b2]
    BY <1>4 DEF LockOne
  <2> HIDE DEF b2, t2
  <2>2. /\ LockOne(p, i) \in [trig : SUBSET Trigger, busy : SUBSET S]
        /\ LockOne(p, i).busy = b2 /\ LockOne(p, i).trig = p.trig
    BY <1>2, <2>1 DEF LocksFor
  <2> QED  BY <1>3, <2>2 DEF LocksFor
<1>5. CASE Lockable(i) \cap (locked \union p.trig) = {}
  <2>1. LockOne(p, i) = [p EXCEPT !.trig = t2]
    BY <1>5 DEF LockOne
  <2>2. t2 \cap locked = {}
    BY <1>5 DEF LocksFor
  <2> HIDE DEF b2, t2
  <2>3. /\ LockOne(p, i) \in [trig : SUBSET Trigger, busy : SUBSET S]
        /\ LockOne(p, i).busy = p.busy /\ LockOne(p, i).trig = t2
    BY <1>2, <2>1 DEF LocksFor
  <2> QED  BY <1>3, <2>2, <2>3 DEF LocksFor
<1> QED  BY <1>4, <1>5

(* the result for a batch in any order *)
LEMMA LockItemsResult ==
  ASSUME NEW S \in SUBSET Item, NEW order \in Orders(S)
  PROVE  /\ LocksFor(S, LockItems(order))
         /\ \A i \in S \ LockItems(order).busy : Lockable(i) \subseteq LockItems(order).trig
<1> DEFINE len == Len(order)
           step == CHOOSE f : Locked1(order, len, f)
<1>1. IsFiniteSet(S) /\ Cardinality(S) \in Nat
  BY HistoryCacheAssumption, FS_Subset, FS_CardinalityType
<1>2. order \in Seq(S) /\ len \in Nat /\ DOMAIN order = 1 .. len
      /\ \A k \in 1 .. len : order[k] \in S
  BY <1>1 DEF Orders
<1>3. Locked1(order, len, step)
  BY <1>2, LockExists
<1>4. LockItems(order) = step[len]
  BY Zenon DEF LockItems, Locked1
<1> HIDE DEF step, len
<1> DEFINE Upto(k, p) == /\ LocksFor(S, p)
                         /\ \A j \in 1 .. k : order[j] \in p.busy \/ Lockable(order[j]) \subseteq p.trig
           T == {k \in Nat : k <= len => Upto(k, step[k])}
<1>5. 0 \in T
  <2>1. step[0] = [trig |-> {}, busy |-> {}]
    BY <1>2, <1>3 DEF Locked1
  <2> QED  BY <2>1 DEF LocksFor
<1>6. ASSUME NEW k \in T PROVE k + 1 \in T
  <2> SUFFICES ASSUME k + 1 <= len PROVE Upto(k + 1, step[k + 1])
    OBVIOUS
  <2> DEFINE p == step[k]
             i == order[k + 1]
  <2>1. k \in Nat /\ Upto(k, p)
    BY <1>2
  <2>2. k + 1 \in 0 .. len /\ k + 1 # 0 /\ (k + 1) - 1 = k /\ k + 1 \in 1 .. len
    BY <1>2, <2>1
  <2>3. step[k + 1] = LockOne(p, i)
    BY <1>3, <2>2 DEF Locked1
  <2>4. i \in S
    BY <1>2, <2>2
  <2>5. \A j \in 1 .. k + 1 : j \in 1 .. k \/ j = k + 1
    BY <2>1
  <2> DEFINE n == LockOne(p, i)
  <2>6. /\ LocksFor(S, n) /\ p.trig \subseteq n.trig /\ p.busy \subseteq n.busy
        /\ i \in n.busy \/ Lockable(i) \subseteq n.trig
    BY <2>1, <2>4, LockOneMore
  <2> HIDE DEF n
  <2>7. ASSUME NEW j \in 1 .. k + 1 PROVE order[j] \in n.busy \/ Lockable(order[j]) \subseteq n.trig
    BY <2>1, <2>5, <2>6
  <2> QED  BY <2>3, <2>6, <2>7 DEF n
<1>7. T = Nat
  <2> HIDE DEF T
  <2>1. T \subseteq Nat
    BY DEF T
  <2> QED  BY <1>5, <1>6, <2>1, NatSetInduction
<1>8. Upto(len, step[len])
  BY <1>2, <1>7
<1>9. ASSUME NEW i \in S PROVE \E j \in 1 .. len : i = order[j]
  BY <1>2 DEF Orders, Range
<1> QED  BY <1>4, <1>8, <1>9

(* zbx_dc_config_lock_triggers_by_history_items *)
LEMMA LockTriggersStep ==
  ASSUME Inv, NEW s \in Syncer, LockTriggers(s)
  PROVE  Inv'
<1>1. /\ TypeInv /\ SyncOf(s) /\ sync[s] \in SyncerState /\ LocksInv
      /\ sync[s].pc = "popped" /\ sync[s].batch \subseteq Item
      /\ UNCHANGED <<queue, config, flush, main, fate>>
  BY DEF Inv, TypeInv, SyncInv, TriggerInv, LockTriggers, SyncerState
<1>2. PICK lock \in {LockItems(order) : order \in Orders(sync[s].batch)} :
          /\ locked' = locked \union lock.trig
          /\ cache' = [i \in DOMAIN cache |->
                         IF i \in lock.busy THEN [cache[i] EXCEPT !.busy = TRUE] ELSE cache[i]]
          /\ sync' = [sync EXCEPT ![s] =
                [Goto(s, IF lock.busy = sync[s].batch THEN "busy" ELSE "locked") EXCEPT
                   !.trig = lock.trig]]
  BY Zenon DEF LockTriggers
<1>21. PICK order \in Orders(sync[s].batch) : lock = LockItems(order)
  OBVIOUS
<1> DEFINE trig == lock.trig
           busy == lock.busy
           pc == IF busy = sync[s].batch THEN "busy" ELSE "locked"
           r == [Goto(s, pc) EXCEPT !.trig = trig]
<1>3. /\ trig \subseteq Trigger /\ trig \cap locked = {} /\ busy \subseteq sync[s].batch
      /\ \A i \in sync[s].batch \ busy : Lockable(i) \subseteq trig
  BY <1>1, <1>21, LockItemsResult DEF LocksFor
<1>4. /\ locked' = locked \union trig
      /\ cache' = [i \in DOMAIN cache |->
                     IF i \in busy THEN [cache[i] EXCEPT !.busy = TRUE] ELSE cache[i]]
      /\ sync' = [sync EXCEPT ![s] = r]
  BY <1>2
<1> HIDE DEF trig, busy
<1>5. r \in SyncerState /\ r.pc = pc /\ r.batch = sync[s].batch /\ r.hist = sync[s].hist
      /\ r.trig = trig /\ r.calc = sync[s].calc
  BY <1>1, <1>3 DEF SyncerState, Goto
<1>6. pc \in {"busy", "locked"} /\ (pc = "busy" => busy = sync[s].batch)
  OBVIOUS
<1> HIDE DEF pc, r
<1>7. /\ sync' \in [Syncer -> SyncerState] /\ sync'[s] = r
      /\ \A t \in Syncer \ {s} : sync'[t] = sync[t]
  BY <1>1, <1>4, <1>5, SyncerUpdate
<1>8. main \notin {"sync", "end"}
  BY <1>1, NotSyncing
<1>9. /\ cache \in Caches /\ DOMAIN cache \subseteq Item
      /\ \A i \in DOMAIN cache : cache[i] \in List
  BY <1>1, CachesType DEF TypeInv
<1>10. /\ DOMAIN cache' = DOMAIN cache /\ cache' = [i \in DOMAIN cache' |-> cache'[i]]
       /\ \A i \in DOMAIN cache :
            /\ cache'[i] \in List /\ cache'[i].data = cache[i].data
            /\ i \in busy => cache'[i].busy
            /\ i \notin busy => cache'[i] = cache[i]
  <2>1. DOMAIN cache' = DOMAIN cache /\ cache' = [i \in DOMAIN cache' |-> cache'[i]]
    BY <1>4
  <2>2. ASSUME NEW i \in DOMAIN cache
        PROVE  /\ cache'[i] \in List /\ cache'[i].data = cache[i].data
               /\ i \in busy => cache'[i].busy
               /\ i \notin busy => cache'[i] = cache[i]
    <3>1. CASE i \in busy
      BY <1>4, <1>9, <3>1 DEF List
    <3>2. CASE i \notin busy
      BY <1>4, <1>9, <3>2
    <3> QED  BY <3>1, <3>2
  <2> QED  BY <2>1, <2>2
<1>11. cache' \in Caches
  BY <1>9, <1>10, CachesType
<1>12. \A i \in Item : Data(i)' = Data(i)
  BY <1>10 DEF Data
<1>13. SyncerFrame(s)
  BY <1>1, <1>3, <1>5, <1>7, <1>8, <1>10, <1>12 DEF SyncerFrame, SyncOf, fate
<1>14. TypeInv'
  BY <1>1, <1>7, <1>11 DEF TypeInv, fate, config
<1>15. OwnInv'
  BY <1>1, <1>5, <1>7, <1>12, SameOwners
<1>16. \A i \in sync[s].batch : i \in Item /\ i \in DOMAIN cache
  BY <1>1, OwnedData DEF Inv
<1>17. SyncOf(s)' /\ ReadOf(s)' /\ ProcessedOf(s)'
  BY <1>1, <1>5, <1>6, <1>7, <1>10, <1>16 DEF SyncOf, ReadOf, ProcessedOf
<1>18. LockedOf(s)'
  <2>1. ASSUME NEW i \in sync[s].batch, ~cache'[i].busy, Data(i)'[1].val
        PROVE  EnabledTriggers(i)' \subseteq trig
    <3>1. i \notin busy /\ cache[i].data[1].val
      BY <1>10, <1>12, <1>16, <2>1 DEF Data
    <3>2. Lockable(i) = EnabledTriggers(i)
      BY <3>1 DEF Lockable
    <3>3. EnabledTriggers(i)' = EnabledTriggers(i)
      BY <1>1 DEF EnabledTriggers, config
    <3> QED  BY <1>3, <3>1, <3>2, <3>3
  <2> QED  BY <1>5, <1>7, <2>1 DEF LockedOf
<1>19. LocksInv'
  <2>1. \A t \in Syncer \ {s} : sync'[t] = sync[t] /\ sync[t].trig \subseteq locked
    BY <1>1, <1>7 DEF LocksInv
  <2>2. /\ sync'[s].trig = trig /\ sync'[s].calc = {}
    BY <1>1, <1>5, <1>7 DEF LocksInv
  <2> QED  BY <1>1, <1>3, <1>4, <2>1, <2>2 DEF LocksInv, config
<1>20. ASSUME NEW i \in sync[s].batch PROVE ItemInv(i)'
  <2>1. i \in Item
    BY <1>16
  <2>2. Again(i)' = Again(i)
    <3>1. \A t \in Syncer : sync'[t].hist = sync[t].hist
                            /\ (sync'[t].pc # sync[t].pc => DOMAIN sync[t].hist = {})
      BY <1>1, <1>5, <1>7 DEF SyncOf
    <3> QED  BY <1>1, <1>8, <3>1 DEF Again
  <2>3. Ascends(written[i])'
    BY <1>1, <1>13, <2>1, DeadKept DEF Inv, ItemInv, Ascends, fate
  <2> QED  BY <1>1, <1>12, <2>1, <2>2, <2>3 DEF Inv, ItemInv, fate
<1> QED  BY <1>8, <1>13, <1>14, <1>15, <1>17, <1>18, <1>19, <1>20, SyncerStepInv

(* zbx_hc_push_items: the lists that come out of a batch *)
LEMMA PushedLists ==
  ASSUME NEW c \in Caches, NEW B \in SUBSET DOMAIN c, \A i \in B : c[i].data # <<>>
  PROVE  /\ Pushed(c, B) \in Caches /\ DOMAIN Pushed(c, B) \subseteq DOMAIN c
         /\ \A i \in DOMAIN c \ B : i \in DOMAIN Pushed(c, B) /\ Pushed(c, B)[i] = c[i]
         /\ \A i \in Item \ B : DataIn(Pushed(c, B), i) = DataIn(c, i) /\ Discarded(c, B)[i] = {}
         /\ \A i \in B : c[i].busy => /\ DataIn(Pushed(c, B), i) = c[i].data
                                      /\ Discarded(c, B)[i] = {}
         /\ \A i \in B : ~c[i].busy =>
              \/ DataIn(Pushed(c, B), i) = Tail(c[i].data) /\ Discarded(c, B)[i] = {}
              \/ /\ DataIn(Pushed(c, B), i) = <<>>
                 /\ Discarded(c, B)[i] = Numbers(Tail(c[i].data))
         /\ \A i \in Item : i \in Removed(c, B) <=> i \in B /\ i \notin DOMAIN Pushed(c, B)
<1> DEFINE p == Pushed(c, B)
           gone1 == Discarded(c, B)
<1>1. DOMAIN c \subseteq Item /\ \A i \in DOMAIN c : c[i] \in List
  BY CachesType
<1>2. /\ DOMAIN p = DOMAIN c \ Removed(c, B) /\ p = [i \in DOMAIN p |-> p[i]]
      /\ \A i \in DOMAIN p : p[i] = IF i \in B THEN PushItem(c[i]) ELSE c[i]
      /\ \A i \in Item : gone1[i] = IF i \in Removed(c, B) THEN Numbers(Tail(c[i].data)) ELSE {}
  BY DEF Pushed, Discarded
<1>3. \A i \in DOMAIN c : i \in Removed(c, B) <=> i \in B /\ ~c[i].busy /\ ~c[i].keep
  BY DEF Removed, Available
<1>4. Removed(c, B) \subseteq B
  BY DEF Removed, Available
<1> HIDE DEF p, gone1
<1>5. ASSUME NEW i \in B
      PROVE  /\ PushItem(c[i]) \in List
             /\ PushItem(c[i]).data = IF c[i].busy THEN c[i].data ELSE Tail(c[i].data)
  <2>1. c[i] \in List /\ c[i].data \in Seq(Records) /\ c[i].data # <<>> /\ c[i].busy \in BOOLEAN
    BY <1>1 DEF List
  <2>2. Tail(c[i].data) \in Seq(Records)
    BY <2>1, HeadTailProperties
  <2>3. CASE c[i].busy
    BY <2>1, <2>3 DEF PushItem, List
  <2>4. CASE ~c[i].busy
    <3> DEFINE rest == Tail(c[i].data)
    <3>1. PushItem(c[i]) = [c[i] EXCEPT !.data = rest]
      BY <2>4 DEF PushItem
    <3>2. rest \in Seq(Records)
      BY <2>2
    <3> HIDE DEF rest
    <3>3. PushItem(c[i]) \in List /\ PushItem(c[i]).data = rest
      BY <2>1, <3>1, <3>2 DEF List
    <3> QED  BY <2>4, <3>3 DEF rest
  <2> QED  BY <2>1, <2>3, <2>4
<1>6. \A i \in DOMAIN p : p[i] \in List
  BY <1>1, <1>2, <1>5
<1>7. p \in Caches /\ DOMAIN p \subseteq DOMAIN c
  BY <1>1, <1>2, <1>6, CachesType
<1>8. \A i \in DOMAIN c \ B : i \in DOMAIN p /\ p[i] = c[i]
  BY <1>2, <1>4
<1>9. ASSUME NEW i \in Item \ B PROVE DataIn(p, i) = DataIn(c, i) /\ gone1[i] = {}
  BY <1>2, <1>4, <1>8 DEF DataIn
<1>10. ASSUME NEW i \in B
       PROVE  /\ c[i].busy => DataIn(p, i) = c[i].data /\ gone1[i] = {}
              /\ ~c[i].busy => \/ DataIn(p, i) = Tail(c[i].data) /\ gone1[i] = {}
                               \/ DataIn(p, i) = <<>> /\ gone1[i] = Numbers(Tail(c[i].data))
  <2>1. i \in Item /\ i \in DOMAIN c
    BY <1>1
  <2>2. CASE i \in Removed(c, B)
    <3>1. ~c[i].busy /\ i \notin DOMAIN p /\ gone1[i] = Numbers(Tail(c[i].data))
      BY <1>2, <1>3, <2>1, <2>2
    <3> QED  BY <3>1 DEF DataIn
  <2>3. CASE i \notin Removed(c, B)
    <3>1. i \in DOMAIN p /\ gone1[i] = {} /\ p[i] = PushItem(c[i])
      BY <1>2, <2>1, <2>3
    <3> QED  BY <1>5, <3>1 DEF DataIn
  <2> QED  BY <2>2, <2>3
<1>11. \A i \in Item : i \in Removed(c, B) <=> i \in B /\ i \notin DOMAIN p
  BY <1>2, <1>4
<1> QED  BY <1>7, <1>8, <1>9, <1>10, <1>11 DEF p, gone1

(* all items of the batch are locked by others: they go back as they are *)
LEMMA PushBusyStep ==
  ASSUME Inv, NEW s \in Syncer, PushBusy(s)
  PROVE  Inv'
<1> DEFINE B == sync[s].batch
           r == [Goto(s, "timers") EXCEPT !.batch = {}]
<1>1. /\ TypeInv /\ SyncOf(s) /\ sync[s] \in SyncerState /\ LocksInv
      /\ sync[s].pc = "busy" /\ B \subseteq Item /\ DOMAIN sync[s].hist = {}
      /\ \A i \in B : cache[i].busy
      /\ UNCHANGED <<locked, config, flush, main, fate>>
      /\ cache' = Pushed(cache, B) /\ sync' = [sync EXCEPT ![s] = r]
      /\ queue' = [i \in Item |->
                    IF i \in (B \ Removed(cache, B)) /\ cache'[i].data # <<>>
                    THEN queue[i] + 1 ELSE queue[i]]
  BY DEF Inv, TypeInv, SyncInv, SyncOf, TriggerInv, PushBusy, Push, SyncerState
<1>2. r \in SyncerState /\ r.pc = "timers" /\ r.batch = {} /\ r.hist = sync[s].hist
      /\ r.trig = sync[s].trig /\ r.calc = sync[s].calc
  BY <1>1 DEF SyncerState, Goto
<1> HIDE DEF r
<1>3. /\ sync' \in [Syncer -> SyncerState] /\ sync'[s] = r
      /\ \A t \in Syncer \ {s} : sync'[t] = sync[t]
  BY <1>1, <1>2, SyncerUpdate
<1>4. main \notin {"sync", "end"}
  BY <1>1, NotSyncing
<1>5. /\ cache \in Caches /\ B \in SUBSET DOMAIN cache /\ B \subseteq Item
      /\ \A i \in B : cache[i].data # <<>> /\ Data(i) = cache[i].data
  BY <1>1, OwnedData DEF Inv, TypeInv
<1> HIDE DEF B
<1>6. /\ cache' \in Caches
      /\ \A i \in DOMAIN cache \ B : i \in DOMAIN cache' /\ cache'[i] = cache[i]
      /\ \A i \in Item \ B : DataIn(cache', i) = DataIn(cache, i)
      /\ \A i \in B : DataIn(cache', i) = cache[i].data
      /\ Removed(cache, B) = {}
  <2>1. Removed(cache, B) = {}
    BY <1>1 DEF Removed, Available
  <2> QED  BY <1>1, <1>5, <2>1, PushedLists
<1>7. \A i \in Item : Data(i)' = Data(i)
  BY <1>5, <1>6 DEF Data, DataIn
<1>8. SyncerFrame(s)
  BY <1>1, <1>2, <1>3, <1>4, <1>6, <1>7 DEF SyncerFrame, fate, B
<1>9. \A i \in B : queue[i] = 0
  BY <1>1, <1>5 DEF Inv, OwnInv, Holds, TypeInv, B
<1>10. \A i \in Item : queue'[i] = IF i \in B THEN 1 ELSE queue[i]
  <2>1. ASSUME NEW i \in B PROVE cache'[i].data # <<>>
    <3>1. DataIn(cache', i) # <<>>
      BY <1>5, <1>6, <2>1
    <3> QED  BY <3>1 DEF DataIn
  <2> QED  BY <1>1, <1>6, <1>9, <2>1
<1>11. TypeInv'
  <2>1. queue' \in [Item -> {0, 1}]
    BY <1>1, <1>10 DEF TypeInv
  <2> QED  BY <1>1, <1>3, <1>6, <2>1 DEF TypeInv, fate, config
<1>12. OwnInv'
  <2>1. \A i \in Item, t \in Syncer : Holds(t, i)' <=> Holds(t, i) /\ t # s
    BY <1>2, <1>3 DEF Holds
  <2>2. \A i \in Item : Holds(s, i) <=> i \in B
    BY DEF Holds, B
  <2>3. \A i \in B : Data(i) # <<>> /\ \A t \in Syncer \ {s} : ~Holds(t, i)
    BY <1>5, <2>2 DEF Inv, OwnInv
  <2> QED  BY <1>7, <1>10, <2>1, <2>2, <2>3 DEF Inv, OwnInv
<1>13. SyncOf(s)' /\ ReadOf(s)' /\ ProcessedOf(s)' /\ LockedOf(s)'
  BY <1>1, <1>2, <1>3 DEF SyncOf, ReadOf, ProcessedOf, LockedOf
<1>14. LocksInv'
  BY <1>1, <1>2, <1>3 DEF LocksInv, config
<1>15. ASSUME NEW i \in B PROVE ItemInv(i)'
  <2>1. Again(i)' = Again(i) /\ i \in Item
    BY <1>1, <1>2, <1>3, <1>4, <1>5 DEF Again
  <2>2. Ascends(written[i])'
    BY <1>1, <1>8, <2>1, DeadKept DEF Inv, ItemInv, Ascends, fate
  <2> QED  BY <1>1, <1>7, <2>1, <2>2 DEF Inv, ItemInv, fate
<1> QED  BY <1>4, <1>8, <1>11, <1>12, <1>13, <1>14, <1>15, SyncerStepInv DEF B

(* zbx_hc_get_item_values and DCmass_prepare_history *)
LEMMA PrepareHistoryStep ==
  ASSUME Inv, NEW s \in Syncer, PrepareHistory(s)
  PROVE  Inv'
<1> DEFINE off == Unwanted(Usable(s))
           c == Cleared(cache, off)
           hist == [i \in Usable(s) |-> [cache[i].data[1] EXCEPT !.undef = i \in off]]
           r == [Goto(s, "prepared") EXCEPT !.hist = hist]
<1>1. /\ TypeInv /\ SyncOf(s) /\ LockedOf(s) /\ sync[s] \in SyncerState /\ LocksInv
      /\ sync[s].pc = "locked" /\ sync[s].batch \subseteq Item /\ DOMAIN sync[s].hist = {}
      /\ UNCHANGED <<queue, locked, config, flush, main, accepted, value, written, meta, drift>>
      /\ cache' = c /\ sync' = [sync EXCEPT ![s] = r]
      /\ gone' = [i \in Item |-> gone[i] \union Cut(cache, c)[i]]
  BY DEF Inv, TypeInv, SyncInv, SyncOf, TriggerInv, PrepareHistory, Account, SyncerState
<1>2. /\ Usable(s) \subseteq sync[s].batch /\ off \subseteq Usable(s)
      /\ \A i \in sync[s].batch : i \in Usable(s) <=> ~cache[i].busy
  BY DEF Usable, Available, Unwanted
<1>3. ASSUME NEW i \in sync[s].batch
      PROVE  /\ i \in Item /\ i \in DOMAIN cache /\ Data(i) = cache[i].data /\ Data(i) # <<>>
             /\ Data(i)[1] \in Records
  <2>1. i \in Item /\ i \in DOMAIN cache /\ Data(i) = cache[i].data /\ Data(i) # <<>>
    BY <1>3, OwnedData DEF Inv
  <2>2. cache[i] \in List
    BY <2>1, CachesType DEF Inv, TypeInv
  <2>3. cache[i].data \in Seq(Records)
    BY <2>2 DEF List
  <2> QED  BY <2>1, <2>3
<1>4. /\ DOMAIN hist = Usable(s)
      /\ \A i \in Usable(s) : hist[i] = [Data(i)[1] EXCEPT !.undef = i \in off]
                              /\ hist[i] \in Records
  <2>1. ASSUME NEW i \in Usable(s)
        PROVE  hist[i] = [Data(i)[1] EXCEPT !.undef = i \in off] /\ hist[i] \in Records
    <3>1. hist[i] = [Data(i)[1] EXCEPT !.undef = i \in off] /\ Data(i)[1] \in Records
      BY <1>2, <1>3, <2>1
    <3> DEFINE x == Data(i)[1]
               u == i \in off
    <3>2. hist[i] = [x EXCEPT !.undef = u] /\ x \in Records /\ u \in BOOLEAN
      BY <3>1
    <3> HIDE DEF hist, x, u
    <3>3. hist[i] \in Records
      BY <3>2 DEF Records
    <3> QED  BY <3>1, <3>3
  <2> QED  BY <2>1
<1>5. hist \in Hists
  <2>1. hist \in [Usable(s) -> Records]
    BY <1>4
  <2>2. Usable(s) \in SUBSET Item
    BY <1>1, <1>2
  <2> QED  BY <2>1, <2>2 DEF Hists
<1> HIDE DEF hist, off, c
<1>6. r \in SyncerState /\ r.pc = "prepared" /\ r.batch = sync[s].batch /\ r.hist = hist
      /\ r.trig = sync[s].trig /\ r.calc = sync[s].calc
  BY <1>1, <1>5 DEF SyncerState, Goto
<1> HIDE DEF r
<1>7. /\ sync' \in [Syncer -> SyncerState] /\ sync'[s] = r
      /\ \A t \in Syncer \ {s} : sync'[t] = sync[t]
  BY <1>1, <1>6, SyncerUpdate
<1>8. main \notin {"sync", "end"}
  BY <1>1, NotSyncing
<1>9. /\ c \in Caches /\ DOMAIN c = DOMAIN cache
      /\ \A i \in DOMAIN cache : c[i].busy = cache[i].busy
      /\ \A i \in DOMAIN cache \ off : c[i] = cache[i]
      /\ \A i \in Item :
           /\ DataIn(c, i) = <<>> <=> Data(i) = <<>>
           /\ Data(i) # <<>> => DataIn(c, i)[1] = Data(i)[1]
           /\ i \notin off => DataIn(c, i) = Data(i) /\ Cut(cache, c)[i] = {}
           /\ Cut(cache, c)[i] \subseteq Nat
           /\ ListInv(i, DataIn(c, i), accepted[i], value[i], written[i],
                      gone[i] \union Cut(cache, c)[i], meta[i], Again(i))
  <2>1. off \in SUBSET Item
    BY <1>1, <1>2
  <2> QED  BY <2>1, ClearedLists DEF c
<1>10. \A i \in Item : /\ Data(i)' = DataIn(c, i)
                       /\ gone'[i] = gone[i] \union Cut(cache, c)[i]
  BY <1>1 DEF Data, DataIn
<1>11. SyncerFrame(s)
  <2>1. DOMAIN sync'[s].hist \subseteq sync[s].batch
    BY <1>2, <1>4, <1>6, <1>7
  <2>2. \A i \in Item \ sync[s].batch :
          /\ Data(i)' = Data(i) /\ gone'[i] = gone[i]
          /\ i \in DOMAIN cache => i \in DOMAIN cache' /\ cache'[i] = cache[i]
    <3> SUFFICES ASSUME NEW i \in Item \ sync[s].batch
                 PROVE  /\ Data(i)' = Data(i) /\ gone'[i] = gone[i]
                        /\ i \in DOMAIN cache => i \in DOMAIN cache' /\ cache'[i] = cache[i]
      OBVIOUS
    <3>1. i \notin off
      BY <1>1, <1>2
    <3>2. Data(i)' = Data(i) /\ gone'[i] = gone[i]
      BY <1>9, <1>10, <3>1
    <3> QED  BY <1>1, <1>9, <3>1, <3>2
  <2> QED  BY <1>1, <1>7, <1>8, <2>1, <2>2 DEF SyncerFrame
<1>12. TypeInv'
  <2>1. gone' \in [Item -> SUBSET Nat]
    BY <1>1, <1>9 DEF TypeInv
  <2> QED  BY <1>1, <1>7, <1>9, <2>1 DEF TypeInv, config
<1>13. OwnInv'
  <2>1. \A i \in Item : Data(i)' = <<>> <=> Data(i) = <<>>
    BY <1>9, <1>10
  <2>2. \A t \in Syncer : sync'[t].batch = sync[t].batch
    BY <1>6, <1>7
  <2> QED  BY <1>1, <2>1, <2>2, SameOwners
<1>14. SyncOf(s)' /\ ProcessedOf(s)'
  <2>1. \A i \in sync[s].batch : cache'[i].busy = cache[i].busy
    BY <1>1, <1>3, <1>9
  <2> QED  BY <1>1, <1>2, <1>4, <1>6, <1>7, <2>1 DEF SyncOf, ProcessedOf
<1>15. ReadOf(s)'
  <2>1. ASSUME NEW i \in Usable(s)
        PROVE  Data(i)' # <<>> /\ [Data(i)'[1] EXCEPT !.undef = hist[i].undef] = hist[i]
    <3>1. /\ i \in sync[s].batch /\ i \in Item /\ Data(i) # <<>> /\ Data(i)[1] \in Records
      BY <1>2, <1>3
    <3>2. Data(i)' # <<>> /\ Data(i)'[1] = Data(i)[1]
      BY <1>9, <1>10, <3>1
    <3>3. hist[i] = [Data(i)[1] EXCEPT !.undef = i \in off]
      BY <1>4
    <3> DEFINE x == Data(i)[1]
    <3>4. [x EXCEPT !.undef = hist[i].undef] = hist[i]
      BY <3>1, <3>3 DEF Records
    <3> QED  BY <3>2, <3>4
  <2> QED  BY <1>4, <1>6, <1>7, <2>1 DEF ReadOf
<1>16. LockedOf(s)'
  <2>1. ASSUME NEW i \in sync[s].batch, ~cache'[i].busy, Data(i)'[1].val
        PROVE  EnabledTriggers(i)' \subseteq sync[s].trig \union toggled
    <3>1. ~cache[i].busy /\ Data(i)[1].val
      <4>1. i \in Item /\ i \in DOMAIN cache /\ Data(i) # <<>>
        BY <1>3
      <4>2. cache'[i].busy = cache[i].busy /\ Data(i)'[1] = Data(i)[1]
        BY <1>1, <1>9, <1>10, <4>1
      <4> QED  BY <2>1, <4>2
    <3>2. EnabledTriggers(i)' = EnabledTriggers(i)
      BY <1>1 DEF EnabledTriggers, config
    <3> QED  BY <1>1, <3>1, <3>2 DEF LockedOf
  <2> QED  BY <1>1, <1>6, <1>7, <2>1 DEF LockedOf, config
<1>17. LocksInv'
  BY <1>1, <1>6, <1>7 DEF LocksInv, config
<1>18. ASSUME NEW i \in sync[s].batch PROVE ItemInv(i)'
  <2>1. Again(i)' = Again(i) /\ i \in Item
    BY <1>1, <1>3, <1>6, <1>7, <1>8 DEF Again
  <2>2. Ascends(written[i])'
    BY <1>1, <1>11, <2>1, DeadKept DEF Inv, ItemInv, Ascends
  <2>3. ListInv(i, DataIn(c, i), accepted[i], value[i], written[i],
                gone[i] \union Cut(cache, c)[i], meta[i], Again(i))
    BY <1>9, <2>1
  <2>4. ListInv(i, Data(i), accepted[i], value[i], written[i], gone[i], meta[i], Again(i))'
    BY <1>1, <1>10, <2>1, <2>3
  <2> QED  BY <2>2, <2>4 DEF ItemInv
<1> QED  BY <1>8, <1>11, <1>12, <1>13, <1>14, <1>15, <1>16, <1>17, <1>18, SyncerStepInv

(* what a syncer has read is the first record of the list *)
LEMMA ReadFields ==
  ASSUME Inv, NEW s \in Syncer, NEW i \in DOMAIN sync[s].hist
  PROVE  /\ i \in Item /\ i \in sync[s].batch /\ Data(i) \in Seq(Records) /\ Data(i) # <<>>
         /\ i \in DOMAIN cache /\ Data(i) = cache[i].data
         /\ sync[s].hist[i].n = Data(i)[1].n /\ sync[s].hist[i].val = Data(i)[1].val
         /\ sync[s].hist[i].meta = Data(i)[1].meta
<1>1. i \in sync[s].batch
  BY DEF Inv, SyncInv, SyncOf
<1>2. i \in Item /\ i \in DOMAIN cache /\ Data(i) = cache[i].data /\ Data(i) # <<>>
  BY <1>1, OwnedData DEF Inv
<1>3. cache[i] \in List
  BY <1>2, CachesType DEF Inv, TypeInv
<1>4. Data(i) \in Seq(Records)
  BY <1>2, <1>3 DEF List
<1> DEFINE x == Data(i)[1]
<1>5. x \in Records /\ [x EXCEPT !.undef = sync[s].hist[i].undef] = sync[s].hist[i]
  BY <1>2, <1>4 DEF Inv, ReadStable
<1> HIDE DEF x
<1>6. sync[s].hist[i].n = x.n /\ sync[s].hist[i].val = x.val /\ sync[s].hist[i].meta = x.meta
  BY <1>5 DEF Records
<1> QED  BY <1>1, <1>2, <1>4, <1>6 DEF x

(* the items of a syncer whose records are written or refused *)
LEMMA WrittenItem ==
  ASSUME Inv, NEW s \in Syncer, sync[s].pc = "prepared", NEW i \in DOMAIN sync[s].hist,
         NEW ok \in BOOLEAN, NEW g \in SUBSET Nat, gone[i] \subseteq g,
         ~ok => Data(i)[1].n \in g
  PROVE  /\ WrittenWith(written[i], Data(i), ok) \in Seq(Nat)
         /\ MetaWith(meta[i], Data(i), ok) \in Nat
         /\ Ascends(WrittenWith(written[i], Data(i), ok))
         /\ Done(i, Data(i), accepted[i], value[i], WrittenWith(written[i], Data(i), ok), g,
                 MetaWith(meta[i], Data(i), ok))
         /\ ListInv(i, Data(i), accepted[i], value[i], WrittenWith(written[i], Data(i), ok), g,
                    MetaWith(meta[i], Data(i), ok), TRUE)
<1>1. i \in Item /\ i \in sync[s].batch /\ Data(i) \in Seq(Records) /\ Data(i) # <<>>
  BY ReadFields
<1>2. ~Again(i)
  <2>1. main \notin {"sync", "end"}
    BY NotSyncing
  <2>2. \A t \in Syncer : i \in DOMAIN sync[t].hist => t = s
    <3>1. \A t \in Syncer : i \in DOMAIN sync[t].hist => i \in sync[t].batch
      BY DEF Inv, SyncInv, SyncOf
    <3> QED  BY <1>1, <3>1 DEF Inv, OwnInv, Holds
  <2> QED  BY <2>1, <2>2 DEF Again
<1>3. /\ accepted[i] \in Nat /\ value[i] \in SUBSET Nat /\ written[i] \in Seq(Nat)
      /\ gone[i] \in SUBSET Nat /\ meta[i] \in Nat
  BY <1>1 DEF Inv, TypeInv
<1>4. ListInv(i, Data(i), accepted[i], value[i], written[i], gone[i], meta[i], FALSE)
  <2>1. ListInv(i, Data(i), accepted[i], value[i], written[i], gone[i], meta[i], Again(i))
    BY <1>1 DEF Inv, ItemInv
  <2>2. Again(i) \in BOOLEAN /\ (Again(i) => FALSE)
    BY <1>2 DEF Again
  <2> QED  BY <2>1, <2>2, WeakerAgain
<1>5. Ascends(written[i])
  BY <1>1 DEF Inv, ItemInv
<1> DEFINE d == Data(i)
           a == accepted[i]
           v == value[i]
           w == written[i]
           h == gone[i]
           m == meta[i]
<1>6. /\ d \in Seq(Records) /\ d # <<>> /\ a \in Nat /\ v \in SUBSET Nat /\ w \in Seq(Nat)
      /\ h \in SUBSET Nat /\ m \in Nat /\ ListInv(i, d, a, v, w, h, m, FALSE) /\ Ascends(w)
      /\ h \subseteq g /\ (~ok => d[1].n \in g) /\ (FALSE => Dead # {}) /\ FALSE \in BOOLEAN
  BY <1>1, <1>3, <1>4, <1>5
<1> HIDE DEF d, a, v, w, h, m
<1>7. /\ WrittenWith(w, d, ok) \in Seq(Nat) /\ Ascends(WrittenWith(w, d, ok))
      /\ MetaWith(m, d, ok) \in Nat
      /\ Done(i, d, a, v, WrittenWith(w, d, ok), g, MetaWith(m, d, ok))
      /\ ListInv(i, d, a, v, WrittenWith(w, d, ok), g, MetaWith(m, d, ok), TRUE)
  BY <1>6, WriteItem
<1> QED  BY <1>7 DEF d, a, v, w, h, m

(* a syncer has written the records that are ok; the others are gone *)
LEMMA WrittenStep ==
  ASSUME Inv, NEW s \in Syncer, sync[s].pc = "prepared", NEW pc \in {"timers", "unlock"},
         sync' = [sync EXCEPT ![s] = Goto(s, pc)],
         UNCHANGED <<shared, locked, config, flush, main, accepted, value, drift>>,
         written' \in [Item -> Seq(Nat)], meta' \in [Item -> Nat], gone' \in [Item -> SUBSET Nat],
         NEW ok \in [Item -> BOOLEAN],
         \A i \in Item :
           IF i \in DOMAIN sync[s].hist
           THEN /\ written'[i] = WrittenWith(written[i], Data(i), ok[i])
                /\ meta'[i] = MetaWith(meta[i], Data(i), ok[i])
                /\ gone[i] \subseteq gone'[i] /\ (~ok[i] => Data(i)[1].n \in gone'[i])
           ELSE /\ written'[i] = written[i] /\ meta'[i] = meta[i] /\ gone'[i] = gone[i]
  PROVE  Inv'
<1> DEFINE r == Goto(s, pc)
           hist == sync[s].hist
<1>1. /\ TypeInv /\ SyncOf(s) /\ ReadOf(s) /\ LockedOf(s) /\ sync[s] \in SyncerState /\ LocksInv
      /\ sync[s].batch \subseteq Item /\ DOMAIN hist \subseteq sync[s].batch
      /\ UNCHANGED <<cache, queue, locked, config, flush, main, accepted, value, drift>>
  BY DEF Inv, TypeInv, SyncInv, SyncOf, TriggerInv, ReadStable, ReadOf, SyncerState, shared
<1>2. r \in SyncerState /\ r.pc = pc /\ r.batch = sync[s].batch /\ r.hist = hist
      /\ r.trig = sync[s].trig /\ r.calc = sync[s].calc
  BY <1>1 DEF SyncerState, Goto
<1> HIDE DEF r
<1>3. /\ sync' \in [Syncer -> SyncerState] /\ sync'[s] = r
      /\ \A t \in Syncer \ {s} : sync'[t] = sync[t]
  BY <1>1, <1>2, SyncerUpdate DEF r
<1>4. main \notin {"sync", "end"}
  BY NotSyncing
<1>5. \A i \in Item : Data(i)' = Data(i)
  BY <1>1 DEF Data
<1>6. SyncerFrame(s)
  BY <1>1, <1>2, <1>3, <1>4, <1>5 DEF SyncerFrame
<1>7. TypeInv'
  BY <1>1, <1>3 DEF TypeInv, config
<1>8. OwnInv'
  BY <1>1, <1>2, <1>3, <1>5, SameOwners
<1>9. SyncOf(s)'
  BY <1>1, <1>2, <1>3 DEF SyncOf
<1>10. ReadOf(s)'
  <2>1. \A i \in DOMAIN hist : i \in Item
    BY <1>1
  <2> QED  BY <1>1, <1>2, <1>3, <1>5, <2>1 DEF ReadOf
<1>11. \A i \in Item : EnabledTriggers(i)' = EnabledTriggers(i)
  BY <1>1 DEF EnabledTriggers, config
<1>12. LockedOf(s)'
  <2>1. \A i \in sync[s].batch : i \in Item
    BY <1>1
  <2> QED  BY <1>1, <1>2, <1>3, <1>5, <1>11, <2>1 DEF LockedOf, config
<1>13. LocksInv'
  BY <1>1, <1>2, <1>3 DEF LocksInv, config
<1>14. ASSUME NEW i \in DOMAIN hist
       PROVE  /\ i \in Item
              /\ Ascends(written'[i])
              /\ Done(i, Data(i), accepted[i], value[i], written'[i], gone'[i], meta'[i])
              /\ ListInv(i, Data(i), accepted[i], value[i], written'[i], gone'[i], meta'[i], TRUE)
  <2>1. i \in Item
    BY <1>1
  <2> DEFINE g == gone'[i]
             o == ok[i]
  <2>2. g \in SUBSET Nat /\ o \in BOOLEAN /\ gone[i] \subseteq g /\ (~o => Data(i)[1].n \in g)
    BY <2>1
  <2>3. /\ written'[i] = WrittenWith(written[i], Data(i), o)
        /\ meta'[i] = MetaWith(meta[i], Data(i), o)
    BY <2>1
  <2> HIDE DEF g, o
  <2>4. /\ Ascends(WrittenWith(written[i], Data(i), o))
        /\ Done(i, Data(i), accepted[i], value[i], WrittenWith(written[i], Data(i), o), g,
                MetaWith(meta[i], Data(i), o))
        /\ ListInv(i, Data(i), accepted[i], value[i], WrittenWith(written[i], Data(i), o), g,
                   MetaWith(meta[i], Data(i), o), TRUE)
    BY <2>2, WrittenItem
  <2> QED  BY <2>1, <2>3, <2>4 DEF g
<1>15. ProcessedOf(s)'
  <2>1. ASSUME NEW i \in DOMAIN hist
        PROVE  /\ hist[i].n \in value[i] => hist[i].n \in Range(written'[i]) \union gone'[i]
               /\ i \in LogItem /\ gone'[i] = {} => meta'[i] = hist[i].meta
    <3>1. hist[i].n = Data(i)[1].n /\ hist[i].meta = Data(i)[1].meta
      BY ReadFields
    <3> QED  BY <1>14, <3>1 DEF Done
  <2>2. sync'[s].hist = hist /\ value' = value
    BY <1>1, <1>2, <1>3
  <2> HIDE DEF hist
  <2> QED  BY <2>1, <2>2 DEF ProcessedOf
<1>16. Dead \subseteq Dead'
  BY <1>6, DeadKept
<1>17. ASSUME NEW i \in sync[s].batch PROVE ItemInv(i)'
  <2>1. i \in Item
    BY <1>1
  <2>2. CASE i \in DOMAIN hist
    <3>1. Again(i)' = TRUE
      BY <1>2, <1>3, <2>2 DEF Again
    <3>2. Ascends(written[i])'
      BY <1>14, <1>16, <2>2, ZenonT(40) DEF Ascends
    <3>3. ListInv(i, Data(i), accepted[i], value[i], written[i], gone[i], meta[i], Again(i))'
      BY <1>1, <1>5, <1>14, <2>1, <2>2, <3>1
    <3> QED  BY <3>2, <3>3 DEF ItemInv
  <2>3. CASE i \notin DOMAIN hist
    <3>1. written'[i] = written[i] /\ meta'[i] = meta[i] /\ gone'[i] = gone[i]
      BY <2>1, <2>3
    <3>2. Again(i)' = Again(i)
      <4>1. \A t \in Syncer : sync'[t].hist = sync[t].hist
                              /\ (i \in DOMAIN sync[t].hist => sync'[t].pc = sync[t].pc)
        BY <1>2, <1>3, <2>3
      <4> QED  BY <1>1, <1>4, <4>1 DEF Again
    <3>3. Ascends(written[i])'
      BY <1>16, <2>1, <3>1 DEF Inv, ItemInv, Ascends
    <3>4. ListInv(i, Data(i), accepted[i], value[i], written[i], gone[i], meta[i], Again(i))'
      BY <1>1, <1>5, <2>1, <3>1, <3>2 DEF Inv, ItemInv
    <3> QED  BY <3>3, <3>4 DEF ItemInv
  <2> QED  BY <2>2, <2>3
<1> QED  BY <1>4, <1>6, <1>7, <1>8, <1>9, <1>10, <1>12, <1>13, <1>15, <1>17, SyncerStepInv

(* the values are written, or the database refuses them *)
LEMMA WriteHistorySteps ==
  ASSUME Inv, NEW s \in Syncer, WriteHistory(s) \/ WriteFails(s)
  PROVE  Inv'
<1> DEFINE hist == sync[s].hist
<1>1. /\ TypeInv /\ DOMAIN hist \subseteq Item
      /\ \A i \in DOMAIN hist : /\ hist[i].n = Data(i)[1].n /\ hist[i].val = Data(i)[1].val
                                /\ hist[i].meta = Data(i)[1].meta /\ hist[i] \in Records
  <2>1. hist \in Hists
    BY DEF Inv, TypeInv, SyncerState
  <2>2. \A i \in DOMAIN hist : hist[i] \in Records
    BY <2>1 DEF Hists
  <2> QED  BY <2>2, ReadFields DEF Inv
<1>2. \A i \in DOMAIN hist : hist[i].n \in Nat /\ hist[i].meta \in Nat
  BY <1>1, RecordFields
<1>3. CASE WriteHistory(s)
  <2> DEFINE oks == {i \in DOMAIN hist : ~hist[i].undef}
             ok == [i \in Item |-> i \in oks]
  <2>1. /\ sync[s].pc = "prepared" /\ sync' = [sync EXCEPT ![s] = Goto(s, "timers")]
        /\ UNCHANGED <<shared, locked, config, flush, main, accepted, value, drift>>
        /\ gone' = [i \in Item |-> gone[i] \union Undef(hist)[i]]
        /\ written' = [i \in Item |-> IF i \in oks /\ hist[i].val
                                      THEN Append(written[i], hist[i].n) ELSE written[i]]
        /\ meta' = [i \in Item |-> IF i \in oks /\ hist[i].meta # 0 THEN hist[i].meta ELSE meta[i]]
    BY <1>3 DEF WriteHistory, Account, AddHistory
  <2>2. ASSUME NEW i \in Item
        PROVE  /\ Undef(hist)[i] \subseteq Nat
               /\ i \in DOMAIN hist /\ i \notin oks => hist[i].n \in Undef(hist)[i]
               /\ i \notin DOMAIN hist => Undef(hist)[i] = {}
    BY <1>2 DEF Undef
  <2>3. gone' \in [Item -> SUBSET Nat]
    BY <1>1, <2>1, <2>2 DEF TypeInv
  <2>4. written' \in [Item -> Seq(Nat)] /\ meta' \in [Item -> Nat]
    <3>1. \A i \in Item : written[i] \in Seq(Nat) /\ meta[i] \in Nat
      BY <1>1 DEF TypeInv
    <3>2. \A i \in Item : written'[i] \in Seq(Nat) /\ meta'[i] \in Nat
      BY <1>2, <2>1, <3>1
    <3> QED  BY <2>1, <3>2
  <2>5. ok \in [Item -> BOOLEAN]
    OBVIOUS
  <2>6. ASSUME NEW i \in Item
        PROVE  IF i \in DOMAIN hist
               THEN /\ written'[i] = WrittenWith(written[i], Data(i), ok[i])
                    /\ meta'[i] = MetaWith(meta[i], Data(i), ok[i])
                    /\ gone[i] \subseteq gone'[i] /\ (~ok[i] => Data(i)[1].n \in gone'[i])
               ELSE /\ written'[i] = written[i] /\ meta'[i] = meta[i] /\ gone'[i] = gone[i]
    <3>1. CASE i \in DOMAIN hist
      <4>1. written'[i] = WrittenWith(written[i], Data(i), ok[i])
        BY <1>1, <2>1, <3>1 DEF WrittenWith
      <4>2. meta'[i] = MetaWith(meta[i], Data(i), ok[i])
        BY <1>1, <2>1, <3>1 DEF MetaWith
      <4>3. gone[i] \subseteq gone'[i] /\ (~ok[i] => Data(i)[1].n \in gone'[i])
        BY <1>1, <2>1, <2>2, <3>1
      <4> QED  BY <3>1, <4>1, <4>2, <4>3
    <3>2. CASE i \notin DOMAIN hist
      <4>1. gone'[i] = gone[i]
        BY <2>1, <2>2, <3>2
      <4> QED  BY <2>1, <3>2, <4>1
    <3> QED  BY <3>1, <3>2
  <2> HIDE DEF ok, oks
  <2> QED  BY <2>1, <2>3, <2>4, <2>5, <2>6, WrittenStep
<1>4. CASE WriteFails(s)
  <2> DEFINE ok == [i \in Item |-> FALSE]
  <2>1. /\ sync[s].pc = "prepared" /\ sync' = [sync EXCEPT ![s] = Goto(s, "unlock")]
        /\ UNCHANGED <<shared, locked, config, flush, main, accepted, value, drift,
                       written, meta>>
        /\ gone' = [i \in Item |-> gone[i] \union All(hist)[i]]
    BY <1>4 DEF WriteFails, Account
  <2>2. ASSUME NEW i \in Item
        PROVE  /\ All(hist)[i] \subseteq Nat
               /\ i \in DOMAIN hist => hist[i].n \in All(hist)[i]
               /\ i \notin DOMAIN hist => All(hist)[i] = {}
    BY <1>2 DEF All
  <2>3. gone' \in [Item -> SUBSET Nat]
    BY <1>1, <2>1, <2>2 DEF TypeInv
  <2>4. written' \in [Item -> Seq(Nat)] /\ meta' \in [Item -> Nat]
    BY <1>1, <2>1 DEF TypeInv
  <2>5. ok \in [Item -> BOOLEAN]
    OBVIOUS
  <2>6. ASSUME NEW i \in Item
        PROVE  IF i \in DOMAIN hist
               THEN /\ written'[i] = WrittenWith(written[i], Data(i), ok[i])
                    /\ meta'[i] = MetaWith(meta[i], Data(i), ok[i])
                    /\ gone[i] \subseteq gone'[i] /\ (~ok[i] => Data(i)[1].n \in gone'[i])
               ELSE /\ written'[i] = written[i] /\ meta'[i] = meta[i] /\ gone'[i] = gone[i]
    <3>1. /\ written'[i] = WrittenWith(written[i], Data(i), ok[i])
          /\ meta'[i] = MetaWith(meta[i], Data(i), ok[i])
      BY <2>1 DEF WrittenWith, MetaWith
    <3>2. i \notin DOMAIN hist => gone'[i] = gone[i]
      BY <2>1, <2>2
    <3> QED  BY <1>1, <2>1, <2>2, <3>1, <3>2
  <2> HIDE DEF ok
  <2> QED  BY <2>1, <2>3, <2>4, <2>5, <2>6, WrittenStep
<1> QED  BY <1>3, <1>4

(* zbx_dc_get_trigger_timers *)
LEMMA GetTimersStep ==
  ASSUME Inv, NEW s \in Syncer, GetTimers(s)
  PROVE  Inv'
<1> DEFINE hist == sync[s].hist
           read == UNION {EnabledTriggers(i) : i \in {j \in DOMAIN hist : hist[j].val}}
<1>1. /\ TypeInv /\ SyncOf(s) /\ ReadOf(s) /\ ProcessedOf(s) /\ LockedOf(s)
      /\ sync[s] \in SyncerState /\ LocksInv
      /\ sync[s].pc = "timers" /\ sync[s].batch \subseteq Item
      /\ UNCHANGED <<cache, queue, config, flush, main, fate>>
  BY DEF Inv, TypeInv, SyncInv, ProcessedInv, TriggerInv, ReadStable, ReadOf, SyncerState,
         GetTimers, shared
<1>2. PICK due \in SUBSET IF main = "shutdown" THEN {} ELSE (Timer \cap enabled) \ locked :
        /\ locked' = locked \union due
        /\ sync' = [sync EXCEPT ![s] = [Goto(s, "unlock") EXCEPT !.trig = @ \union due,
                                                                  !.calc = due \union read]]
  BY DEF GetTimers
<1>3. due \subseteq Trigger /\ due \cap locked = {}
  BY HistoryCacheAssumption, <1>2
<1>4. read \subseteq sync[s].trig \union toggled
  <2>1. ASSUME NEW i \in DOMAIN hist, hist[i].val
        PROVE  EnabledTriggers(i) \subseteq sync[s].trig \union toggled
    <3>1. i \in sync[s].batch /\ Data(i)[1].val
      BY <2>1, ReadFields
    <3>2. ~cache[i].busy
      BY <1>1, <2>1, <3>1 DEF SyncOf
    <3> QED  BY <1>1, <3>1, <3>2 DEF LockedOf
  <2> QED  BY <2>1
<1>5. read \subseteq Trigger
  <2>1. \A i \in DOMAIN hist : i \in Item
    BY ReadFields
  <2>2. \A i \in Item : EnabledTriggers(i) \subseteq Trigger
    BY HistoryCacheAssumption DEF EnabledTriggers
  <2> QED  BY <2>1, <2>2
<1> HIDE DEF read, hist
<1> DEFINE trig == sync[s].trig \union due
           calc == due \union read
           r == [Goto(s, "unlock") EXCEPT !.trig = trig, !.calc = calc]
<1>6. trig \in SUBSET Trigger /\ calc \in SUBSET Trigger
  BY <1>1, <1>3, <1>5 DEF SyncerState
<1>7. sync' = [sync EXCEPT ![s] = r]
  <2>1. Goto(s, "unlock").trig = sync[s].trig
    BY <1>1 DEF Goto, SyncerState
  <2> QED  BY <1>2, <2>1
<1>8. locked' = locked \union due /\ calc \subseteq trig \union toggled /\ due \subseteq trig
      /\ trig \subseteq locked \union due /\ trig \subseteq sync[s].trig \union due
  BY <1>1, <1>2, <1>4 DEF LocksInv
<1> HIDE DEF trig, calc
<1>9. r \in SyncerState /\ r.pc = "unlock" /\ r.batch = sync[s].batch /\ r.hist = sync[s].hist
      /\ r.trig = trig /\ r.calc = calc
  BY <1>1, <1>6 DEF SyncerState, Goto
<1> HIDE DEF r
<1>10. /\ sync' \in [Syncer -> SyncerState] /\ sync'[s] = r
       /\ \A t \in Syncer \ {s} : sync'[t] = sync[t]
  BY <1>1, <1>7, <1>9, SyncerUpdate
<1>11. main \notin {"sync", "end"}
  BY <1>1, NotSyncing
<1>12. \A i \in Item : Data(i)' = Data(i)
  BY <1>1 DEF Data
<1>13. SyncerFrame(s)
  BY <1>1, <1>9, <1>10, <1>11, <1>12 DEF SyncerFrame, SyncOf, fate
<1>14. TypeInv'
  BY <1>1, <1>10 DEF TypeInv, fate, config
<1>15. OwnInv'
  BY <1>1, <1>9, <1>10, <1>12, SameOwners
<1>16. SyncOf(s)' /\ ProcessedOf(s)' /\ LockedOf(s)'
  BY <1>1, <1>9, <1>10 DEF SyncOf, ProcessedOf, LockedOf, fate
<1>17. ReadOf(s)'
  <2>1. \A i \in DOMAIN sync[s].hist : i \in Item
    BY ReadFields
  <2> QED  BY <1>1, <1>9, <1>10, <1>12, <2>1 DEF ReadOf
<1>18. LocksInv'
  <2>1. \A t \in Syncer \ {s} : /\ sync'[t] = sync[t] /\ sync[t].trig \subseteq locked
                                /\ sync[t].trig \cap sync[s].trig = {}
    BY <1>1, <1>10 DEF LocksInv
  <2>2. sync'[s].trig = trig /\ sync'[s].calc = calc /\ sync'[s].pc = "unlock"
    BY <1>9, <1>10
  <2>3. \A t \in Syncer \ {s} : sync[t].trig \cap trig = {}
    BY <1>3, <1>8, <2>1
  <2> QED  BY <1>1, <1>8, <2>1, <2>2, <2>3 DEF LocksInv, config
<1>19. ASSUME NEW i \in sync[s].batch PROVE ItemInv(i)'
  <2>1. i \in Item
    BY <1>1
  <2>2. Again(i)' = Again(i)
    BY <1>1, <1>9, <1>10, <1>11 DEF Again
  <2>3. Ascends(written[i])'
    BY <1>1, <1>13, <2>1, DeadKept DEF Inv, ItemInv, Ascends, fate
  <2> QED  BY <1>1, <1>12, <2>1, <2>2, <2>3 DEF Inv, ItemInv, fate
<1> QED  BY <1>11, <1>13, <1>14, <1>15, <1>16, <1>17, <1>18, <1>19, SyncerStepInv

(* a round that ends leaves the syncer with nothing *)
LEMMA RoundResult ==
  ASSUME NEW r \in SyncerState, NEW more \in BOOLEAN
  PROVE  /\ Round(r, more) \in SyncerState /\ Round(r, more).pc \in {"idle", "ended"}
         /\ Round(r, more).batch = {} /\ Round(r, more).trig = {} /\ Round(r, more).calc = {}
         /\ DOMAIN Round(r, more).hist = {}
<1>1. <<>> \in Hists /\ DOMAIN <<>> = {}
  <2>1. DOMAIN <<>> = {} /\ <<>> = [i \in {} |-> i]
    OBVIOUS
  <2>2. <<>> \in [{} -> Records]
    BY <2>1
  <2>3. {} \in SUBSET Item
    OBVIOUS
  <2> QED  BY <2>1, <2>2, <2>3 DEF Hists
<1> DEFINE pc == IF ~more /\ r.last THEN "ended" ELSE "idle"
           last == r.last \/ (~more /\ main = "shutdown")
           none == <<>>
<1>2. pc \in {"ended", "idle"} /\ last \in BOOLEAN /\ none \in Hists /\ DOMAIN none = {}
  BY <1>1 DEF SyncerState
<1>3. Round(r, more) = [r EXCEPT !.pc = pc, !.last = last, !.batch = {}, !.hist = none,
                                 !.trig = {}, !.calc = {}]
  BY DEF Round, SyncerState
<1> HIDE DEF pc, last, none
<1>4. /\ Round(r, more) \in SyncerState /\ Round(r, more).pc = pc /\ Round(r, more).hist = none
      /\ Round(r, more).batch = {} /\ Round(r, more).trig = {} /\ Round(r, more).calc = {}
  BY <1>2, <1>3 DEF SyncerState
<1> QED  BY <1>2, <1>4

(* zbx_dc_config_unlock_triggers *)
LEMMA UnlockTriggersStep ==
  ASSUME Inv, NEW s \in Syncer, UnlockTriggers(s)
  PROVE  Inv'
<1> DEFINE r == IF sync[s].batch = {} THEN Round(sync[s], FALSE)
                ELSE [Goto(s, "push") EXCEPT !.trig = {}, !.calc = {}]
<1>1. /\ TypeInv /\ SyncOf(s) /\ ReadOf(s) /\ ProcessedOf(s)
      /\ sync[s] \in SyncerState /\ LocksInv
      /\ sync[s].pc = "unlock" /\ sync[s].batch \subseteq Item
      /\ DOMAIN sync[s].hist \subseteq sync[s].batch
      /\ UNCHANGED <<cache, queue, config, flush, main, fate>>
      /\ locked' = locked \ sync[s].trig /\ sync' = [sync EXCEPT ![s] = r]
  BY DEF Inv, TypeInv, SyncInv, SyncOf, ProcessedInv, TriggerInv, ReadStable, ReadOf, SyncerState,
         UnlockTriggers, shared
<1>2. /\ r \in SyncerState /\ r.batch = sync[s].batch /\ r.trig = {} /\ r.calc = {}
      /\ r.pc \in {"idle", "ended", "push"}
      /\ IF sync[s].batch = {} THEN DOMAIN r.hist = {}
                               ELSE r.hist = sync[s].hist /\ r.pc = "push"
  <2>1. CASE sync[s].batch = {}
    <3>1. r = Round(sync[s], FALSE)
      BY <2>1
    <3> HIDE DEF r
    <3> QED  BY <1>1, <2>1, <3>1, RoundResult
  <2>2. CASE sync[s].batch # {}
    BY <1>1, <2>2 DEF SyncerState, Goto
  <2> QED  BY <2>1, <2>2
<1>3. DOMAIN r.hist = DOMAIN sync[s].hist
      /\ \A i \in DOMAIN r.hist : r.hist = sync[s].hist /\ r.pc = "push"
  BY <1>1, <1>2
<1> HIDE DEF r
<1>4. /\ sync' \in [Syncer -> SyncerState] /\ sync'[s] = r
      /\ \A t \in Syncer \ {s} : sync'[t] = sync[t]
  BY <1>1, <1>2, SyncerUpdate
<1>5. main \notin {"sync", "end"}
  BY <1>1, NotSyncing
<1>6. \A i \in Item : Data(i)' = Data(i)
  BY <1>1 DEF Data
<1>7. SyncerFrame(s)
  BY <1>1, <1>3, <1>4, <1>5, <1>6 DEF SyncerFrame, fate
<1>8. TypeInv'
  BY <1>1, <1>4 DEF TypeInv, fate, config
<1>9. OwnInv'
  BY <1>1, <1>2, <1>4, <1>6, SameOwners
<1>10. SyncOf(s)'
  BY <1>1, <1>2, <1>3, <1>4 DEF SyncOf
<1>11. ReadOf(s)' /\ ProcessedOf(s)'
  <2>1. \A i \in DOMAIN sync[s].hist : i \in Item
    BY <1>1
  <2> QED  BY <1>1, <1>3, <1>4, <1>6, <2>1 DEF ReadOf, ProcessedOf, fate
<1>12. LockedOf(s)'
  BY <1>2, <1>4 DEF LockedOf
<1>13. LocksInv'
  BY <1>1, <1>2, <1>4 DEF LocksInv, config
<1>14. ASSUME NEW i \in sync[s].batch PROVE ItemInv(i)'
  <2>1. i \in Item
    BY <1>1
  <2>2. Again(i)' = Again(i)
    BY <1>1, <1>3, <1>4, <1>5 DEF Again
  <2>3. Ascends(written[i])'
    BY <1>1, <1>7, <2>1, DeadKept DEF Inv, ItemInv, Ascends, fate
  <2> QED  BY <1>1, <1>6, <2>1, <2>2, <2>3 DEF Inv, ItemInv, fate
<1> QED  BY <1>5, <1>7, <1>8, <1>9, <1>10, <1>11, <1>12, <1>13, <1>14, SyncerStepInv

(* a record that has been processed leaves the list, or the list the cache *)
GoneAnd(g, x) == g \union x
\* The rest of the list knows that its first record is gone or written.
LEMMA PushedItem ==
  ASSUME NEW c \in Caches, NEW B \in SUBSET DOMAIN c, \A i \in B : c[i].data # <<>>,
         NEW i \in B, ~c[i].busy, NEW a \in Nat, NEW v \in SUBSET Nat, NEW w \in Seq(Nat),
         NEW g \in SUBSET Nat, NEW m \in Nat, NEW again \in BOOLEAN,
         Done(i, c[i].data, a, v, w, g, m)
  PROVE  /\ ListInv(i, DataIn(Pushed(c, B), i), a, v, w, GoneAnd(g, Discarded(c, B)[i]), m, again)
         /\ Discarded(c, B)[i] \subseteq Nat
<1> DEFINE d == c[i].data
           p == DataIn(Pushed(c, B), i)
           x == Discarded(c, B)[i]
<1>1. d \in Seq(Records) /\ d # <<>>
  <2>1. c[i] \in List
    BY CachesType
  <2> QED  BY <2>1 DEF List
<1>2. \/ p = Tail(d) /\ x = {}
      \/ p = <<>> /\ x = Numbers(Tail(d))
  BY PushedLists
<1>3. Done(i, d, a, v, w, g, m)
  OBVIOUS
<1> HIDE DEF d, p, x
<1>4. CASE p = Tail(d) /\ x = {}
  <2>1. GoneAnd(g, x) = g
    BY <1>4 DEF GoneAnd
  <2>2. ListInv(i, Tail(d), a, v, w, g, m, again)
    BY <1>1, <1>3, PopItem
  <2> QED  BY <1>4, <2>1, <2>2 DEF p, x
<1>5. CASE p = <<>> /\ x = Numbers(Tail(d))
  <2>1. ListInv(i, <<>>, a, v, w, g \union Numbers(Tail(d)), m, again)
    BY <1>1, <1>3, DropItem
  <2>2. GoneAnd(g, x) = g \union Numbers(Tail(d))
    BY <1>5 DEF GoneAnd
  <2>3. Tail(d) \in Seq(Records)
    BY <1>1, HeadTailProperties
  <2>4. x \subseteq Nat
    <3> DEFINE e == Tail(d)
    <3>1. e \in Seq(Records)
      BY <2>3
    <3> HIDE DEF e
    <3>2. \A k \in DOMAIN e : e[k] \in Records
      BY <3>1
    <3>3. Numbers(e) \subseteq Nat
      BY <3>2, RecordFields DEF Numbers
    <3> QED  BY <1>5, <3>3 DEF e
  <2>5. ListInv(i, p, a, v, w, GoneAnd(g, x), m, again)
    BY <1>5, <2>1, <2>2, Zenon
  <2> QED  BY <2>4, <2>5 DEF p, x
<1> QED  BY <1>2, <1>4, <1>5

(* zbx_hc_push_items after the records have been processed *)
LEMMA PushItemsStep ==
  ASSUME Inv, NEW s \in Syncer, PushItems(s)
  PROVE  Inv'
<1> DEFINE B == sync[s].batch
           c == Pushed(cache, B)
           x == Discarded(cache, B)
           more == /\ \E i \in Item : queue'[i] > 0
                   /\ (100 * Cardinality(Usable(s))) \div Cardinality(sync[s].batch) >= 10
           r == Round(sync[s], more)
<1>1. /\ TypeInv /\ SyncOf(s) /\ ReadOf(s) /\ ProcessedOf(s)
      /\ sync[s] \in SyncerState /\ LocksInv
      /\ sync[s].pc = "push" /\ B \subseteq Item
      /\ DOMAIN sync[s].hist \subseteq B
  BY DEF Inv, TypeInv, SyncInv, SyncOf, ProcessedInv, TriggerInv, ReadStable, ReadOf, SyncerState,
         PushItems
<1>2. /\ UNCHANGED <<locked, config, flush, main, accepted, value, written, meta, drift>>
      /\ cache' = c /\ gone' = [i \in Item |-> gone[i] \union x[i]]
      /\ queue' = [i \in Item |->
                    IF i \in (B \ Removed(cache, B)) /\ cache'[i].data # <<>>
                    THEN queue[i] + 1 ELSE queue[i]]
  BY DEF PushItems, Push, Account
<1>3. sync' = [sync EXCEPT ![s] = r]
  BY DEF PushItems
<1>4. r \in SyncerState /\ r.pc \in {"idle", "ended"} /\ r.batch = {} /\ r.trig = {}
      /\ r.calc = {} /\ DOMAIN r.hist = {}
  <2>1. more \in BOOLEAN
    OBVIOUS
  <2> HIDE DEF more
  <2> QED  BY <1>1, <2>1, RoundResult
<1> HIDE DEF r
<1>5. /\ sync' \in [Syncer -> SyncerState] /\ sync'[s] = r
      /\ \A t \in Syncer \ {s} : sync'[t] = sync[t]
  BY <1>1, <1>3, <1>4, SyncerUpdate
<1>6. main \notin {"sync", "end"}
  BY <1>1, NotSyncing
<1>7. /\ cache \in Caches /\ B \in SUBSET DOMAIN cache
      /\ \A i \in B : cache[i].data # <<>> /\ Data(i) = cache[i].data
  BY <1>1, OwnedData DEF Inv, TypeInv
<1> HIDE DEF B
<1>8. /\ c \in Caches
      /\ \A i \in DOMAIN cache \ B : i \in DOMAIN c /\ c[i] = cache[i]
      /\ \A i \in Item \ B : DataIn(c, i) = DataIn(cache, i) /\ x[i] = {}
      /\ \A i \in B : cache[i].busy => DataIn(c, i) = cache[i].data /\ x[i] = {}
      /\ \A i \in Item : i \in Removed(cache, B) <=> i \in B /\ i \notin DOMAIN c
  BY <1>7, PushedLists
<1>9. ASSUME NEW i \in B, ~cache[i].busy
      PROVE  /\ x[i] \subseteq Nat
             /\ ListInv(i, DataIn(c, i), accepted[i], value[i], written[i], GoneAnd(gone[i], x[i]),
                        meta[i], FALSE)
  <2>1. i \in DOMAIN sync[s].hist /\ i \in Item
    BY <1>1, <1>9 DEF SyncOf, B
  <2>2. /\ accepted[i] \in Nat /\ value[i] \in SUBSET Nat /\ written[i] \in Seq(Nat)
        /\ gone[i] \in SUBSET Nat /\ meta[i] \in Nat
    BY <1>1, <2>1 DEF TypeInv
  <2> DEFINE d == Data(i)
  <2>3. /\ d \in Seq(Records) /\ d # <<>> /\ d = cache[i].data
        /\ sync[s].hist[i].n = d[1].n /\ sync[s].hist[i].meta = d[1].meta
    BY <2>1, ReadFields
  <2>4. ListInv(i, d, accepted[i], value[i], written[i], gone[i], meta[i], Again(i))
    BY <2>1 DEF Inv, ItemInv
  <2>5. /\ d[1].n \in value[i] => d[1].n \in Range(written[i]) \union gone[i]
        /\ i \in LogItem /\ gone[i] = {} => meta[i] = d[1].meta
    BY <1>1, <2>1, <2>3 DEF ProcessedOf
  <2> HIDE DEF d
  <2>6. 1 \in DOMAIN d
    BY <2>3
  <2>7. Done(i, d, accepted[i], value[i], written[i], gone[i], meta[i])
    BY <2>3, <2>4, <2>5, <2>6 DEF Done, ListInv, Before, MetaOf
  <2>8. Done(i, cache[i].data, accepted[i], value[i], written[i], gone[i], meta[i])
    BY <2>3, <2>7
  <2> DEFINE a == accepted[i]
             v == value[i]
             w == written[i]
             g == gone[i]
             m == meta[i]
  <2>9. /\ Done(i, cache[i].data, a, v, w, g, m) /\ FALSE \in BOOLEAN
        /\ a \in Nat /\ v \in SUBSET Nat /\ w \in Seq(Nat) /\ g \in SUBSET Nat /\ m \in Nat
    BY <2>2, <2>8
  <2> HIDE DEF a, v, w, g, m, c, x
  <2>10. /\ Discarded(cache, B)[i] \subseteq Nat
         /\ ListInv(i, DataIn(Pushed(cache, B), i), a, v, w, GoneAnd(g, Discarded(cache, B)[i]), m,
                    FALSE)
    BY <1>7, <1>9, <2>9, PushedItem
  <2> QED  BY <2>10 DEF a, v, w, g, m, c, x
<1> HIDE DEF c, x
<1>10. ASSUME NEW i \in Item
       PROVE  Data(i)' = DataIn(c, i) /\ Data(i) = DataIn(cache, i) /\ gone'[i] = gone[i] \union x[i]
  BY <1>2 DEF Data, DataIn
<1>11. SyncerFrame(s)
  BY <1>1, <1>2, <1>4, <1>5, <1>6, <1>8, <1>10 DEF SyncerFrame, B
<1>12. \A i \in B : queue[i] = 0
  BY <1>1, <1>7 DEF Inv, OwnInv, Holds, TypeInv, B
<1>13. ASSUME NEW i \in Item
       PROVE  queue'[i] = IF i \in B /\ Data(i)' # <<>> THEN 1 ELSE queue[i]
  <2>1. CASE i \in B
    <3>1. i \in (B \ Removed(cache, B)) /\ cache'[i].data # <<>> <=> Data(i)' # <<>>
      BY <1>2, <1>8, <1>10, <2>1 DEF DataIn
    <3> QED  BY <1>2, <1>12, <2>1, <3>1
  <2>2. CASE i \notin B
    BY <1>2, <2>2
  <2> QED  BY <2>1, <2>2
<1>14. TypeInv'
  <2>1. queue' \in [Item -> {0, 1}]
    <3>1. \A i \in Item : queue[i] \in {0, 1}
      BY <1>1 DEF TypeInv
    <3>2. \A i \in Item : queue'[i] \in {0, 1}
      BY <1>13, <3>1
    <3> QED  BY <1>2, <3>2
  <2>2. \A i \in Item : x[i] \subseteq Nat
    BY <1>8, <1>9
  <2>3. gone' \in [Item -> SUBSET Nat]
    BY <1>1, <1>2, <2>2 DEF TypeInv
  <2> QED  BY <1>1, <1>2, <1>5, <1>8, <2>1, <2>3 DEF TypeInv, config
<1>15. OwnInv'
  <2>1. \A i \in Item, t \in Syncer : Holds(t, i)' <=> Holds(t, i) /\ t # s
    BY <1>4, <1>5 DEF Holds
  <2>2. \A i \in Item : Holds(s, i) <=> i \in B
    BY DEF Holds, B
  <2>3. \A i \in B : \A t \in Syncer \ {s} : ~Holds(t, i)
    BY <1>1, <2>2 DEF Inv, OwnInv, B
  <2>4. \A i \in Item \ B : Data(i)' = Data(i)
    BY <1>8, <1>10
  <2> QED  BY <1>12, <1>13, <2>1, <2>2, <2>3, <2>4 DEF Inv, OwnInv
<1>16. SyncOf(s)' /\ ReadOf(s)' /\ ProcessedOf(s)' /\ LockedOf(s)'
  BY <1>4, <1>5 DEF SyncOf, ReadOf, ProcessedOf, LockedOf
<1>17. LocksInv'
  BY <1>1, <1>2, <1>4, <1>5 DEF LocksInv, config
<1>18. ASSUME NEW i \in B PROVE ItemInv(i)'
  <2>1. i \in Item
    BY <1>1 DEF B
  <2>2. Ascends(written[i])'
    BY <1>2, <1>11, <2>1, DeadKept DEF Inv, ItemInv, Ascends
  <2>3. Again(i)' \in BOOLEAN /\ Again(i) \in BOOLEAN
    BY DEF Again
  <2>4. CASE ~cache[i].busy
    <3>1. ListInv(i, DataIn(c, i), accepted[i], value[i], written[i], GoneAnd(gone[i], x[i]),
                  meta[i], Again(i)')
      BY <1>9, <2>3, <2>4, WeakerAgain
    <3>2. gone'[i] = GoneAnd(gone[i], x[i])
      BY <1>10, <2>1 DEF GoneAnd
    <3>3. ListInv(i, Data(i), accepted[i], value[i], written[i], gone[i], meta[i], Again(i))'
      BY <1>2, <1>10, <2>1, <3>1, <3>2
    <3> QED  BY <2>2, <3>3 DEF ItemInv
  <2>5. CASE cache[i].busy
    <3>1. Data(i)' = Data(i) /\ gone'[i] = gone[i]
      <4>1. DataIn(c, i) = cache[i].data /\ x[i] = {} /\ Data(i) = cache[i].data
        BY <1>7, <1>8, <2>5
      <4>2. gone[i] \union x[i] = gone[i]
        BY <4>1
      <4> QED  BY <1>10, <2>1, <4>1, <4>2
    <3>2. i \notin DOMAIN sync[s].hist
      BY <1>1, <2>5 DEF SyncOf, B
    <3>3. Again(i) => Again(i)'
      BY <1>5, <1>6, <3>2 DEF Again
    <3>4. ListInv(i, Data(i), accepted[i], value[i], written[i], gone[i], meta[i], Again(i))
      BY <2>1 DEF Inv, ItemInv
    <3>5. ListInv(i, Data(i), accepted[i], value[i], written[i], gone[i], meta[i], Again(i)')
      BY <2>3, <3>3, <3>4, WeakerAgain
    <3>6. ListInv(i, Data(i), accepted[i], value[i], written[i], gone[i], meta[i], Again(i))'
      BY <1>2, <3>1, <3>5
    <3> QED  BY <2>2, <3>6 DEF ItemInv
  <2> QED  BY <2>4, <2>5
<1> QED  BY <1>6, <1>11, <1>14, <1>15, <1>16, <1>17, <1>18, SyncerStepInv DEF B

(* a syncer that dies takes its batch with it *)
LEMMA SyncerDiesStep ==
  ASSUME Inv, NEW s \in Syncer, SyncerDies(s)
  PROVE  Inv'
<1> DEFINE r == [Goto(s, "dead") EXCEPT !.calc = {}]
<1>1. /\ TypeInv /\ SyncOf(s) /\ ReadOf(s) /\ sync[s] \in SyncerState /\ LocksInv
      /\ sync[s].pc \notin {"ended", "dead"} /\ sync[s].batch \subseteq Item
      /\ DOMAIN sync[s].hist \subseteq sync[s].batch
      /\ main \notin {"sync", "end"} /\ main' \notin {"sync", "end"}
      /\ UNCHANGED <<cache, queue, locked, config, flush, fate>>
      /\ sync' = [sync EXCEPT ![s] = r]
  BY DEF Inv, TypeInv, SyncInv, SyncOf, TriggerInv, ReadStable, ReadOf, SyncerState, SyncerDies,
         Running, shared
<1>2. r \in SyncerState /\ r.pc = "dead" /\ r.batch = sync[s].batch /\ r.hist = sync[s].hist
      /\ r.trig = sync[s].trig /\ r.calc = {}
  BY <1>1 DEF SyncerState, Goto
<1> HIDE DEF r
<1>3. /\ sync' \in [Syncer -> SyncerState] /\ sync'[s] = r
      /\ \A t \in Syncer \ {s} : sync'[t] = sync[t]
  BY <1>1, <1>2, SyncerUpdate
<1>4. \A i \in Item : Data(i)' = Data(i)
  BY <1>1 DEF Data
<1>5. SyncerFrame(s)
  BY <1>1, <1>2, <1>3, <1>4 DEF SyncerFrame, fate
<1>6. TypeInv'
  BY <1>1, <1>3 DEF TypeInv, fate, config
<1>7. OwnInv'
  BY <1>1, <1>2, <1>3, <1>4, SameOwners
<1>8. SyncOf(s)' /\ ProcessedOf(s)' /\ LockedOf(s)'
  BY <1>1, <1>2, <1>3 DEF SyncOf, ProcessedOf, LockedOf
<1>9. ReadOf(s)'
  <2>1. \A i \in DOMAIN sync[s].hist : i \in Item
    BY <1>1
  <2> QED  BY <1>1, <1>2, <1>3, <1>4, <2>1 DEF ReadOf
<1>10. LocksInv'
  BY <1>1, <1>2, <1>3 DEF LocksInv, config
<1>11. ASSUME NEW i \in sync[s].batch PROVE ItemInv(i)'
  <2>1. i \in Item
    BY <1>1
  <2>2. Again(i) => Again(i)'
    BY <1>1, <1>2, <1>3 DEF Again
  <2>3. Again(i)' \in BOOLEAN /\ Again(i) \in BOOLEAN
    BY DEF Again
  <2>4. Ascends(written[i])'
    BY <1>1, <1>5, <2>1, DeadKept DEF Inv, ItemInv, Ascends, fate
  <2>5. ListInv(i, Data(i), accepted[i], value[i], written[i], gone[i], meta[i], Again(i))
    BY <2>1 DEF Inv, ItemInv
  <2>6. ListInv(i, Data(i), accepted[i], value[i], written[i], gone[i], meta[i], Again(i)')
    BY <2>2, <2>3, <2>5, WeakerAgain
  <2> QED  BY <1>1, <1>4, <2>1, <2>4, <2>6 DEF ItemInv, fate
<1> QED  BY <1>1, <1>5, <1>6, <1>7, <1>8, <1>9, <1>10, <1>11, SyncerStepInv

---------------------------------------------------------------------------
(* the main process takes over when all others have ended or died: the items *)
(* of dead syncers are in no batch any more (DCsync_all)                     *)
LEMMA FullSyncStep ==
  ASSUME Inv, FullSync
  PROVE  Inv'
<1> DEFINE none == <<>>
<1>1. /\ TypeInv /\ SyncInv /\ LocksInv /\ main = "shutdown" /\ main' = "sync" /\ locked' = {}
      /\ \A f \in Flusher : flush[f].pc = "ended"
      /\ \A s \in Syncer : sync[s].pc \in {"ended", "dead"}
      /\ UNCHANGED <<config, flush, fate>>
      /\ cache' = [i \in DOMAIN cache |-> [cache[i] EXCEPT !.busy = @ /\ cache[i].data = <<>>]]
      /\ queue' = [i \in Item |-> IF Data(i) = <<>> THEN 0 ELSE 1]
      /\ sync' = [s \in Syncer |-> [sync[s] EXCEPT !.batch = {}, !.trig = {}, !.hist = none]]
  BY DEF Inv, TriggerInv, FullSync
<1>2. none \in Hists /\ DOMAIN none = {}
  <2>1. DOMAIN none = {} /\ none = [i \in {} |-> i]
    OBVIOUS
  <2>2. none \in [{} -> Records]
    BY <2>1
  <2>3. {} \in SUBSET Item
    OBVIOUS
  <2> HIDE DEF none
  <2> QED  BY <2>1, <2>2, <2>3 DEF Hists
<1> HIDE DEF none
<1>3. ASSUME NEW s \in Syncer
      PROVE  /\ sync'[s] \in SyncerState /\ sync'[s].pc = sync[s].pc /\ sync'[s].batch = {}
             /\ sync'[s].trig = {} /\ sync'[s].hist = none /\ sync'[s].calc = sync[s].calc
  <2>1. sync[s] \in SyncerState
    BY <1>1 DEF TypeInv
  <2>2. sync'[s] = [sync[s] EXCEPT !.batch = {}, !.trig = {}, !.hist = none]
    BY <1>1
  <2> QED  BY <1>2, <2>1, <2>2 DEF SyncerState
<1>4. sync' \in [Syncer -> SyncerState]
  BY <1>1, <1>3
<1>5. /\ cache \in Caches /\ DOMAIN cache \subseteq Item
      /\ \A i \in DOMAIN cache : cache[i] \in List
  BY <1>1, CachesType DEF TypeInv
<1>6. ASSUME NEW i \in DOMAIN cache
      PROVE  cache'[i] \in List /\ cache'[i].data = cache[i].data
  <2> DEFINE b == cache[i].busy /\ cache[i].data = <<>>
  <2>1. cache[i] \in List /\ b \in BOOLEAN
    BY <1>5
  <2>2. cache'[i] = [cache[i] EXCEPT !.busy = b]
    BY <1>1
  <2> HIDE DEF b
  <2> QED  BY <2>1, <2>2 DEF List
<1>7. DOMAIN cache' = DOMAIN cache /\ cache' = [i \in DOMAIN cache' |-> cache'[i]]
  BY <1>1
<1>8. cache' \in Caches
  BY <1>5, <1>6, <1>7, CachesType
<1>9. \A i \in Item : Data(i)' = Data(i)
  BY <1>6, <1>7 DEF Data
<1>10. TypeInv'
  <2>1. queue' \in [Item -> {0, 1}]
    BY <1>1
  <2> QED  BY <1>1, <1>4, <1>8, <2>1 DEF TypeInv, fate, config
<1>11. OwnInv'
  <2>1. \A i \in Item, s \in Syncer : ~Holds(s, i)'
    BY <1>3 DEF Holds
  <2>2. ASSUME NEW i \in Item PROVE Data(i)' # <<>> <=> queue'[i] = 1
    <3>1. queue'[i] = IF Data(i) = <<>> THEN 0 ELSE 1
      BY <1>1
    <3> QED  BY <1>9, <3>1
  <2> QED  BY <2>1, <2>2 DEF OwnInv
<1>12. SyncInv' /\ ReadStable' /\ ProcessedInv' /\ TriggerInv'
  BY <1>1, <1>2, <1>3, ZenonT(40)
     DEF SyncInv, SyncOf, ReadStable, ProcessedInv, ProcessedOf, TriggerInv, LocksInv, LockedOf,
         config
<1>13. EndInv'
  BY <1>1, <1>3 DEF EndInv
<1>14. Dead' = Dead
  BY <1>3 DEF Dead
<1>15. ASSUME NEW i \in Item PROVE ItemInv(i)'
  <2>1. Again(i) => Again(i)'
    <3>1. ASSUME NEW s \in Syncer, i \in DOMAIN sync[s].hist PROVE s \in Dead
      BY <1>1, <3>1 DEF SyncInv, SyncOf, Dead
    <3> QED  BY <1>1, <1>14, <3>1 DEF Again
  <2>2. Again(i) \in BOOLEAN /\ Again(i)' \in BOOLEAN
    BY DEF Again
  <2>3. ListInv(i, Data(i), accepted[i], value[i], written[i], gone[i], meta[i], Again(i))
    BY DEF Inv, ItemInv
  <2>4. ListInv(i, Data(i), accepted[i], value[i], written[i], gone[i], meta[i], Again(i)')
    BY <2>1, <2>2, <2>3, WeakerAgain
  <2>5. Ascends(written[i])'
    <3>1. written'[i] = written[i] /\ Ascends(written[i])
      BY <1>1 DEF Inv, ItemInv, fate
    <3> QED  BY <1>14, <3>1 DEF Ascends
  <2> QED  BY <1>1, <1>9, <2>4, <2>5 DEF ItemInv, fate
<1> QED  BY <1>10, <1>11, <1>12, <1>13, <1>15 DEF Inv

(* a round of the main process over the lists of one batch *)
LEMMA SyncedItem ==
  ASSUME Inv, main = "sync", NEW off \in SUBSET Item, NEW i \in Item, NEW ok \in BOOLEAN,
         NEW g \in SUBSET Nat, Data(i) # <<>>,
         gone[i] \union Cut(cache, Cleared(cache, off))[i] \subseteq g,
         ~ok => Data(i)[1].n \in g
  PROVE  /\ WrittenWith(written[i], Data(i), ok) \in Seq(Nat)
         /\ MetaWith(meta[i], Data(i), ok) \in Nat
         /\ Ascends(WrittenWith(written[i], Data(i), ok))
         /\ Done(i, DataIn(Cleared(cache, off), i), accepted[i], value[i],
                 WrittenWith(written[i], Data(i), ok), g, MetaWith(meta[i], Data(i), ok))
<1> DEFINE d == DataIn(Cleared(cache, off), i)
           a == accepted[i]
           v == value[i]
           w == written[i]
           h == gone[i] \union Cut(cache, Cleared(cache, off))[i]
           m == meta[i]
           again == Again(i)
<1>1. /\ ListInv(i, d, a, v, w, h, m, again) /\ d # <<>> /\ d[1] = Data(i)[1]
      /\ Cut(cache, Cleared(cache, off))[i] \subseteq Nat
      /\ Cleared(cache, off) \in Caches
  BY ClearedLists
<1>2. /\ a \in Nat /\ v \in SUBSET Nat /\ w \in Seq(Nat) /\ h \in SUBSET Nat /\ m \in Nat
  BY <1>1 DEF Inv, TypeInv
<1>3. d \in Seq(Records)
  <2> DEFINE c == Cleared(cache, off)
  <2>1. c \in Caches
    BY <1>1
  <2> HIDE DEF c
  <2>2. i \in DOMAIN c => c[i] \in List
    BY <2>1, CachesType
  <2>3. DataIn(c, i) \in Seq(Records)
    BY <2>2 DEF DataIn, List
  <2> QED  BY <2>3 DEF c
<1>4. again \in BOOLEAN /\ (again => Dead # {})
  BY DEF Again, Inv, EndInv, SyncInv, SyncOf
<1>5. Ascends(w)
  BY DEF Inv, ItemInv
<1>6. h \subseteq g /\ (~ok => d[1].n \in g)
  BY <1>1
<1>7. /\ WrittenWith(w, Data(i), ok) = WrittenWith(w, d, ok)
      /\ MetaWith(m, Data(i), ok) = MetaWith(m, d, ok)
  BY <1>1 DEF WrittenWith, MetaWith
<1>8. ListInv(i, d, a, v, w, h, m, again) /\ d # <<>>
  BY <1>1
<1> HIDE DEF d, a, v, w, h, m, again
<1>9. /\ WrittenWith(w, d, ok) \in Seq(Nat) /\ Ascends(WrittenWith(w, d, ok))
      /\ MetaWith(m, d, ok) \in Nat
      /\ Done(i, d, a, v, WrittenWith(w, d, ok), g, MetaWith(m, d, ok))
  <2>1. TRUE \in BOOLEAN /\ FALSE \in BOOLEAN
    OBVIOUS
  <2>2. CASE again
    <3>1. ListInv(i, d, a, v, w, h, m, TRUE) /\ (TRUE => Dead # {})
      BY <1>4, <1>8, <2>1, <2>2, WeakerAgain
    <3> QED  BY <1>2, <1>3, <1>5, <1>6, <1>8, <2>1, <3>1, WriteItem
  <2>3. CASE ~again
    <3>1. ListInv(i, d, a, v, w, h, m, FALSE) /\ (FALSE => Dead # {})
      BY <1>4, <1>8, <2>1, <2>3, WeakerAgain
    <3> QED  BY <1>2, <1>3, <1>5, <1>6, <1>8, <2>1, <3>1, WriteItem
  <2> QED  BY <2>2, <2>3
<1> QED  BY <1>7, <1>9 DEF d, a, v, w, m

(* what a round of the main process does to the account of an item *)
RoundItem(i, off, batch) ==
  LET c == Cleared(cache, off) IN
    IF i \in batch /\ ~c[i].busy
    THEN \E ok \in BOOLEAN, g \in SUBSET Nat :
           /\ gone[i] \union Cut(cache, c)[i] \subseteq g /\ (~ok => Data(i)[1].n \in g)
           /\ written'[i] = WrittenWith(written[i], Data(i), ok)
           /\ meta'[i] = MetaWith(meta[i], Data(i), ok)
           /\ gone'[i] = GoneAnd(g, Discarded(c, batch)[i])
    ELSE /\ written'[i] = written[i] /\ meta'[i] = meta[i]
         /\ gone'[i] = gone[i] \union Cut(cache, c)[i]

(* what a round of the main process leaves of an item *)
LEMMA RoundKeepsItem ==
  ASSUME Inv, main = "sync", NEW off \in SUBSET Item, NEW batch \in SUBSET DOMAIN cache,
         \A i \in batch : Data(i) # <<>>, cache' = Pushed(Cleared(cache, off), batch),
         UNCHANGED <<sync, main, accepted, value>>,
         NEW i \in Item, RoundItem(i, off, batch)
  PROVE  /\ ItemInv(i)'
         /\ written'[i] \in Seq(Nat) /\ meta'[i] \in Nat /\ gone'[i] \in SUBSET Nat
<1> DEFINE c == Cleared(cache, off)
<1>1. /\ c \in Caches /\ DOMAIN c = DOMAIN cache /\ batch \in SUBSET DOMAIN c
      /\ \A j \in batch : c[j].data # <<>>
      /\ DOMAIN cache \subseteq Item
      /\ Cut(cache, c)[i] \subseteq Nat
      /\ ListInv(i, DataIn(c, i), accepted[i], value[i], written[i],
                 gone[i] \union Cut(cache, c)[i], meta[i], Again(i))
  <2>1. /\ c \in Caches /\ DOMAIN c = DOMAIN cache
        /\ \A j \in Item : DataIn(c, j) = <<>> <=> Data(j) = <<>>
        /\ Cut(cache, c)[i] \subseteq Nat
        /\ ListInv(i, DataIn(c, i), accepted[i], value[i], written[i],
                   gone[i] \union Cut(cache, c)[i], meta[i], Again(i))
    BY ClearedLists
  <2>2. DOMAIN cache \subseteq Item
    BY CachesType DEF Inv, TypeInv
  <2>3. \A j \in batch : c[j].data = DataIn(c, j) /\ j \in Item
    BY <2>1, <2>2 DEF DataIn
  <2> QED  BY <2>1, <2>2, <2>3
<1>2. Again(i)' = Again(i) /\ Dead' = Dead /\ Again(i) \in BOOLEAN
  BY DEF Again, Dead
<1>3. /\ accepted[i] \in Nat /\ value[i] \in SUBSET Nat /\ written[i] \in Seq(Nat)
      /\ gone[i] \in SUBSET Nat /\ meta[i] \in Nat
  BY DEF Inv, TypeInv
<1>4. Data(i)' = DataIn(Pushed(c, batch), i)
  BY DEF Data, DataIn
<1>5. Ascends(written[i])
  BY DEF Inv, ItemInv
<1>6. CASE i \in batch /\ ~c[i].busy
  <2>1. PICK ok \in BOOLEAN, g \in SUBSET Nat :
           /\ gone[i] \union Cut(cache, c)[i] \subseteq g /\ (~ok => Data(i)[1].n \in g)
           /\ written'[i] = WrittenWith(written[i], Data(i), ok)
           /\ meta'[i] = MetaWith(meta[i], Data(i), ok)
           /\ gone'[i] = GoneAnd(g, Discarded(c, batch)[i])
    BY <1>6, Zenon DEF RoundItem
  <2>2. /\ WrittenWith(written[i], Data(i), ok) \in Seq(Nat)
        /\ MetaWith(meta[i], Data(i), ok) \in Nat
        /\ Ascends(WrittenWith(written[i], Data(i), ok))
        /\ Done(i, DataIn(c, i), accepted[i], value[i],
                WrittenWith(written[i], Data(i), ok), g, MetaWith(meta[i], Data(i), ok))
    BY <1>6, <2>1, SyncedItem
  <2>3. DataIn(c, i) = c[i].data
    BY <1>1, <1>6 DEF DataIn
  <2> DEFINE w == WrittenWith(written[i], Data(i), ok)
             m == MetaWith(meta[i], Data(i), ok)
             a == accepted[i]
             v == value[i]
             again == Again(i)
             p == Pushed(c, batch)
             x == Discarded(c, batch)[i]
  <2>4. /\ w \in Seq(Nat) /\ m \in Nat /\ a \in Nat /\ v \in SUBSET Nat /\ again \in BOOLEAN
        /\ Done(i, c[i].data, a, v, w, g, m)
    BY <1>2, <1>3, <2>2, <2>3
  <2>5. /\ written'[i] = w /\ meta'[i] = m /\ gone'[i] = GoneAnd(g, x) /\ accepted'[i] = a
        /\ value'[i] = v /\ Again(i)' = again /\ Data(i)' = DataIn(p, i) /\ Ascends(w)
    BY <1>2, <1>4, <2>1, <2>2
  <2> HIDE DEF c, w, m, a, v, again
  <2>6. ListInv(i, DataIn(p, i), a, v, w, GoneAnd(g, x), m, again) /\ x \subseteq Nat
    BY <1>1, <1>6, <2>4, PushedItem
  <2> HIDE DEF p, x
  <2>7. ListInv(i, Data(i), accepted[i], value[i], written[i], gone[i], meta[i], Again(i))'
    BY <2>5, <2>6
  <2>8. Ascends(written[i])'
    BY <1>2, <2>5 DEF Ascends
  <2>9. GoneAnd(g, x) \in SUBSET Nat
    BY <2>6 DEF GoneAnd
  <2> QED  BY <2>4, <2>5, <2>7, <2>8, <2>9 DEF ItemInv
<1>7. CASE ~(i \in batch /\ ~c[i].busy)
  <2>1. /\ written'[i] = written[i] /\ meta'[i] = meta[i]
        /\ gone'[i] = gone[i] \union Cut(cache, c)[i]
    BY <1>7, Zenon DEF RoundItem
  <2>2. DataIn(Pushed(c, batch), i) = DataIn(c, i)
    <3> HIDE DEF c
    <3>1. CASE i \in batch
      <4>1. DataIn(Pushed(c, batch), i) = c[i].data
        BY <1>1, <1>7, <3>1, PushedLists
      <4> QED  BY <1>1, <3>1, <4>1 DEF DataIn
    <3>2. CASE i \notin batch
      BY <1>1, <3>2, PushedLists
    <3> QED  BY <3>1, <3>2
  <2> HIDE DEF c
  <2>3. ListInv(i, Data(i), accepted[i], value[i], written[i], gone[i], meta[i], Again(i))'
    BY <1>1, <1>2, <1>4, <2>1, <2>2
  <2>4. Ascends(written[i])'
    BY <1>2, <1>5, <2>1 DEF Ascends
  <2>5. gone'[i] \in SUBSET Nat
    BY <1>1, <1>3, <2>1
  <2> QED  BY <1>3, <2>1, <2>3, <2>4, <2>5 DEF ItemInv
<1> QED  BY <1>6, <1>7

(* sync_history_cache_full *)
LEMMA FullSyncRoundStep ==
  ASSUME Inv, FullSyncRound
  PROVE  Inv'
<1>1. /\ TypeInv /\ EndInv /\ main = "sync"
      /\ UNCHANGED <<locked, config, flush, sync, clears, accepted, value, drift>>
      /\ \A s \in Syncer : sync[s].pc \in {"ended", "dead"} /\ sync[s].batch = {}
      /\ \A f \in Flusher : flush[f].pc = "ended"
  BY DEF Inv, EndInv, FullSyncRound
<1>2. \A s \in Syncer : DOMAIN sync[s].hist = {}
  BY <1>1 DEF Inv, SyncInv, SyncOf
<1>3. \A i \in Item : Data(i) # <<>> <=> queue[i] = 1
  BY <1>1 DEF Inv, OwnInv, Holds
<1>4. SyncInv' /\ ReadStable' /\ ProcessedInv' /\ TriggerInv'
  <2>1. SyncInv' /\ ReadStable' /\ ProcessedInv'
    BY <1>1, <1>2 DEF SyncInv, SyncOf, ReadStable, ProcessedInv, ProcessedOf
  <2>2. TriggerInv'
    BY <1>1 DEF Inv, TriggerInv, LocksInv, LockedOf, config
  <2> QED  BY <2>1, <2>2
<1>5. Dead' = Dead
  BY <1>1 DEF Dead
<1>6. CASE Queued = {}
  <2>1. main' = "end" /\ UNCHANGED <<shared, written, meta, gone>>
    BY <1>6 DEF FullSyncRound
  <2>2. \A i \in Item : Data(i)' = Data(i)
    BY <2>1 DEF Data, shared
  <2>3. \A i \in Item : Data(i) = <<>>
    BY <1>1, <1>3, <1>6 DEF Queued
  <2>4. TypeInv'
    BY <1>1, <2>1 DEF TypeInv, shared, config
  <2>5. OwnInv'
    BY <1>1, <2>1, <2>2 DEF Inv, OwnInv, Holds, shared
  <2>6. EndInv'
    BY <1>1, <2>1, <2>2, <2>3 DEF EndInv
  <2>7. ASSUME NEW i \in Item PROVE ItemInv(i)'
    <3>1. Again(i)' = Again(i)
      BY <1>1, <1>5, <2>1 DEF Again
    <3>2. Ascends(written[i])'
      BY <1>5, <2>1 DEF Inv, ItemInv, Ascends
    <3> QED  BY <1>1, <2>1, <2>2, <3>1, <3>2 DEF Inv, ItemInv
  <2> QED  BY <1>4, <2>4, <2>5, <2>6, <2>7 DEF Inv
<1>7. CASE Queued # {}
  <2>1. PICK batch \in SUBSET Queued :
          /\ \E hist \in {[i \in Available(cache, batch) |->
                             [cache[i].data[1] EXCEPT !.undef = status[i] # "active"]]},
                off \in {Unwanted(batch)}, ok \in BOOLEAN :
               /\ IF ok THEN AddHistory(hist) ELSE UNCHANGED <<written, meta>>
               /\ Account([i \in Item |->
                     Cut(cache, Cleared(cache, off))[i]
                       \union Discarded(Cleared(cache, off), batch)[i]
                       \union IF ok THEN Undef(hist)[i] ELSE All(hist)[i]])
               /\ cache' = Pushed(Cleared(cache, off), batch)
               /\ queue' = [i \in Item |->
                     IF i \in DOMAIN cache' /\ cache'[i].data # <<>> THEN 1 ELSE 0]
          /\ UNCHANGED main
    BY <1>7, ZenonT(60) DEF FullSyncRound
  <2> DEFINE hist == [i \in Available(cache, batch) |->
                        [cache[i].data[1] EXCEPT !.undef = status[i] # "active"]]
             off == Unwanted(batch)
             c == Cleared(cache, off)
  <2>2. PICK ok \in BOOLEAN :
          /\ IF ok THEN AddHistory(hist) ELSE UNCHANGED <<written, meta>>
          /\ Account([i \in Item |->
                Cut(cache, c)[i] \union Discarded(c, batch)[i]
                  \union IF ok THEN Undef(hist)[i] ELSE All(hist)[i]])
          /\ cache' = Pushed(c, batch)
          /\ queue' = [i \in Item |->
                IF i \in DOMAIN cache' /\ cache'[i].data # <<>> THEN 1 ELSE 0]
    BY <2>1, Zenon
  <2>3. /\ batch \subseteq Item /\ off \subseteq batch /\ batch \subseteq DOMAIN cache
        /\ \A i \in batch : Data(i) # <<>> /\ Data(i) = cache[i].data /\ Data(i)[1] \in Records
    <3>1. batch \subseteq Item /\ off \subseteq batch /\ \A i \in batch : queue[i] = 1
      BY <1>1 DEF Queued, Unwanted, TypeInv
    <3>2. ASSUME NEW i \in batch
          PROVE  i \in DOMAIN cache /\ Data(i) # <<>> /\ Data(i) = cache[i].data
                 /\ Data(i)[1] \in Records
      <4>1. i \in DOMAIN cache /\ Data(i) # <<>> /\ Data(i) = cache[i].data
        BY <1>3, <3>1 DEF Data
      <4>2. cache[i] \in List
        BY <1>1, <4>1, CachesType DEF TypeInv
      <4>3. cache[i].data \in Seq(Records)
        BY <4>2 DEF List
      <4> QED  BY <4>1, <4>3
    <3> QED  BY <3>1, <3>2
  <2>4. \A i \in batch : c[i].busy = cache[i].busy
    BY <2>3, ClearedLists
  <2>5. DOMAIN hist = {i \in batch : ~cache[i].busy}
    BY DEF Available
  <2>6. ASSUME NEW i \in DOMAIN hist
        PROVE  /\ hist[i].n = Data(i)[1].n /\ hist[i].val = Data(i)[1].val
               /\ hist[i].meta = Data(i)[1].meta /\ hist[i].n \in Nat /\ hist[i].meta \in Nat
               /\ hist[i].undef \in BOOLEAN
    <3> DEFINE x == Data(i)[1]
               u == status[i] # "active"
    <3>1. hist[i] = [x EXCEPT !.undef = u] /\ x \in Records /\ u \in BOOLEAN
      BY <2>3, <2>5
    <3> HIDE DEF hist, x, u
    <3>2. /\ hist[i].n = x.n /\ hist[i].val = x.val /\ hist[i].meta = x.meta
          /\ hist[i].n \in Nat /\ hist[i].meta \in Nat /\ hist[i].undef \in BOOLEAN
      BY <3>1 DEF Records
    <3> QED  BY <3>2 DEF x
  <2> HIDE DEF hist, off, c
  <2>7. ASSUME NEW i \in Item
        PROVE  RoundItem(i, off, batch)
    <3> DEFINE lost == IF ok THEN Undef(hist)[i] ELSE All(hist)[i]
               x == Discarded(c, batch)[i]
    <3>1. gone'[i] = gone[i] \union (Cut(cache, c)[i] \union x \union lost)
      BY <2>2 DEF Account
    <3>2. CASE i \in batch /\ ~c[i].busy
      <4>1. i \in DOMAIN hist
        BY <2>4, <2>5, <3>2
      <4> DEFINE o == ok /\ ~hist[i].undef
                 g == gone[i] \union Cut(cache, c)[i] \union lost
      <4>2. o \in BOOLEAN /\ lost \subseteq Nat /\ (~o => Data(i)[1].n \in lost)
        <5>1. All(hist)[i] = {hist[i].n} /\ (hist[i].undef => Undef(hist)[i] = {hist[i].n})
              /\ Undef(hist)[i] \subseteq {hist[i].n}
          BY <4>1 DEF All, Undef
        <5> QED  BY <2>6, <4>1, <5>1
      <4>3. written'[i] = WrittenWith(written[i], Data(i), o)
        BY <2>2, <2>6, <4>1, ZenonT(60) DEF AddHistory, WrittenWith
      <4>4. meta'[i] = MetaWith(meta[i], Data(i), o)
        BY <2>2, <2>6, <4>1 DEF AddHistory, MetaWith
      <4>5. Cut(cache, c)[i] \subseteq Nat
        BY <2>3, ClearedLists DEF c
      <4>6. g \in SUBSET Nat /\ gone[i] \union Cut(cache, c)[i] \subseteq g
            /\ (~o => Data(i)[1].n \in g)
        BY <1>1, <4>2, <4>5 DEF TypeInv
      <4>7. gone'[i] = GoneAnd(g, x)
        BY <3>1 DEF GoneAnd
      <4> HIDE DEF g, o, x, lost
      <4>8. \E oo \in BOOLEAN, gg \in SUBSET Nat :
              /\ gone[i] \union Cut(cache, c)[i] \subseteq gg /\ (~oo => Data(i)[1].n \in gg)
              /\ written'[i] = WrittenWith(written[i], Data(i), oo)
              /\ meta'[i] = MetaWith(meta[i], Data(i), oo)
              /\ gone'[i] = GoneAnd(gg, x)
        BY <4>2, <4>3, <4>4, <4>6, <4>7, Zenon
      <4> QED  BY <3>2, <4>8, Zenon DEF RoundItem, c, x
    <3>3. CASE ~(i \in batch /\ ~c[i].busy)
      <4>1. i \notin DOMAIN hist
        BY <2>4, <2>5, <3>3
      <4>2. written'[i] = written[i] /\ meta'[i] = meta[i] /\ lost = {}
        <5>1. All(hist)[i] = {} /\ Undef(hist)[i] = {}
          BY <4>1 DEF All, Undef
        <5>2. written'[i] = written[i] /\ meta'[i] = meta[i]
          BY <2>2, <4>1 DEF AddHistory
        <5> QED  BY <5>1, <5>2
      <4>3. x = {}
        <5>1. i \in batch => c[i].busy
          BY <3>3
        <5> QED  BY <5>1 DEF Discarded, Removed, Available
      <4>4. gone'[i] = gone[i] \union Cut(cache, c)[i]
        BY <3>1, <4>2, <4>3
      <4> QED  BY <3>3, <4>2, <4>4, Zenon DEF RoundItem, c
    <3> QED  BY <3>2, <3>3
  <2>8. ASSUME NEW i \in Item
        PROVE  /\ ItemInv(i)'
               /\ written'[i] \in Seq(Nat) /\ meta'[i] \in Nat /\ gone'[i] \in SUBSET Nat
    <3>1. off \in SUBSET Item /\ batch \in SUBSET DOMAIN cache
      BY <2>3
    <3>2. cache' = Pushed(Cleared(cache, off), batch) /\ UNCHANGED <<sync, main, accepted, value>>
      BY <1>1, <2>1, <2>2 DEF c
    <3> QED  BY <1>1, <2>3, <2>7, <3>1, <3>2, RoundKeepsItem
  <2>9. TypeInv'
    <3>1. c \in Caches /\ DOMAIN c = DOMAIN cache /\ \A i \in batch : c[i].data # <<>>
      <4>1. /\ c \in Caches /\ DOMAIN c = DOMAIN cache
            /\ \A j \in Item : DataIn(c, j) = <<>> <=> Data(j) = <<>>
        BY <2>3, ClearedLists DEF c
      <4> QED  BY <2>3, <4>1 DEF DataIn
    <3>2. cache' \in Caches
      BY <2>2, <2>3, <3>1, PushedLists
    <3>3. queue' \in [Item -> {0, 1}]
      BY <2>2
    <3>4. DOMAIN written' = Item /\ written' = [i \in Item |-> written'[i]]
          /\ DOMAIN meta' = Item /\ meta' = [i \in Item |-> meta'[i]]
      <4>1. CASE ok
        BY <2>2, <4>1 DEF AddHistory
      <4>2. CASE ~ok
        BY <1>1, <2>2, <4>2 DEF TypeInv
      <4> QED  BY <4>1, <4>2
    <3>5. DOMAIN gone' = Item /\ gone' = [i \in Item |-> gone'[i]]
      BY <2>2 DEF Account
    <3>6. written' \in [Item -> Seq(Nat)] /\ meta' \in [Item -> Nat]
          /\ gone' \in [Item -> SUBSET Nat]
      BY <2>8, <3>4, <3>5
    <3> QED  BY <1>1, <3>2, <3>3, <3>6 DEF TypeInv, config
  <2>10. OwnInv'
    <3>1. \A i \in Item, s \in Syncer : ~Holds(s, i)'
      BY <1>1 DEF Holds
    <3>2. ASSUME NEW i \in Item PROVE Data(i)' # <<>> <=> queue'[i] = 1
      <4>1. queue'[i] = IF i \in DOMAIN cache' /\ cache'[i].data # <<>> THEN 1 ELSE 0
        BY <2>2
      <4> QED  BY <4>1 DEF Data
    <3> QED  BY <3>1, <3>2 DEF OwnInv
  <2>11. EndInv'
    BY <1>1, <2>1 DEF EndInv
  <2> QED  BY <1>4, <2>8, <2>9, <2>10, <2>11 DEF Inv
<1> QED  BY <1>6, <1>7

---------------------------------------------------------------------------
(* the cache starts empty *)
LEMMA InitInv ==
  ASSUME Init
  PROVE  Inv
<1> DEFINE none == <<>>
<1>1. /\ none \in Hists /\ none \in Caches /\ DOMAIN none = {} /\ none \in Seq(Update)
      /\ none \in Seq(Nat) /\ none \in Seq(Records)
  <2>1. DOMAIN none = {} /\ none = [i \in {} |-> i] /\ none \in Seq(Update) /\ none \in Seq(Nat)
        /\ none \in Seq(Records)
    OBVIOUS
  <2>2. none \in [{} -> Records] /\ none \in [{} -> List]
    BY <2>1
  <2>3. {} \in SUBSET Item
    OBVIOUS
  <2> HIDE DEF none
  <2> QED  BY <2>1, <2>2, <2>3 DEF Hists, Caches
<1>2. /\ cache = none /\ queue = [i \in Item |-> 0] /\ locked = {} /\ enabled = Trigger
      /\ toggled = {} /\ status = [i \in Item |-> "active"]
      /\ flush = [f \in Flusher |-> IdleFlusher]
      /\ sync = [s \in Syncer |-> IdleSyncer]
      /\ main = "run" /\ accepted = [i \in Item |-> 0] /\ value = [i \in Item |-> {}]
      /\ written = [i \in Item |-> none] /\ meta = [i \in Item |-> 0]
      /\ gone = [i \in Item |-> {}] /\ drift = 0
      /\ IdleSyncer = [pc |-> "idle", batch |-> {}, trig |-> {}, hist |-> none,
                       calc |-> {}, last |-> FALSE]
      /\ IdleFlusher = [pc |-> "ready", todo |-> none, added |-> 0]
  BY DEF Init, IdleSyncer, IdleFlusher
<1>3. \A i \in Item : Data(i) = none
  BY <1>1, <1>2 DEF Data
<1>5. none = <<>>
  OBVIOUS
<1> HIDE DEF none
<1>4. IdleSyncer \in SyncerState /\ FlusherState(IdleFlusher)
  BY <1>1, <1>2 DEF SyncerState, FlusherState
<1>6. TypeInv
  BY <1>1, <1>2, <1>4 DEF TypeInv
<1>7. OwnInv
  BY <1>2, <1>3, <1>5 DEF OwnInv, Holds
<1>8. ASSUME NEW i \in Item PROVE ItemInv(i)
  <2>1. /\ accepted[i] = 0 /\ value[i] = {} /\ written[i] = none /\ gone[i] = {} /\ meta[i] = 0
        /\ Data(i) = none
    BY <1>2, <1>3
  <2>2. ListInv(i, none, 0, {}, none, {}, 0, Again(i))
    BY <1>1, <1>5 DEF ListInv, InOrder, Valued, Present, Before, MetaOf
  <2>3. Ascends(none)
    BY <1>1 DEF Ascends
  <2> QED  BY <2>1, <2>2, <2>3 DEF ItemInv
<1>9. SyncInv /\ ReadStable /\ ProcessedInv
  BY <1>1, <1>2 DEF SyncInv, SyncOf, ReadStable, ProcessedInv, ProcessedOf
<1>10. EndInv /\ TriggerInv
  BY <1>2 DEF EndInv, TriggerInv, LocksInv, LockedOf
<1> QED  BY <1>6, <1>7, <1>8, <1>9, <1>10 DEF Inv

(* every step keeps the invariant *)
LEMMA NextInv ==
  ASSUME Inv, [Next]_vars
  PROVE  Inv'
<1>1. ASSUME NEW s \in Syncer, SyncerStep(s) \/ SyncerDies(s) PROVE Inv'
  BY <1>1, PopStep, LockTriggersStep, PushBusyStep, PrepareHistoryStep, WriteHistorySteps,
     GetTimersStep, UnlockTriggersStep, PushItemsStep, SyncerDiesStep DEF SyncerStep
<1>2. ASSUME NEW f \in Flusher, Flush(f) \/ FlushRetry(f) \/ EndFlusher(f) PROVE Inv'
  BY <1>2, FlushSteps, QuietSteps
<1>3. ASSUME NEW i \in Item, DisableItem(i) \/ DeleteItem(i) \/ RemoveItem(i)
                             \/ HistoryCacheClear(i)
      PROVE  Inv'
  BY <1>3, QuietSteps, RemoveItemStep, HistoryCacheClearStep
<1>4. ASSUME NEW t \in Trigger, ToggleTrigger(t) PROVE Inv'
  BY <1>4, QuietSteps
<1>5. CASE Terminate \/ MainStep
  BY <1>5, QuietSteps, FullSyncStep, FullSyncRoundStep DEF MainStep
<1>6. CASE Ended \/ UNCHANGED vars
  <2>1. UNCHANGED vars
    BY <1>6 DEF Ended
  <2>2. TypeInv'
    BY <2>1 DEF Inv, TypeInv, vars, shared, config, fate
  <2>3. OwnInv' /\ SyncInv' /\ ReadStable' /\ ProcessedInv' /\ EndInv'
    BY <2>1 DEF Inv, OwnInv, Holds, Data, SyncInv, SyncOf, ReadStable, ProcessedInv, ProcessedOf,
                EndInv, vars, shared, fate
  <2>4. TriggerInv'
    BY <2>1 DEF Inv, TriggerInv, LocksInv, LockedOf, EnabledTriggers, Data, vars, shared, config
  <2>5. ASSUME NEW i \in Item PROVE ItemInv(i)'
    <3>1. ItemInv(i)
      BY DEF Inv
    <3>2. Data(i)' = Data(i) /\ Again(i)' = Again(i) /\ Dead' = Dead
      BY <2>1 DEF Data, Again, Dead, vars, shared
    <3>3. UNCHANGED <<accepted, value, written, gone, meta>>
      BY <2>1 DEF vars, fate
    <3> QED  BY <3>1, <3>2, <3>3 DEF ItemInv, Ascends
  <2> QED  BY <2>2, <2>3, <2>4, <2>5 DEF Inv
<1> QED  BY <1>1, <1>2, <1>3, <1>4, <1>5, <1>6 DEF Next

---------------------------------------------------------------------------
(* OwnInv as a count *)
LEMMA OwnerCount ==
  ASSUME Inv
  PROVE  OneOwner
<1> SUFFICES ASSUME NEW i \in Item
             PROVE  queue[i] + Cardinality({s \in Syncer : i \in sync[s].batch})
                      = IF Data(i) = <<>> THEN 0 ELSE 1
  BY DEF OneOwner
<1> DEFINE O == {s \in Syncer : i \in sync[s].batch}
<1>1. queue[i] \in {0, 1}
  BY DEF Inv, TypeInv
<1>2. CASE queue[i] = 1
  <2>1. O = {} /\ Data(i) # <<>>
    BY <1>2 DEF Inv, OwnInv, Holds
  <2>2. Cardinality(O) = 0
    BY <2>1, FS_EmptySet
  <2> QED  BY <1>2, <2>1, <2>2
<1>3. CASE queue[i] = 0 /\ O = {}
  <2>1. Data(i) = <<>>
    BY <1>3 DEF Inv, OwnInv, Holds
  <2>2. Cardinality(O) = 0
    BY <1>3, FS_EmptySet
  <2> QED  BY <1>3, <2>1, <2>2
<1>4. CASE queue[i] = 0 /\ O # {}
  <2>1. PICK s \in Syncer : i \in sync[s].batch
    BY <1>4
  <2>2. O = {s} /\ Data(i) # <<>>
    BY <2>1 DEF Inv, OwnInv, Holds
  <2>3. Cardinality({s}) = 1
    BY FS_Singleton
  <2>4. Cardinality(O) = 1
    BY <2>2, <2>3, Zenon
  <2> QED  BY <1>4, <2>2, <2>4
<1> QED  BY <1>1, <1>2, <1>3, <1>4

(* The inductive invariant holds in every state. *)
THEOREM HistoryInvariant == Spec => []Inv
<1>1. Init => Inv
  BY InitInv
<1>2. Inv /\ [Next]_vars => Inv'
  BY NextInv
<1> QED  BY <1>1, <1>2, PTL DEF Spec

(* For every set of items, syncers and flushers, and any number of crashes,  *)
(* clears and configuration changes, an item with records is queued once or  *)
(* in one batch, and an item without records is in neither                   *)
(* (zbx_hc_pop_items, zbx_hc_push_items, hc_add_item_values).                *)
THEOREM ItemsOwnedOnce == Spec => []OneOwner
<1>1. Inv => OneOwner
  BY OwnerCount
<1> QED  BY <1>1, HistoryInvariant, PTL

(* The record that a syncer has read without a lock stays the oldest one of *)
(* its item until the batch is pushed (zbx_hc_get_item_values).             *)
THEOREM ReadsStay == Spec => []ReadStable
<1>1. Inv => ReadStable
  BY DEF Inv
<1> QED  BY <1>1, HistoryInvariant, PTL

(* Two syncers never recalculate a trigger at the same time, unless it was *)
(* enabled or disabled meanwhile                                           *)
(* (zbx_dc_config_lock_triggers_by_history_items).                         *)
THEOREM TriggersExclusive == Spec => []TriggerExclusive
<1>1. Inv => TriggerExclusive
  BY DEF Inv, TriggerInv, LocksInv, TriggerExclusive
<1> QED  BY <1>1, HistoryInvariant, PTL

(* The values of an item are written in the order in which they came and    *)
(* once, up to one repetition after the death of a syncer                   *)
(* (zbx_sync_history_cache_server, DCsync_all).                             *)
THEOREM ValuesWrittenOnce == Spec => []WrittenOnce
<1>1. Inv => WrittenOnce
  BY DEF Inv, ItemInv, Ascends, WrittenOnce
<1> QED  BY <1>1, HistoryInvariant, PTL

(* A value that was accepted is in the cache, written, cleared or refused, *)
(* and a server that has ended leaves nothing in the cache (DCsync_all).   *)
THEOREM ValuesKept == Spec => []NoLoss
<1>1. Inv => NoLoss
  BY DEF Inv, ItemInv, ListInv, Present, EndInv, NoLoss
<1> QED  BY <1>1, HistoryInvariant, PTL

(* The metadata of the last record of an item reaches the item, wherever it *)
(* was merged (hc_add_item_values).                                         *)
THEOREM MetadataKept == Spec => []MetaKept
<1>1. Inv => MetaKept
  BY HistoryCacheAssumption DEF Inv, ItemInv, ListInv, MetaOf, MetaKept
<1> QED  BY <1>1, HistoryInvariant, PTL

(* ---- the number of records ---- *)

Lengths(c) == [i \in Item |-> Len(DataIn(c, i))]
Total(c) == SumFunctionOnSet(Lengths(c), Item)

\* The lists of the cache can be counted.
LEMMA LengthsType ==
  ASSUME NEW c \in Caches
  PROVE  \A i \in Item : DataIn(c, i) \in Seq(Records) /\ Lengths(c)[i] \in Nat
<1> SUFFICES ASSUME NEW i \in Item
             PROVE  DataIn(c, i) \in Seq(Records) /\ Lengths(c)[i] \in Nat
    OBVIOUS
<1>1. <<>> \in Seq(Records)
    OBVIOUS
<1>2. DataIn(c, i) \in Seq(Records)
    BY <1>1, CachesType DEF DataIn, List
<1>3. Len(DataIn(c, i)) \in Nat
    BY <1>2
<1> QED BY <1>2, <1>3 DEF Lengths

(* The records of a cache are counted by its items or by all items. *)
LEMMA UsedTotal ==
  ASSUME NEW c \in Caches
  PROVE  Used(c) = Total(c) /\ Total(c) \in Nat
<1> DEFINE f == [i \in DOMAIN c |-> Len(c[i].data)]
<1>1. DOMAIN c \in SUBSET Item /\ IsFiniteSet(Item)
    BY CachesType, HistoryCacheAssumption
<1>2. \A i \in Item : Lengths(c)[i] \in Nat
    BY LengthsType
<1>3. \A i \in Item : Lengths(c)[i] = IF i \in DOMAIN c THEN f[i] ELSE 0
    BY DEF Lengths, DataIn
<1>4. \A i \in DOMAIN c : f[i] \in Int
    BY <1>1, <1>2, <1>3
<1>5. SumFunctionOnSet(Lengths(c), Item) = SumFunctionOnSet(f, DOMAIN c)
  <2> HIDE DEF f
  <2> QED BY <1>1, <1>3, <1>4, SumExtended
<1>6. Used(c) = SumFunctionOnSet(f, DOMAIN c)
    BY DEF Used, SumFunction
<1>7. Total(c) \in Nat
    BY <1>1, <1>2, SumNat DEF Total
<1> QED BY <1>5, <1>6, <1>7 DEF Total

(* Two caches with the same lists have the same number of records. *)
LEMMA SameLists ==
  ASSUME NEW c \in Caches, NEW d \in Caches, \A i \in Item : DataIn(d, i) = DataIn(c, i)
  PROVE  Used(d) = Used(c) /\ Used(c) \in Nat
<1>1. Lengths(d) = Lengths(c)
    BY DEF Lengths
<1> QED BY <1>1, UsedTotal DEF Total

(* One list is longer than before. *)
LEMMA OneLonger ==
  ASSUME NEW c \in Caches, NEW d \in Caches, NEW i \in Item,
         \A j \in Item : j # i => DataIn(d, j) = DataIn(c, j),
         Len(DataIn(d, i)) = Len(DataIn(c, i)) + 1
  PROVE  Used(d) = Used(c) + 1 /\ Used(c) \in Nat
<1>1. IsFiniteSet(Item)
    BY HistoryCacheAssumption
<1>2. \A j \in Item : Lengths(c)[j] \in Nat
    BY LengthsType
<1>3. \A j \in Item : j # i => Lengths(d)[j] = Lengths(c)[j]
    BY DEF Lengths
<1>4. Lengths(d)[i] = Lengths(c)[i] + 1
    BY DEF Lengths
<1>5. \A j \in Item : Lengths(c)[j] \in Int
    BY <1>2
<1>6. Lengths(d)[i] \in Int
    BY <1>2, <1>4
<1>7. SumFunctionOnSet(Lengths(d), Item)
        = SumFunctionOnSet(Lengths(c), Item) - Lengths(c)[i] + Lengths(d)[i]
    BY <1>1, <1>3, <1>5, <1>6, SumChanged
<1>8. Used(c) = Total(c) /\ Total(c) \in Nat /\ Used(d) = Total(d)
    BY UsedTotal
<1>9. Total(d) = Total(c) - Lengths(c)[i] + (Lengths(c)[i] + 1)
    BY <1>4, <1>7 DEF Total
<1>10. Lengths(c)[i] \in Nat
    BY <1>2
<1> QED BY <1>8, <1>9, <1>10

(* No list is longer than before. *)
LEMMA NoneLonger ==
  ASSUME NEW c \in Caches, NEW d \in Caches,
         \A i \in Item : Len(DataIn(d, i)) <= Len(DataIn(c, i))
  PROVE  Used(d) <= Used(c) /\ Used(c) \in Nat /\ Used(d) \in Nat
<1> DEFINE cut == [i \in Item |-> Lengths(c)[i] - Lengths(d)[i]]
<1>1. IsFiniteSet(Item)
    BY HistoryCacheAssumption
<1>2. \A i \in Item : Lengths(c)[i] \in Nat /\ Lengths(d)[i] \in Nat
    BY LengthsType
<1>3. \A i \in Item : Lengths(d)[i] <= Lengths(c)[i]
    BY DEF Lengths
<1>4. \A i \in Item : cut[i] \in Nat /\ Lengths(c)[i] = Lengths(d)[i] + cut[i]
    BY <1>2, <1>3
<1> HIDE DEF cut
<1>5. SumFunctionOnSet(cut, Item) \in Nat
    BY <1>1, <1>4, SumNat
<1>6. Total(c) = Total(d) + SumFunctionOnSet(cut, Item)
  <2>1. \A i \in Item : /\ Lengths(d)[i] \in Int /\ cut[i] \in Int
                        /\ Lengths(c)[i] = Lengths(d)[i] + cut[i]
      BY <1>2, <1>4
  <2> QED BY <1>1, <2>1, SumPlus DEF Total
<1>7. /\ Used(c) = Total(c) /\ Total(c) \in Nat
      /\ Used(d) = Total(d) /\ Total(d) \in Nat
    BY UsedTotal
<1> QED BY <1>5, <1>6, <1>7

-----------------------------------------------------------------------------
(* adding records *)

\* A record that is inserted takes a place.
LEMMA InsertUsed ==
  ASSUME NEW st, Good(st), NEW r \in Update, NEW n, n = Insert(st, r, Known(st, r))
  PROVE  Used(n.cache) = Used(st.cache) + 1 /\ n.drift = st.drift /\ Used(st.cache) \in Nat
<1>1. st \in Stores /\ r.item \in Item
    BY DEF Good, Update
<1>2. st.queue[r.item] = 1 => DataIn(st.cache, r.item) # <<>>
    BY <1>1 DEF Good, QueuedIn
<1>3. /\ n \in Stores
      /\ DataIn(n.cache, r.item) = Append(DataIn(st.cache, r.item), Record(st, r))
      /\ \A i \in Item \ {r.item} : DataIn(n.cache, i) = DataIn(st.cache, i)
    BY <1>1, <1>2, InsertedLists
<1>4. st.cache \in Caches /\ n.cache \in Caches
    BY <1>1, <1>3 DEF Stores
<1>5. DataIn(st.cache, r.item) \in Seq(Records)
    BY <1>1, <1>4, LengthsType
<1>6. Len(DataIn(n.cache, r.item)) = Len(DataIn(st.cache, r.item)) + 1
    BY <1>3, <1>5
<1>7. n.drift = st.drift
  <2>1. Count(st, r).drift = st.drift /\ Count(st, r) \in Stores
      BY <1>1, CountedStore
  <2>2. n.drift = Count(st, r).drift
      BY <2>1 DEF Insert, Stores
  <2> QED BY <2>1, <2>2
<1> QED BY <1>1, <1>3, <1>4, <1>6, <1>7, OneLonger

\* A value that is merged takes no place; drift counts it.
LEMMA MergeUsed ==
  ASSUME TypeInv, NEW st, Good(st), NEW r \in Update, Merges(st, r)
  PROVE  /\ Used(Merge(st, r).cache) = Used(st.cache) /\ Used(st.cache) \in Nat
         /\ Merge(st, r).drift = st.drift + 1
<1> DEFINE n == Merge(st, r)
           i0 == r.item
           d == DataIn(st.cache, i0)
           e == MergedList(i0, d, st.accepted[i0])
           c2 == [st.cache EXCEPT ![i0].data = e]
<1>1. st \in Stores /\ i0 \in Item /\ i0 \in DOMAIN st.cache /\ ~r.val
    BY DEF Good, Update, Merges
<1>2. /\ st.cache \in Caches /\ st.drift \in Int /\ st.queue \in [Item -> {0, 1}]
      /\ st.accepted \in [Item -> Nat] /\ st.value \in [Item -> SUBSET Nat]
    BY <1>1 DEF Stores
<1>3. DOMAIN st.cache \subseteq Item /\ \A i \in DOMAIN st.cache : st.cache[i] \in List
    BY <1>2, CachesType
<1>4. d = st.cache[i0].data /\ d \in Seq(Records) /\ Len(d) > 1
    BY <1>1, <1>3 DEF DataIn, List, Merges
<1>5. /\ Count(st, r) \in Stores /\ Count(st, r).cache = st.cache
      /\ Count(st, r).drift = st.drift
      /\ i0 \in LogItem => Record(st, r).meta = st.accepted[i0] + 1
    BY <1>1, CountedStore
<1>6. n = [Count(st, r) EXCEPT !.cache = c2, !.drift = @ + 1]
    BY <1>1, <1>2, <1>4, <1>5 DEF Merge, Stores, MergedList
<1>7. n.cache = c2 /\ n.drift = st.drift + 1
    BY <1>5, <1>6 DEF Stores
<1>8. Len(e) = Len(d)
    BY <1>4 DEF MergedList
<1>9. n.cache \in Caches
  <2>1. Good(n)
      BY MergeGood
  <2> QED BY <2>1 DEF Good, Stores
<1>10. DOMAIN c2 = DOMAIN st.cache /\ c2[i0].data = e
       /\ \A i \in DOMAIN c2 : i # i0 => c2[i] = st.cache[i]
    BY <1>1, <1>3 DEF List
<1> HIDE DEF e, c2, n
<1>11. \A i \in Item : Len(DataIn(n.cache, i)) = Len(DataIn(st.cache, i))
    BY <1>1, <1>4, <1>7, <1>8, <1>10 DEF DataIn
<1>12. Lengths(n.cache) = Lengths(st.cache)
    BY <1>11 DEF Lengths
<1>13. Used(n.cache) = Used(st.cache) /\ Used(st.cache) \in Nat
    BY <1>2, <1>9, <1>12, UsedTotal DEF Total
<1> QED BY <1>7, <1>13 DEF n

(* b has k records more than a, or counts them as merged. *)
Balanced(a, b, k) ==
  /\ Used(b.cache) \in Nat /\ b.drift \in Int /\ Used(b.cache) <= Capacity
  /\ Used(b.cache) + b.drift = Used(a.cache) + a.drift + k

\* Adding one value after k others adds k + 1.
LEMMA BalancedMore ==
  ASSUME NEW k \in Nat, NEW a, Used(a.cache) \in Nat, a.drift \in Int,
         NEW p, Balanced(a, p, k), NEW n,
         \/ Used(n.cache) = Used(p.cache) /\ n.drift = p.drift + 1
         \/ Used(n.cache) = Used(p.cache) + 1 /\ n.drift = p.drift /\ Used(p.cache) < Capacity
  PROVE  Balanced(a, n, k + 1)
<1> DEFINE u == Used(p.cache)
           v == p.drift
           x == Used(a.cache)
           y == a.drift
<1>1. /\ u \in Nat /\ v \in Int /\ x \in Nat /\ y \in Int
      /\ u + v = x + y + k /\ u <= Capacity /\ Capacity \in Nat
    BY HistoryCacheAssumption DEF Balanced
<1>2. \/ Used(n.cache) = u /\ n.drift = v + 1
      \/ Used(n.cache) = u + 1 /\ n.drift = v /\ u < Capacity
    OBVIOUS
<1> HIDE DEF u, v, x, y
<1>3. u + (v + 1) = x + y + (k + 1) /\ (u + 1) + v = x + y + (k + 1)
    BY <1>1
<1>4. v + 1 \in Int /\ u + 1 \in Nat /\ (u < Capacity => u + 1 <= Capacity)
    BY <1>1
<1> QED BY <1>1, <1>2, <1>3, <1>4 DEF Balanced, x, y

\* A batch adds to the places taken and to drift what it reports as added.
LEMMA AbsorbUsed ==
  ASSUME TypeInv, NEW start, Good(start), NEW records \in Seq(Update),
         Used(start.cache) <= Capacity
  PROVE  Balanced(start, Absorb(start, records).st, Absorb(start, records).added)
<1> DEFINE len == Len(records)
           step == CHOOSE f : Added1(start, records, len, f)
<1>1. Added1(start, records, len, step)
  BY AbsorbExists
<1>2. Absorb(start, records) = step[len]
  BY Zenon DEF Absorb, Added1
<1>3. len \in Nat /\ \A k \in 1 .. len : records[k] \in Update
  OBVIOUS
<1> HIDE DEF step, len
<1> DEFINE S == {k \in Nat : k <= len =>
                   /\ Good(step[k].st) /\ step[k].added \in 0 .. k
                   /\ Balanced(start, step[k].st, step[k].added)}
<1>4. 0 \in S
  <2>1. step[0] = [st |-> start, added |-> 0]
    BY <1>1, <1>3 DEF Added1
  <2>2. start.cache \in Caches /\ start.drift \in Int
    BY DEF Good, Stores
  <2>3. Used(start.cache) \in Nat
    BY <2>2, UsedTotal
  <2>4. Balanced(start, start, 0)
    BY <2>2, <2>3 DEF Balanced
  <2> QED  BY <2>1, <2>4
<1>5. ASSUME NEW k \in S PROVE k + 1 \in S
  <2> SUFFICES ASSUME k + 1 <= len
               PROVE  /\ Good(step[k + 1].st) /\ step[k + 1].added \in 0 .. k + 1
                      /\ Balanced(start, step[k + 1].st, step[k + 1].added)
    OBVIOUS
  <2> DEFINE p == step[k]
             r == records[k + 1]
  <2>1. k \in Nat /\ Good(p.st) /\ p.added \in 0 .. k /\ Balanced(start, p.st, p.added)
    BY <1>3
  <2>2. k + 1 \in 0 .. len /\ k + 1 # 0 /\ (k + 1) - 1 = k /\ k + 1 \in 1 .. len
    BY <1>3, <2>1
  <2>3. step[k + 1] = AddOne(p, k + 1, r)
    BY <1>1, <2>2 DEF Added1
  <2>4. r \in Update
    BY <1>3, <2>2
  <2> HIDE DEF p, r, S
  <2>5. \/ AddOne(p, k + 1, r) = p
        \/ /\ Merges(p.st, r) /\ p.added >= k
           /\ AddOne(p, k + 1, r) = [st |-> Merge(p.st, r), added |-> k + 1]
        \/ /\ Used(p.st.cache) < Capacity /\ p.added >= k
           /\ AddOne(p, k + 1, r) = [st |-> Insert(p.st, r, Known(p.st, r)), added |-> k + 1]
    BY <2>1 DEF AddOne
  <2>6. 0 .. k \subseteq 0 .. k + 1 /\ k + 1 \in 0 .. k + 1
    BY <2>1
  <2>7. CASE AddOne(p, k + 1, r) = p
    BY <2>1, <2>3, <2>6, <2>7
  <2>8. p.st.drift \in Int /\ Used(p.st.cache) \in Nat /\ start.drift \in Int
        /\ Used(start.cache) \in Nat /\ Capacity \in Nat
    <3>1. start.cache \in Caches /\ start.drift \in Int
      BY DEF Good, Stores
    <3> QED BY <2>1, <3>1, UsedTotal, HistoryCacheAssumption DEF Balanced
  <2>9. CASE /\ Merges(p.st, r) /\ p.added >= k
             /\ AddOne(p, k + 1, r) = [st |-> Merge(p.st, r), added |-> k + 1]
    <3>1. Good(Merge(p.st, r))
      BY <2>1, <2>4, <2>9, MergeGood
    <3>2. /\ Used(Merge(p.st, r).cache) = Used(p.st.cache)
          /\ Merge(p.st, r).drift = p.st.drift + 1
      BY <2>1, <2>4, <2>9, MergeUsed
    <3>3. p.added = k
      BY <2>1, <2>9
    <3>4. Balanced(start, Merge(p.st, r), k + 1)
      BY <2>1, <2>8, <3>2, <3>3, BalancedMore
    <3> QED BY <2>3, <2>6, <2>9, <3>1, <3>4
  <2>10. CASE /\ Used(p.st.cache) < Capacity /\ p.added >= k
              /\ AddOne(p, k + 1, r) = [st |-> Insert(p.st, r, Known(p.st, r)), added |-> k + 1]
    <3> DEFINE n == Insert(p.st, r, Known(p.st, r))
    <3>1. Good(n)
      BY <2>1, <2>4, InsertGood
    <3>2. Used(n.cache) = Used(p.st.cache) + 1 /\ n.drift = p.st.drift
      BY <2>1, <2>4, InsertUsed
    <3>3. p.added = k
      BY <2>1, <2>10
    <3> HIDE DEF n
    <3>4. Balanced(start, n, k + 1)
      BY <2>1, <2>8, <2>10, <3>2, <3>3, BalancedMore
    <3> QED BY <2>3, <2>6, <2>10, <3>1, <3>4 DEF n
  <2> QED  BY <2>5, <2>7, <2>9, <2>10
<1>6. S = Nat
  <2> HIDE DEF S
  <2>1. S \subseteq Nat
    BY DEF S
  <2> QED  BY <1>4, <1>5, <2>1, NatSetInduction
<1>7. len \in S
  <2> HIDE DEF S
  <2> QED  BY <1>3, <1>6
<1>8. Balanced(start, step[len].st, step[len].added)
  BY <1>3, <1>7
<1> QED  BY <1>2, <1>8

-----------------------------------------------------------------------------
(* records that leave the cache *)

\* Records that leave the cache give up their places.
LEMMA ClearedUsed ==
  ASSUME NEW c \in Caches, NEW S, Cleared(c, S) \in Caches
  PROVE  Used(Cleared(c, S)) <= Used(c) /\ Used(c) \in Nat /\ Used(Cleared(c, S)) \in Nat
<1>1. DOMAIN c \subseteq Item /\ \A i \in DOMAIN c : c[i] \in List
    BY CachesType
<1>2. \A i \in Item : Len(DataIn(Cleared(c, S), i)) <= Len(DataIn(c, i))
  <2> SUFFICES ASSUME NEW i \in Item
               PROVE  Len(DataIn(Cleared(c, S), i)) <= Len(DataIn(c, i))
      OBVIOUS
  <2>1. Len(DataIn(c, i)) \in Nat
      BY LengthsType
  <2>2. CASE i \notin DOMAIN c \/ i \notin S
      BY <2>1, <2>2 DEF Cleared, DataIn
  <2>3. CASE i \in DOMAIN c /\ i \in S
    <3>1. c[i] \in List /\ c[i].data \in Seq(Records)
        BY <1>1, <2>3 DEF List
    <3>2. Len(ClearMiddle(c[i]).data) <= Len(c[i].data)
      <4>1. CASE Len(c[i].data) = 0
          BY <4>1 DEF ClearMiddle
      <4>2. CASE Len(c[i].data) = 1
        <5>1. ClearMiddle(c[i]) = [c[i] EXCEPT !.keep = FALSE]
            BY <4>2 DEF ClearMiddle
        <5>2. ClearMiddle(c[i]).data = c[i].data
            BY <3>1, <5>1 DEF List
        <5>3. Len(ClearMiddle(c[i]).data) = 1
            BY <4>2, <5>2
        <5> QED BY <4>2, <5>3
      <4>3. CASE Len(c[i].data) \notin {0, 1}
        <5>1. ClearMiddle(c[i]).data = <<c[i].data[1], c[i].data[Len(c[i].data)]>>
            BY <3>1, <4>3 DEF ClearMiddle, List
        <5>2. Len(c[i].data) \in Nat
            BY <3>1
        <5>3. Len(c[i].data) >= 2
          <6>1. \A n \in Nat : n \notin {0, 1} => n >= 2
              OBVIOUS
          <6> QED BY <4>3, <5>2, <6>1
        <5>4. \A x, y : Len(<<x, y>>) = 2
            OBVIOUS
        <5> QED BY <5>1, <5>3, <5>4
      <4> QED BY <4>1, <4>2, <4>3
    <3> QED BY <2>3, <3>2 DEF Cleared, DataIn
  <2> QED BY <2>2, <2>3
<1> QED BY <1>2, NoneLonger

(* zbx_hc_push_items: history_num loses what the lists lose. *)
LEMMA PushedUsed ==
  ASSUME NEW c \in Caches, NEW B \in SUBSET DOMAIN c, \A i \in B : c[i].data # <<>>
  PROVE  /\ Used(Pushed(c, B)) = Used(c) - CutByPush(c, B)
         /\ Used(c) \in Nat /\ Used(Pushed(c, B)) \in Nat /\ CutByPush(c, B) \in Nat
<1> DEFINE p == Pushed(c, B)
           A == Available(c, B)
           R == Removed(c, B)
           one == [i \in Item |-> IF i \in A THEN 1 ELSE 0]
           left == [i \in R |-> Len(c[i].data) - 1]
           rest == [i \in Item |-> IF i \in R THEN Len(c[i].data) - 1 ELSE 0]
           cut == [i \in Item |-> one[i] + rest[i]]
<1>1. DOMAIN c \subseteq Item /\ \A i \in DOMAIN c : c[i] \in List
    BY CachesType
<1>2. A \subseteq B /\ R \subseteq A /\ A \subseteq Item /\ \A i \in B : i \in A <=> ~c[i].busy
    BY <1>1 DEF Available, Removed
<1>3. IsFiniteSet(Item) /\ IsFiniteSet(A) /\ IsFiniteSet(R)
    BY <1>2, HistoryCacheAssumption, FS_Subset
<1>4. p \in Caches
    BY PushedLists
<1>5. \A i \in Item : Lengths(c)[i] \in Nat /\ Lengths(p)[i] \in Nat
    BY <1>4, LengthsType
<1>6. \A i \in R : Len(c[i].data) - 1 \in Nat
  <2> SUFFICES ASSUME NEW i \in R PROVE Len(c[i].data) - 1 \in Nat
      OBVIOUS
  <2>1. c[i].data \in Seq(Records) /\ c[i].data # <<>>
      BY <1>1, <1>2 DEF List
  <2> QED BY <2>1
<1>7. \A i \in Item : /\ one[i] \in Nat /\ rest[i] \in Nat /\ cut[i] = one[i] + rest[i]
                      /\ cut[i] \in Nat
  <2>1. \A i \in Item : one[i] \in Nat /\ rest[i] \in Nat
      BY <1>6
  <2>2. \A i \in Item : cut[i] = one[i] + rest[i]
      OBVIOUS
  <2> HIDE DEF one, rest, cut
  <2> QED BY <2>1, <2>2
<1>8. \A i \in Item : Lengths(c)[i] = Lengths(p)[i] + cut[i]
  <2> SUFFICES ASSUME NEW i \in Item PROVE Lengths(c)[i] = Lengths(p)[i] + cut[i]
      OBVIOUS
  <2>1. Lengths(c)[i] = Len(DataIn(c, i)) /\ Lengths(p)[i] = Len(DataIn(p, i))
      BY DEF Lengths
  <2>2. Lengths(c)[i] \in Nat /\ Lengths(p)[i] \in Nat
      BY <1>5
  <2>3. CASE i \in R
    <3>1. i \in DOMAIN c /\ i \notin DOMAIN p
        BY <1>2, <2>3 DEF Pushed
    <3>2. Lengths(p)[i] = 0 /\ Lengths(c)[i] = Len(c[i].data)
        BY <2>1, <3>1 DEF DataIn
    <3>3. cut[i] = 1 + (Len(c[i].data) - 1)
        BY <1>2, <2>3
    <3> HIDE DEF cut
    <3> QED BY <2>2, <3>2, <3>3
  <2>4. CASE i \in A \ R
    <3>1. i \in B /\ ~c[i].busy /\ i \in DOMAIN p /\ p[i] = PushItem(c[i])
        BY <1>2, <2>4 DEF Pushed
    <3>2. c[i].data \in Seq(Records) /\ c[i].data # <<>> /\ c[i] \in List
        BY <1>1, <3>1 DEF List
    <3>3. p[i].data = Tail(c[i].data)
        BY <3>1, <3>2 DEF PushItem, List
    <3>4. Len(Tail(c[i].data)) = Len(c[i].data) - 1
        BY <3>2
    <3>5. cut[i] = 1
        BY <2>4
    <3> HIDE DEF cut, p
    <3> QED BY <2>1, <2>2, <3>1, <3>3, <3>4, <3>5 DEF DataIn
  <2>5. CASE i \notin A
    <3>1. cut[i] = 0
        BY <1>2, <2>5
    <3>2. DataIn(p, i) = DataIn(c, i)
        BY <1>2, <2>5, PushedLists DEF DataIn
    <3> HIDE DEF cut, p
    <3> QED BY <2>1, <2>2, <3>1, <3>2
  <2> QED BY <2>3, <2>4, <2>5
<1>9. SumFunctionOnSet(one, Item) = Cardinality(A)
  <2> DEFINE ones == [i \in A |-> 1]
  <2>1. SumFunctionOnSet(ones, A) = Cardinality(A)
      BY <1>3, SumOfOnes
  <2>2. \A i \in Item : one[i] = IF i \in A THEN ones[i] ELSE 0
      OBVIOUS
  <2>3. \A i \in A : ones[i] \in Int
      OBVIOUS
  <2> HIDE DEF ones, one
  <2> QED BY <1>2, <1>3, <2>1, <2>2, <2>3, SumExtended
<1>10. SumFunctionOnSet(rest, Item) = SumFunctionOnSet(left, R)
  <2>1. \A i \in Item : rest[i] = IF i \in R THEN left[i] ELSE 0
      OBVIOUS
  <2>2. \A i \in R : left[i] \in Int
      BY <1>6
  <2>3. R \subseteq Item
      BY <1>2
  <2> HIDE DEF left, rest, R
  <2> QED BY <1>3, <2>1, <2>2, <2>3, SumExtended
<1>11. CutByPush(c, B) = Cardinality(A) + SumFunctionOnSet(left, R)
    BY DEF CutByPush, SumFunction
<1> HIDE DEF one, rest, left, cut, p, A, R
<1>12. SumFunctionOnSet(cut, Item) = CutByPush(c, B)
  <2>1. \A i \in Item : one[i] \in Int /\ rest[i] \in Int /\ cut[i] = one[i] + rest[i]
      BY <1>7
  <2>2. SumFunctionOnSet(cut, Item) = SumFunctionOnSet(one, Item) + SumFunctionOnSet(rest, Item)
      BY <1>3, <2>1, SumPlus
  <2> QED BY <1>9, <1>10, <1>11, <2>2
<1>13. SumFunctionOnSet(cut, Item) \in Nat
    BY <1>3, <1>7, SumNat
<1>14. Total(c) = Total(p) + SumFunctionOnSet(cut, Item)
  <2>1. \A i \in Item : /\ Lengths(p)[i] \in Int /\ cut[i] \in Int
                        /\ Lengths(c)[i] = Lengths(p)[i] + cut[i]
      BY <1>5, <1>7, <1>8
  <2> QED BY <1>3, <2>1, SumPlus DEF Total
<1>15. Used(c) = Total(c) /\ Total(c) \in Nat /\ Used(p) = Total(p) /\ Total(p) \in Nat
    BY <1>4, UsedTotal
<1> QED BY <1>12, <1>13, <1>14, <1>15 DEF p

-----------------------------------------------------------------------------
(* The counter and the bound of the cache. *)

Waiting == SumFunction([f \in Flusher |-> flush[f].added])
Counts ==
  /\ historyNum \in Int /\ Used(cache) <= Capacity /\ CounterTrue
  /\ \A f \in Flusher : flush[f].pc # "waiting" => flush[f].added = 0
(* the parts of the types that no other proof needs *)
SmallTypes ==
  /\ locked \subseteq Trigger /\ enabled \subseteq Trigger /\ toggled \subseteq Trigger
  /\ main \in {"run", "stop", "shutdown", "sync", "end"} /\ clears \in Nat

\* The values that flushers added and have not yet counted can be counted.
LEMMA WaitingType ==
  ASSUME TypeInv
  PROVE  Waiting \in Nat
<1> DEFINE g == [f \in Flusher |-> flush[f].added]
<1>1. \A f \in Flusher : g[f] \in Nat
    BY DEF TypeInv, FlusherState
<1> HIDE DEF g
<1>2. SumFunctionOnSet(g, Flusher) \in Nat
    BY <1>1, SumNat, HistoryCacheAssumption
<1>3. DOMAIN g = Flusher
    BY DEF g
<1> QED BY <1>2, <1>3 DEF Waiting, SumFunction, g

(* One process starts or ends to wait for room. *)
LEMMA WaitingChanged ==
  ASSUME TypeInv, TypeInv', NEW f \in Flusher,
         \A x \in Flusher : x # f => flush'[x] = flush[x]
  PROVE  Waiting' = Waiting - flush[f].added + flush'[f].added
<1> DEFINE g == [x \in Flusher |-> flush[x].added]
           h == [x \in Flusher |-> flush'[x].added]
<1>1. \A x \in Flusher : g[x] \in Int /\ h[x] \in Int
    BY DEF TypeInv, FlusherState
<1>2. \A x \in Flusher : x # f => h[x] = g[x]
    OBVIOUS
<1>3. DOMAIN g = Flusher /\ DOMAIN h = Flusher
      /\ g[f] = flush[f].added /\ h[f] = flush'[f].added
    OBVIOUS
<1>4. Waiting = SumFunctionOnSet(g, Flusher) /\ Waiting' = SumFunctionOnSet(h, Flusher)
    BY <1>3 DEF Waiting, SumFunction
<1> HIDE DEF g, h
<1>5. SumFunctionOnSet(h, Flusher) = SumFunctionOnSet(g, Flusher) - g[f] + h[f]
  <2>1. IsFiniteSet(Flusher)
      BY HistoryCacheAssumption
  <2>2. \A x \in Flusher : g[x] \in Int
      BY <1>1
  <2>3. h[f] \in Int
      BY <1>1
  <2> QED BY <1>2, <2>1, <2>2, <2>3, SumChanged
<1> QED BY <1>3, <1>4, <1>5

\* What CounterTrue adds up are numbers.
LEMMA CountTypes ==
  ASSUME TypeInv
  PROVE  /\ cache \in Caches /\ Used(cache) \in Nat /\ Waiting \in Nat
         /\ drift \in Int /\ Capacity \in Nat
BY UsedTotal, WaitingType, HistoryCacheAssumption DEF TypeInv

(* No record comes or goes. *)
LEMMA SameCounts ==
  ASSUME TypeInv, TypeInv', Counts, UNCHANGED <<historyNum, flush, drift>>,
         \A i \in Item : Data(i)' = Data(i)
  PROVE  Counts'
<1>1. cache \in Caches /\ cache' \in Caches
    BY DEF TypeInv
<1>2. \A i \in Item : DataIn(cache', i) = DataIn(cache, i)
    BY DEF Data, DataIn
<1>3. Used(cache') = Used(cache)
    BY <1>1, <1>2, SameLists
<1> QED BY <1>3 DEF Counts, CounterTrue

(* Records leave the cache and are taken off the counter. *)
LEMMA LessCounts ==
  ASSUME TypeInv, TypeInv', Counts, UNCHANGED <<flush, drift>>,
         NEW k \in Nat, historyNum' = historyNum - k, Used(cache') = Used(cache) - k
  PROVE  Counts'
<1>1. /\ Used(cache) \in Nat /\ Waiting \in Nat /\ drift \in Int /\ Capacity \in Nat
      /\ historyNum \in Int /\ Used(cache) <= Capacity
      /\ historyNum + Waiting = Used(cache) + drift
    BY CountTypes DEF Counts, CounterTrue, Waiting
<1>2. Waiting' = Waiting /\ drift' = drift
    BY DEF Waiting
<1>3. historyNum' + Waiting' = Used(cache') + drift'
    BY <1>1, <1>2
<1>4. historyNum' \in Int /\ Used(cache') <= Capacity
    BY <1>1
<1> QED BY <1>3, <1>4 DEF Counts, CounterTrue, Waiting

(* zbx_dc_flush_history *)
LEMMA AddedCounts ==
  ASSUME TypeInv, TypeInv', Counts, NEW f \in Flusher, NEW before \in Nat,
         NEW records \in Seq(Update), NEW start, Good(start),
         Used(start.cache) <= Capacity,
         Used(start.cache) + start.drift = Used(cache) + drift + (before - flush[f].added),
         NEW result, result = Absorb(start, records), Added(f, before, records, result)
  PROVE  Counts'
<1>1. Balanced(start, result.st, result.added) /\ result.added \in 0 .. Len(records)
    BY AbsorbUsed, AbsorbGood
<1> DEFINE n == result.added
           left == Len(records) - n
<1>2. n \in Nat /\ Len(records) \in Nat /\ left \in Int
    BY <1>1
<1>3. /\ cache' = result.st.cache /\ drift' = result.st.drift
    BY DEF Added
<1>4. \/ /\ flush' = [flush EXCEPT ![f] = IdleFlusher]
         /\ historyNum' = historyNum + (before + n)
      \/ /\ flush' = [flush EXCEPT ![f] =
                 [pc |-> "waiting", added |-> before + n,
                  todo |-> SubSeq(records, n + 1, Len(records))]]
         /\ historyNum' = historyNum
    BY DEF Added
<1>5. DOMAIN flush = Flusher
    BY DEF TypeInv
<1>6. /\ \A x \in Flusher : x # f => flush'[x] = flush[x]
      /\ \/ flush'[f] = IdleFlusher /\ historyNum' = historyNum + (before + n)
         \/ /\ flush'[f].added = before + n /\ flush'[f].pc = "waiting"
            /\ historyNum' = historyNum
    BY <1>4, <1>5
<1> HIDE DEF n, left
<1>7. \/ flush'[f].added = 0 /\ historyNum' = historyNum + (before + n)
      \/ flush'[f].added = before + n /\ historyNum' = historyNum
    BY <1>6 DEF IdleFlusher
<1>8. \A x \in Flusher : flush'[x].pc # "waiting" => flush'[x].added = 0
    BY <1>6 DEF Counts, IdleFlusher
<1>9. Waiting' = Waiting - flush[f].added + flush'[f].added
    BY <1>6, WaitingChanged
<1>10. /\ Used(cache) \in Nat /\ Waiting \in Nat /\ drift \in Int /\ historyNum \in Int
       /\ historyNum + Waiting = Used(cache) + drift
       /\ flush[f].added \in Nat
    BY CountTypes DEF Counts, CounterTrue, Waiting, TypeInv, FlusherState
<1>11. /\ Used(cache') <= Capacity /\ Used(cache') \in Nat /\ drift' \in Int
       /\ Used(cache') + drift' = Used(start.cache) + start.drift + n
    BY <1>1, <1>3 DEF Balanced, n
<1> DEFINE sum == Used(start.cache) + start.drift
<1>12. sum = Used(cache) + drift + (before - flush[f].added)
       /\ Used(cache') + drift' = sum + n
    BY <1>11
<1> HIDE DEF sum
<1>13. historyNum' \in Int
    BY <1>2, <1>7, <1>10
<1> DEFINE u == Used(cache)
           u2 == Used(cache')
           a == flush[f].added
           a2 == flush'[f].added
<1>14. /\ u \in Nat /\ u2 \in Nat /\ a \in Nat /\ drift \in Int /\ drift' \in Int
       /\ historyNum + Waiting = u + drift
       /\ sum = u + drift + (before - a) /\ u2 + drift' = sum + n
       /\ Waiting' = Waiting - a + a2
       /\ \/ a2 = 0 /\ historyNum' = historyNum + (before + n)
          \/ a2 = before + n /\ historyNum' = historyNum
    BY <1>7, <1>9, <1>10, <1>11, <1>12
<1> HIDE DEF u, u2, a, a2
<1>15. historyNum' + Waiting' = u2 + drift'
  <2>1. /\ historyNum \in Int /\ Waiting \in Int /\ before \in Int /\ n \in Int
        /\ u \in Int /\ a \in Int /\ drift \in Int
      BY <1>2, <1>10, <1>14
  <2>2. u2 + drift' = u + drift + (before - a) + n
      BY <1>14
  <2>3. historyNum + Waiting = u + drift
      BY <1>14
  <2>4. CASE a2 = 0 /\ historyNum' = historyNum + (before + n)
    <3>1. Waiting' = Waiting - a
        BY <1>14, <2>1, <2>4
    <3> QED BY <2>1, <2>2, <2>3, <2>4, <3>1
  <2>5. CASE a2 = before + n /\ historyNum' = historyNum
    <3>1. Waiting' = Waiting - a + (before + n)
        BY <1>14, <2>5
    <3> QED BY <2>1, <2>2, <2>3, <2>5, <3>1
  <2> QED BY <1>14, <2>4, <2>5
<1> QED BY <1>8, <1>11, <1>13, <1>15 DEF Counts, CounterTrue, Waiting, u2

\* A flusher that adds values keeps the count.
LEMMA FlushCounts ==
  ASSUME Inv, Inv', Counts, NEW f \in Flusher, Flush(f) \/ FlushRetry(f)
  PROVE  Counts'
<1>1. TypeInv /\ TypeInv'
  BY DEF Inv
<1>2. Good(Store) /\ Store.cache = cache /\ Store.drift = drift
  <2>1. Store \in Stores
    BY <1>1 DEF Store, Stores, TypeInv
  <2>2. /\ Store.cache = cache /\ Store.queue = queue /\ Store.accepted = accepted
        /\ Store.value = value /\ Store.drift = drift
    BY DEF Store
  <2>3. KeepsFirst(cache, cache)
    BY DEF KeepsFirst
  <2>4. ASSUME NEW i \in Item PROVE QueuedIn(Store, i) /\ ItemIn(Store, i) /\ LaterValues(Store, i)
    <3>1. Data(i) = DataIn(Store.cache, i) /\ accepted[i] \in Nat
      BY <1>1, <2>2 DEF Data, DataIn, TypeInv
    <3>2. QueuedIn(Store, i)
      BY <2>2, <3>1 DEF Inv, OwnInv, QueuedIn
    <3>3. ItemIn(Store, i)
      BY <2>2, <3>1 DEF Inv, ItemInv, ItemIn
    <3> QED  BY <2>2, <3>1, <3>2, <3>3 DEF LaterValues
  <2> QED  BY <2>1, <2>2, <2>3, <2>4 DEF Good
<1>3. /\ Used(cache) \in Nat /\ drift \in Int /\ Used(cache) <= Capacity
      /\ flush[f].added \in Nat
  BY <1>1, CountTypes DEF Counts, TypeInv, FlusherState
<1>4. CASE Flush(f)
  <2>1. PICK records \in Batches : Added(f, 0, records, Absorb(Store, records))
    BY <1>4 DEF Flush
  <2>2. records \in Seq(Update)
    <3>1. PICK k \in 1 .. FlushMax : records \in [1 .. k -> Update]
      BY DEF Batches, Update
    <3>2. k \in Nat
      BY <3>1
    <3> QED  BY <3>1, <3>2
  <2>3. flush[f].added = 0
    BY <1>4 DEF Flush, Counts
  <2>4. Used(Store.cache) + Store.drift = Used(cache) + drift + (0 - flush[f].added)
    BY <1>2, <1>3, <2>3
  <2> QED  BY <1>1, <1>2, <1>3, <2>1, <2>2, <2>4, AddedCounts
<1>5. CASE FlushRetry(f)
  <2> DEFINE first == Head(flush[f].todo)
             rest == Tail(flush[f].todo)
             start == Insert(Store, first, Known(Store, first))
  <2>1. /\ flush[f].pc = "waiting" /\ Used(cache) < Capacity
        /\ Added(f, flush[f].added + 1, rest, Absorb(start, rest))
    BY <1>5 DEF FlushRetry
  <2>2. flush[f].added + 1 \in Nat
    BY <1>3
  <2>3. first \in Update /\ rest \in Seq(Update)
    BY <1>1, <2>1, HeadTailProperties DEF TypeInv, FlusherState
  <2>4. Good(start)
    BY <1>1, <1>2, <2>3, InsertGood
  <2>5. Used(start.cache) = Used(cache) + 1 /\ start.drift = drift
    BY <1>2, <2>3, InsertUsed
  <2> HIDE DEF first, rest, start
  <2>6. Used(start.cache) <= Capacity
    BY <1>3, <2>1, <2>5, HistoryCacheAssumption
  <2>7. Used(start.cache) + start.drift
          = Used(cache) + drift + ((flush[f].added + 1) - flush[f].added)
    BY <1>3, <2>5
  <2> QED  BY <1>1, <2>1, <2>2, <2>3, <2>4, <2>6, <2>7, AddedCounts
<1> QED  BY <1>4, <1>5

(* A process that waits for room is killed. *)
LEMMA EndFlusherCounts ==
  ASSUME Inv, Inv', Counts, NEW f \in Flusher, EndFlusher(f)
  PROVE  Counts'
<1>1. TypeInv /\ TypeInv'
  BY DEF Inv
<1>2. /\ flush' = [flush EXCEPT ![f] = [IdleFlusher EXCEPT !.pc = "ended"]]
      /\ drift' = drift - flush[f].added /\ UNCHANGED <<cache, historyNum>>
  BY DEF EndFlusher, shared
<1>3. DOMAIN flush = Flusher
  BY <1>1 DEF TypeInv
<1>4. /\ \A x \in Flusher : x # f => flush'[x] = flush[x]
      /\ flush'[f].added = 0
  BY <1>2, <1>3 DEF IdleFlusher
<1>5. Waiting' = Waiting - flush[f].added + flush'[f].added
  BY <1>1, <1>4, WaitingChanged
<1>6. /\ Used(cache) \in Nat /\ Waiting \in Nat /\ drift \in Int /\ historyNum \in Int
      /\ historyNum + Waiting = Used(cache) + drift /\ flush[f].added \in Nat
  BY <1>1, CountTypes DEF Counts, CounterTrue, Waiting, TypeInv, FlusherState
<1>7. \A x \in Flusher : flush'[x].pc # "waiting" => flush'[x].added = 0
  BY <1>4 DEF Counts
<1> DEFINE u == Used(cache)
           a == flush[f].added
<1>8. /\ u \in Nat /\ a \in Nat /\ historyNum + Waiting = u + drift
      /\ Waiting' = Waiting - a + 0 /\ drift' = drift - a
  BY <1>2, <1>4, <1>5, <1>6
<1> HIDE DEF u, a
<1>9. historyNum + Waiting' = u + drift'
  BY <1>6, <1>8
<1> QED BY <1>2, <1>7, <1>9 DEF Counts, CounterTrue, Waiting, u

-----------------------------------------------------------------------------
(* The steps. *)

\* The list of an item, present in the cache or not.
LEMMA DataOf ==
  ASSUME NEW i
  PROVE  Data(i) = DataIn(cache, i)
BY DEF Data, DataIn

(* steps that leave the cache alone *)
LEMMA QuietCounts ==
  ASSUME Inv, Inv', Counts, UNCHANGED <<cache, historyNum, flush, drift>>
  PROVE  Counts'
<1>1. \A i \in Item : Data(i)' = Data(i)
    BY DEF Data
<1> QED BY <1>1, SameCounts DEF Inv

(* steps that change the flags of items *)
LEMMA FlagCounts ==
  ASSUME Inv, Inv', Counts,
         \/ \E s \in Syncer : LockTriggers(s) \/ PushBusy(s)
         \/ \E i \in Item : RemoveItem(i)
         \/ FullSync
  PROVE  Counts'
<1>1. TypeInv /\ TypeInv' /\ cache \in Caches
    BY DEF Inv, TypeInv
<1>2. DOMAIN cache \subseteq Item /\ \A i \in DOMAIN cache : cache[i] \in List
    BY <1>1, CachesType
<1>3. ASSUME NEW s \in Syncer, LockTriggers(s) PROVE Counts'
  <2>1. PICK r : cache' = [i \in DOMAIN cache |->
                  IF i \in r.busy THEN [cache[i] EXCEPT !.busy = TRUE] ELSE cache[i]]
      BY <1>3 DEF LockTriggers
  <2>2. UNCHANGED <<historyNum, flush, drift>>
      BY <1>3 DEF LockTriggers, fate
  <2>3. \A i \in Item : Data(i)' = Data(i)
      BY <1>2, <2>1 DEF Data, List
  <2> QED BY <1>1, <2>2, <2>3, SameCounts
<1>4. ASSUME NEW s \in Syncer, PushBusy(s) PROVE Counts'
  <2> DEFINE B == sync[s].batch
  <2>1. cache' = Pushed(cache, B) /\ UNCHANGED <<historyNum, flush, drift>>
      BY <1>4 DEF PushBusy, Push, fate
  <2>2. \A i \in B : i \in Item /\ i \in DOMAIN cache /\ cache[i].data # <<>>
      BY <1>1, OwnedData DEF Inv
  <2>3. \A i \in B : cache[i].busy
      BY <1>4 DEF PushBusy, Inv, SyncInv, SyncOf
  <2>4. \A i \in Item : DataIn(Pushed(cache, B), i) = DataIn(cache, i)
    <3> HIDE DEF B
    <3>1. /\ \A i \in Item \ B : DataIn(Pushed(cache, B), i) = DataIn(cache, i)
          /\ \A i \in B : cache[i].busy => DataIn(Pushed(cache, B), i) = cache[i].data
        BY <1>1, <2>2, PushedLists
    <3> QED BY <2>2, <2>3, <3>1 DEF DataIn
  <2>5. \A i \in Item : Data(i)' = Data(i)
      BY <2>1, <2>4 DEF Data, DataIn
  <2> QED BY <1>1, <2>1, <2>5, SameCounts
<1>5. ASSUME NEW i \in Item, RemoveItem(i) PROVE Counts'
  <2>1. cache' = IF Data(i) = <<>> THEN [j \in DOMAIN cache \ {i} |-> cache[j]]
                 ELSE [cache EXCEPT ![i].keep = FALSE]
      BY <1>5 DEF RemoveItem
  <2>2. UNCHANGED <<historyNum, flush, drift>>
      BY <1>5 DEF RemoveItem, fate
  <2>3. CASE Data(i) = <<>>
    <3>1. \A j \in Item : Data(j)' = Data(j)
        BY <2>1, <2>3 DEF Data
    <3> QED BY <1>1, <2>2, <3>1, SameCounts
  <2>4. CASE Data(i) # <<>>
    <3>1. i \in DOMAIN cache
        BY <2>4 DEF Data
    <3>2. cache' = [cache EXCEPT ![i] = [cache[i] EXCEPT !.keep = FALSE]]
        BY <2>1, <2>4
    <3>3. \A j \in Item : Data(j)' = Data(j)
        BY <1>2, <3>1, <3>2 DEF Data, List
    <3> QED BY <1>1, <2>2, <3>3, SameCounts
  <2> QED BY <2>3, <2>4
<1>6. ASSUME FullSync PROVE Counts'
  <2>1. cache' = [i \in DOMAIN cache |->
                    [cache[i] EXCEPT !.busy = @ /\ cache[i].data = <<>>]]
      BY <1>6 DEF FullSync
  <2>2. UNCHANGED <<historyNum, flush, drift>>
      BY <1>6 DEF FullSync, fate
  <2>3. \A i \in Item : Data(i)' = Data(i)
      BY <1>2, <2>1 DEF Data, List
  <2> QED BY <1>1, <2>2, <2>3, SameCounts
<1> QED BY <1>3, <1>4, <1>5, <1>6

(* records that are cleared *)
LEMMA ClearCounts ==
  ASSUME Inv, Inv', Counts,
         NEW off \in SUBSET Item, cache' = Cleared(cache, off),
         historyNum' = historyNum - CutByClear(cache, off), UNCHANGED <<flush, drift>>
  PROVE  Counts'
<1>1. TypeInv /\ TypeInv' /\ cache \in Caches /\ Cleared(cache, off) \in Caches
    BY ClearedLists DEF Inv, TypeInv
<1>2. /\ Used(Cleared(cache, off)) <= Used(cache)
      /\ Used(cache) \in Nat /\ Used(Cleared(cache, off)) \in Nat
    BY <1>1, ClearedUsed
<1> DEFINE k == Used(cache) - Used(Cleared(cache, off))
<1>3. k \in Nat /\ Used(Cleared(cache, off)) = Used(cache) - k
    BY <1>2
<1>4. historyNum' = historyNum - k
    BY DEF CutByClear
<1> HIDE DEF k
<1> QED BY <1>1, <1>3, <1>4, LessCounts

\* History that is cleared keeps the count.
LEMMA ClearSteps ==
  ASSUME Inv, Inv', Counts,
         \/ \E s \in Syncer : PrepareHistory(s)
         \/ \E i \in Item : HistoryCacheClear(i)
  PROVE  Counts'
<1>1. ASSUME NEW s \in Syncer, PrepareHistory(s) PROVE Counts'
  <2>1. /\ cache' = Cleared(cache, Unwanted(Usable(s)))
        /\ historyNum' = historyNum - CutByClear(cache, Unwanted(Usable(s)))
        /\ UNCHANGED <<flush, drift>>
      BY <1>1 DEF PrepareHistory
  <2>2. Unwanted(Usable(s)) \in SUBSET Item
      BY DEF Unwanted, Usable, Available, Inv, TypeInv, SyncerState
  <2> QED BY <2>1, <2>2, ClearCounts
<1>2. ASSUME NEW i \in Item, HistoryCacheClear(i) PROVE Counts'
  <2>1. /\ cache' = Cleared(cache, {i})
        /\ historyNum' = historyNum - CutByClear(cache, {i})
        /\ UNCHANGED <<flush, drift>>
      BY <1>2 DEF HistoryCacheClear
  <2>2. {i} \in SUBSET Item
      OBVIOUS
  <2> QED BY <2>1, <2>2, ClearCounts
<1> QED BY <1>1, <1>2

(* records that were processed *)
LEMMA PushItemsCounts ==
  ASSUME Inv, Inv', Counts, NEW s \in Syncer, PushItems(s)
  PROVE  Counts'
<1> DEFINE B == sync[s].batch
<1>1. TypeInv /\ TypeInv' /\ cache \in Caches
    BY DEF Inv, TypeInv
<1>2. /\ cache' = Pushed(cache, B) /\ historyNum' = historyNum - CutByPush(cache, B)
      /\ UNCHANGED <<flush, drift>>
    BY DEF PushItems, Push
<1>3. \A i \in B : i \in DOMAIN cache /\ cache[i].data # <<>>
    BY <1>1, OwnedData DEF Inv
<1> HIDE DEF B
<1>4. /\ Used(Pushed(cache, B)) = Used(cache) - CutByPush(cache, B)
      /\ CutByPush(cache, B) \in Nat
    BY <1>1, <1>3, PushedUsed
<1> QED BY <1>1, <1>2, <1>4, LessCounts

\* A round of the full synchronisation at the end keeps the count.
LEMMA FullSyncRoundCounts ==
  ASSUME Inv, Inv', Counts, FullSyncRound
  PROVE  Counts'
<1>1. TypeInv /\ TypeInv' /\ cache \in Caches
    BY DEF Inv, TypeInv
<1>2. CASE Queued = {}
  <2>1. UNCHANGED <<cache, historyNum, flush, drift>>
      BY <1>2 DEF FullSyncRound, shared
  <2> QED BY <2>1, QuietCounts
<1>3. CASE Queued # {}
  <2>1. PICK B \in SUBSET Queued :
          /\ cache' = Pushed(Cleared(cache, Unwanted(B)), B)
          /\ historyNum' = historyNum - CutByClear(cache, Unwanted(B))
                             - CutByPush(Cleared(cache, Unwanted(B)), B)
      BY <1>3 DEF FullSyncRound
  <2>2. UNCHANGED <<flush, drift>>
      BY DEF FullSyncRound
  <2> DEFINE off == Unwanted(B)
             c == Cleared(cache, off)
  <2>3. off \in SUBSET Item /\ B \subseteq Item
      BY DEF Unwanted, Queued
  <2>4. /\ c \in Caches /\ DOMAIN c = DOMAIN cache
        /\ \A i \in Item : DataIn(c, i) = <<>> <=> Data(i) = <<>>
      BY <2>3, ClearedLists
  <2>5. \A i \in B : i \in DOMAIN c /\ c[i].data # <<>>
    <3> SUFFICES ASSUME NEW i \in B PROVE i \in DOMAIN c /\ c[i].data # <<>>
        OBVIOUS
    <3>1. i \in Item /\ queue[i] = 1
        BY <1>1, <2>3 DEF Queued, TypeInv
    <3>2. Data(i) # <<>>
        BY <3>1 DEF Inv, OwnInv
    <3>3. DataIn(c, i) # <<>> /\ i \in DOMAIN cache
        BY <2>4, <3>1, <3>2 DEF Data
    <3> HIDE DEF c
    <3> QED BY <2>4, <3>3 DEF DataIn
  <2>6. /\ Used(c) <= Used(cache) /\ Used(cache) \in Nat /\ Used(c) \in Nat
      BY <1>1, <2>4, ClearedUsed
  <2> HIDE DEF c
  <2>7. /\ Used(Pushed(c, B)) = Used(c) - CutByPush(c, B) /\ CutByPush(c, B) \in Nat
      BY <2>4, <2>5, PushedUsed
  <2> DEFINE k == (Used(cache) - Used(c)) + CutByPush(c, B)
  <2>8. k \in Nat /\ Used(Pushed(c, B)) = Used(cache) - k
      BY <2>6, <2>7
  <2>9. historyNum' = historyNum - k
    <3>1. historyNum' = historyNum - (Used(cache) - Used(c)) - CutByPush(c, B)
        BY <2>1 DEF CutByClear, c
    <3>2. historyNum \in Int
        BY DEF Counts
    <3> QED BY <2>6, <2>7, <3>1, <3>2
  <2>10. cache' = Pushed(c, B)
      BY <2>1 DEF c
  <2> HIDE DEF k
  <2> QED BY <1>1, <2>2, <2>8, <2>9, <2>10, LessCounts
<1> QED BY <1>2, <1>3

\* Every step keeps the count.
LEMMA CountsNext ==
  ASSUME Inv, Inv', Counts, [Next]_vars
  PROVE  Counts'
<1>1. ASSUME NEW s \in Syncer, SyncerStep(s) \/ SyncerDies(s) PROVE Counts'
  <2>1. CASE LockTriggers(s) \/ PushBusy(s)
      BY <2>1, FlagCounts
  <2>2. CASE PrepareHistory(s)
      BY <2>2, ClearSteps
  <2>3. CASE PushItems(s)
      BY <2>3, PushItemsCounts
  <2>4. CASE Pop(s) \/ WriteHistory(s) \/ WriteFails(s) \/ GetTimers(s) \/ UnlockTriggers(s)
             \/ SyncerDies(s)
    <3>1. UNCHANGED <<cache, historyNum, flush, drift>>
        BY <2>4 DEF Pop, WriteHistory, WriteFails, GetTimers, UnlockTriggers, SyncerDies,
                    shared, fate
    <3> QED BY <3>1, QuietCounts
  <2> QED BY <1>1, <2>1, <2>2, <2>3, <2>4 DEF SyncerStep
<1>2. ASSUME NEW f \in Flusher, Flush(f) \/ FlushRetry(f) \/ EndFlusher(f) PROVE Counts'
    BY <1>2, FlushCounts, EndFlusherCounts
<1>3. ASSUME NEW i \in Item, DisableItem(i) \/ DeleteItem(i) \/ RemoveItem(i)
                             \/ HistoryCacheClear(i)
      PROVE  Counts'
  <2>1. CASE DisableItem(i) \/ DeleteItem(i)
    <3>1. UNCHANGED <<cache, historyNum, flush, drift>>
        BY <2>1 DEF DisableItem, DeleteItem, shared, fate
    <3> QED BY <3>1, QuietCounts
  <2> QED BY <1>3, <2>1, FlagCounts, ClearSteps
<1>4. CASE \/ \E t \in Trigger : ToggleTrigger(t)
           \/ Terminate \/ ShutdownSyncers \/ Ended \/ UNCHANGED vars
  <2>1. UNCHANGED <<cache, historyNum, flush, drift>>
      BY <1>4 DEF ToggleTrigger, Terminate, ShutdownSyncers, Ended, vars, shared, fate
  <2> QED BY <2>1, QuietCounts
<1>5. CASE FullSync
    BY <1>5, FlagCounts
<1>6. CASE FullSyncRound
    BY <1>6, FullSyncRoundCounts
<1> QED BY <1>1, <1>2, <1>3, <1>4, <1>5, <1>6 DEF Next, MainStep

\* An empty cache counts no values.
LEMMA CountsInit == Init => Counts
<1> SUFFICES ASSUME Init PROVE Counts
    OBVIOUS
<1>1. TypeInv
    BY InitInv DEF Inv
<1>2. cache = <<>> /\ cache \in Caches /\ historyNum = 0 /\ drift = 0
    BY <1>1 DEF Init, TypeInv
<1>3. Used(cache) = 0
  <2>1. DOMAIN cache = {}
      BY <1>2
  <2> DEFINE f == [i \in DOMAIN cache |-> Len(cache[i].data)]
  <2>2. DOMAIN f = {}
      BY <2>1
  <2> HIDE DEF f
  <2>3. SumFunctionOnSet(f, DOMAIN f) = 0
      BY <2>2, SumOfNone
  <2> QED BY <2>3 DEF Used, SumFunction, f
<1>4. \A f \in Flusher : flush[f].added = 0
    BY DEF Init, IdleFlusher
<1>5. Waiting = 0
  <2> DEFINE g == [f \in Flusher |-> flush[f].added]
             none == [f \in {} |-> 0]
  <2>1. \A f \in Flusher : g[f] = IF f \in {} THEN none[f] ELSE 0
      BY <1>4
  <2>2. DOMAIN g = Flusher
      OBVIOUS
  <2> HIDE DEF g, none
  <2>3. SumFunctionOnSet(g, Flusher) = SumFunctionOnSet(none, {})
    <3>1. IsFiniteSet(Flusher) /\ {} \in SUBSET Flusher /\ \A x \in {} : none[x] \in Int
        BY HistoryCacheAssumption
    <3> QED BY <2>1, <3>1, SumExtended
  <2> QED BY <2>2, <2>3, SumOfNone DEF Waiting, SumFunction, g
<1> QED BY <1>2, <1>3, <1>4, <1>5, HistoryCacheAssumption DEF Counts, CounterTrue, Waiting

(* the other types *)
LEMMA SmallTypesNext ==
  ASSUME Inv, Inv', SmallTypes, [Next]_vars
  PROVE  SmallTypes'
<1> USE DEF SmallTypes
<1>1. ASSUME NEW s \in Syncer, SyncerStep(s) \/ SyncerDies(s) PROVE SmallTypes'
  <2>1. CASE LockTriggers(s)
    <3>1. PICK r : /\ locked' = locked \union r.trig
                   /\ sync' = [sync EXCEPT ![s] =
                        [Goto(s, IF r.busy = sync[s].batch THEN "busy" ELSE "locked") EXCEPT
                           !.trig = r.trig]]
        BY <2>1 DEF LockTriggers
    <3>2. sync'[s] \in SyncerState /\ sync[s] \in SyncerState
        BY DEF Inv, TypeInv
    <3>3. sync'[s].trig = r.trig
        BY <3>1, <3>2 DEF Goto, Inv, TypeInv, SyncerState
    <3>4. r.trig \subseteq Trigger
        BY <3>2, <3>3 DEF SyncerState
    <3> QED BY <2>1, <3>1, <3>4 DEF LockTriggers, config
  <2>2. CASE GetTimers(s)
    <3>1. PICK due \in SUBSET (Timer \cap enabled) : locked' = locked \union due
        BY <2>2 DEF GetTimers
    <3> QED BY <2>2, <3>1 DEF GetTimers, config
  <2>3. CASE SyncerDies(s)
      BY <2>3 DEF SyncerDies, config
  <2>4. CASE UnlockTriggers(s)
      BY <2>4 DEF UnlockTriggers, config
  <2>5. CASE Pop(s) \/ PushBusy(s) \/ PrepareHistory(s) \/ WriteHistory(s) \/ WriteFails(s)
             \/ PushItems(s)
    <3>1. UNCHANGED <<locked, config, main, clears>>
        BY <2>5 DEF Pop, PushBusy, PrepareHistory, WriteHistory, WriteFails, PushItems
    <3> QED BY <3>1 DEF config
  <2> QED BY <1>1, <2>1, <2>2, <2>3, <2>4, <2>5 DEF SyncerStep
<1>2. ASSUME NEW f \in Flusher, Flush(f) \/ FlushRetry(f) \/ EndFlusher(f) PROVE SmallTypes'
  <2>1. UNCHANGED <<locked, config, main, clears>>
      BY <1>2 DEF Flush, FlushRetry, EndFlusher, Added
  <2> QED BY <2>1 DEF config
<1>3. ASSUME NEW i \in Item, DisableItem(i) \/ DeleteItem(i) \/ RemoveItem(i)
                             \/ HistoryCacheClear(i)
      PROVE  SmallTypes'
  <2>1. UNCHANGED <<locked, enabled, toggled, main>> /\ clears' \in {clears, clears + 1}
      BY <1>3 DEF DisableItem, DeleteItem, RemoveItem, HistoryCacheClear, config
  <2> QED BY <2>1
<1>4. ASSUME NEW t \in Trigger, ToggleTrigger(t) PROVE SmallTypes'
    BY <1>4 DEF ToggleTrigger
<1>5. CASE Terminate \/ ShutdownSyncers \/ FullSync
  <2>1. UNCHANGED <<config, clears>> /\ locked' \in {locked, {}}
        /\ main' \in {"stop", "shutdown", "sync"}
      BY <1>5 DEF Terminate, ShutdownSyncers, FullSync
  <2> QED BY <2>1 DEF config
<1>6. CASE FullSyncRound
  <2>1. UNCHANGED <<locked, config, clears>> /\ main' \in {main, "end"}
      BY <1>6 DEF FullSyncRound
  <2> QED BY <2>1 DEF config
<1>7. CASE Ended \/ UNCHANGED vars
    BY <1>7 DEF Ended, vars, config
<1> QED BY <1>1, <1>2, <1>3, <1>4, <1>5, <1>6, <1>7 DEF Next, MainStep

\* The count, the limit of the cache and the types hold in every reachable state.
LEMMA CountsHold == Spec => [](Inv /\ Counts /\ SmallTypes)
<1>1. Init => Inv /\ Counts /\ SmallTypes
    BY InitInv, CountsInit DEF Init, SmallTypes
<1>2. Inv /\ Counts /\ SmallTypes /\ [Next]_vars => Inv' /\ Counts' /\ SmallTypes'
    BY NextInv, CountsNext, SmallTypesNext
<1> QED BY <1>1, <1>2, PTL DEF Spec

(* All variables keep their types; among them, the records of all items   *)
(* never take more than the capacity of the cache, whoever adds records   *)
(* and waits for room (zbx_dc_flush_history, hc_add_item_values).         *)
THEOREM CacheTypeCorrect == Spec => []TypeOK
<1>1. Inv /\ Counts /\ SmallTypes => TypeOK
  <2> SUFFICES ASSUME Inv, Counts, SmallTypes PROVE TypeOK
      OBVIOUS
  <2>1. TypeInv /\ SyncInv
      BY DEF Inv
  <2>2. DOMAIN cache \subseteq Item /\ \A i \in DOMAIN cache : cache[i] \in List
      BY <2>1, CachesType DEF TypeInv
  <2>3. \A i \in DOMAIN cache :
          /\ cache[i].data \in Seq(Records)
          /\ cache[i].busy \in BOOLEAN /\ cache[i].keep \in BOOLEAN
      BY <2>2 DEF List
  <2>4. \A f \in Flusher :
          /\ flush[f].pc \in {"ready", "waiting", "ended"} /\ flush[f].added \in Nat
          /\ flush[f].todo \in Seq([item : Item, val : BOOLEAN])
      BY <2>1 DEF TypeInv, FlusherState, Update
  <2>5. \A s \in Syncer :
          /\ sync[s].pc \in {"idle", "popped", "busy", "locked", "prepared", "timers", "unlock",
                             "push", "ended", "dead"}
          /\ sync[s].batch \subseteq Item
          /\ sync[s].trig \subseteq Trigger /\ sync[s].calc \subseteq Trigger
          /\ DOMAIN sync[s].hist \subseteq sync[s].batch
      BY <2>1 DEF TypeInv, SyncerState, SyncInv, SyncOf
  <2>6. /\ queue \in [Item -> {0, 1}]
        /\ status \in [Item -> {"active", "disabled", "deleted", "removed"}]
      BY <2>1 DEF TypeInv
  <2> QED BY <2>2, <2>3, <2>4, <2>5, <2>6 DEF TypeOK, Counts, SmallTypes
<1> QED BY <1>1, CountsHold, PTL

(* history_num is what it stands for in every state: no clear, removal,   *)
(* merge, wait or crash makes it drift from the records of the cache      *)
(* (zbx_dc_flush_history, zbx_hc_clear_item_middle,                       *)
(* zbx_sync_history_cache_server).                                        *)
THEOREM CounterKept == Spec => []CounterTrue
<1>1. Counts => CounterTrue
    BY DEF Counts
<1> QED BY <1>1, CountsHold, PTL

=============================================================================
