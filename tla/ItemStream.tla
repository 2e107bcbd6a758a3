----------------------------- MODULE ItemStream -----------------------------
(***************************************************************************)
(* What preprocessing promises to whoever sends values of an item: the     *)
(* values come out once, in the order in which they were sent, and a value *)
(* of a dependent item comes out after the value of the master item that   *)
(* it was made from.  PreprocQueue implements this with tasks that several *)
(* threads process in any order.                                           *)
(***************************************************************************)
EXTENDS Integers, Sequences

CONSTANTS
  Items,      \* items
  Deps,       \* [Items -> Seq(Items)], the dependent items of an item
  Discarded   \* <<item, n>>: preprocessing discards the value

VARIABLES
  active,     \* items that are preprocessed
  running,    \* FALSE when preprocessing is being stopped
  accepted,   \* [Items -> Nat], values received for a master item
  delivered   \* [Items -> Seq(Nat)], values that came out

vars == <<active, running, accepted, delivered>>

MastersOf(i) == {m \in Items : \E k \in DOMAIN Deps[m] : Deps[m][k] = i}
Kept(i, s) == SelectSeq(s, LAMBDA n : <<i, n>> \notin Discarded)

(* the values that item i is to deliver, given what has been received *)
Offered(i) ==
  IF MastersOf(i) = {} THEN Kept(i, [n \in 1 .. accepted[i] |-> n])
  ELSE LET m == CHOOSE m \in MastersOf(i) : TRUE
       IN IF i \in active THEN Kept(i, delivered[m]) ELSE <<>>

Init ==
  /\ running = TRUE
  /\ accepted = [i \in Items |-> 0]
  /\ delivered = [i \in Items |-> <<>>]

Accept(i) ==
  /\ MastersOf(i) = {}
  /\ accepted' = [accepted EXCEPT ![i] = @ + 1]

Deliver(i) ==
  /\ \E offered \in {Offered(i)} :
       /\ Len(delivered[i]) < Len(offered)
       /\ delivered' = [delivered EXCEPT ![i] = Append(@, offered[Len(@) + 1])]
  /\ UNCHANGED <<active, running, accepted>>
DeliverRunning(i) == running /\ Deliver(i)

(* a value that needs no preprocessing is passed on at once *)
Pass(i) ==
  /\ delivered[i] = Offered(i)
  /\ Accept(i)
  /\ delivered' = [delivered EXCEPT ![i] = Append(@, accepted'[i])]
  /\ UNCHANGED <<active, running>>

Next ==
  \/ \E i \in Items :
       \/ Accept(i) /\ UNCHANGED <<active, running, delivered>>
       \/ Deliver(i)
       \/ Pass(i)
  \/ running' = FALSE /\ UNCHANGED <<active, accepted, delivered>>

Spec == Init /\ [][Next]_vars /\ \A i \in Items : WF_vars(DeliverRunning(i))
=============================================================================
