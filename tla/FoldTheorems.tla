---------------------------- MODULE FoldTheorems ----------------------------
(***************************************************************************)
(* Facts about two folds of the community modules: SumFunctionOnSet for    *)
(* finite sets (what a sum is for the empty set and for a set that loses   *)
(* an element, and what follows from that), and folds over sequences (the  *)
(* recursive function that defines one exists, and takes the elements of   *)
(* the sequence one after the other).                                      *)
(*                                                                         *)
(* A fold is a recursive function over the subsets of its set.  Induction  *)
(* is stated with sets: if a claim fails for some subsets of a finite set, *)
(* there is a least one for which it does; a set of naturals that has 0    *)
(* and the successor of each of its elements is Nat.                       *)
(***************************************************************************)
EXTENDS Integers, FiniteSets, FiniteSetsExt, Functions, FiniteSetTheorems, TLAPS

Chosen(s) == CHOOSE x \in s : TRUE
SumStep(f, it, s) == IF s = {} THEN 0 ELSE f[Chosen(s)] + it[s \ {Chosen(s)}]
Sums(f, S, it) == it = [s \in SUBSET S |-> SumStep(f, it, s)]

\* A set of subsets of a finite set has an element that contains no other.
LEMMA LeastOf ==
  ASSUME NEW S, IsFiniteSet(S), NEW T \in SUBSET (SUBSET S), T # {}
  PROVE  \E s \in T : \A r \in T : r \subseteq s => r = s
<1>1. FiniteSubsetsOf(S) = SUBSET S
    BY FS_FiniteSubsetsOfFinite
<1>2. IsWellFoundedOn(StrictSubsetOrdering(S), SUBSET S)
    BY <1>1, FS_StrictSubsetOrderingWellFounded
<1>3. \E s \in T : \A r \in T : ~ (<<r, s>> \in StrictSubsetOrdering(S))
    BY <1>2, WFMin
<1> QED BY <1>3 DEF StrictSubsetOrdering

\* The element a sum starts with is one of the set.
LEMMA ChosenFacts ==
  ASSUME NEW s, s # {}
  PROVE  /\ Chosen(s) \in s
         /\ s \ {Chosen(s)} \subseteq s /\ s \ {Chosen(s)} # s
BY DEF Chosen

\* Two recursive functions for the same sum agree where both are defined.
LEMMA SumsUnique ==
  ASSUME NEW f, NEW S, IsFiniteSet(S), NEW R, NEW it, Sums(f, S, it),
         NEW jt, Sums(f, R, jt), NEW s \in SUBSET (S \cap R)
  PROVE  it[s] = jt[s]
<1> DEFINE T == {r \in SUBSET (S \cap R) : it[r] # jt[r]}
<1>1. SUFFICES ASSUME T # {} PROVE FALSE
    OBVIOUS
<1>2. T \in SUBSET (SUBSET S)
    OBVIOUS
<1>3. PICK r \in T : \A q \in T : q \subseteq r => q = r
  <2> HIDE DEF T
  <2> QED BY <1>1, <1>2, LeastOf
<1>4. it[r] = SumStep(f, it, r) /\ jt[r] = SumStep(f, jt, r)
    BY DEF Sums
<1>5. CASE r = {}
    BY <1>4, <1>5 DEF SumStep
<1>6. CASE r # {}
  <2>1. r \ {Chosen(r)} \notin T /\ r \ {Chosen(r)} \in SUBSET (S \cap R)
      BY <1>3, <1>6, ChosenFacts
  <2>2. it[r \ {Chosen(r)}] = jt[r \ {Chosen(r)}]
      BY <2>1
  <2> QED BY <1>4, <1>6, <2>2 DEF SumStep
<1> QED BY <1>5, <1>6

\* The recursive function of a sum exists.
LEMMA SumsExist ==
  ASSUME NEW f, NEW S, IsFiniteSet(S)
  PROVE  \E it : Sums(f, S, it)
<1> DEFINE T == {s \in SUBSET S : ~ \E it : Sums(f, s, it)}
           F(s) == CHOOSE it : Sums(f, s, it)
<1>1. SUFFICES ASSUME T # {} PROVE FALSE
    OBVIOUS
<1>0. T \in SUBSET (SUBSET S)
    OBVIOUS
<1>2. PICK R \in T : \A r \in T : r \subseteq R => r = R
  <2> HIDE DEF T
  <2> QED BY <1>0, <1>1, LeastOf
<1>3. \A s \in SUBSET R : s # R => Sums(f, s, F(s))
    BY <1>2
<1>fin. \A s \in SUBSET R : IsFiniteSet(s)
    BY <1>2, FS_Subset
<1> HIDE DEF F
<1> DEFINE it == [s \in SUBSET R |->
                    IF s = {} THEN 0
                    ELSE f[Chosen(s)] + F(s \ {Chosen(s)})[s \ {Chosen(s)}]]
<1>4. \A s \in SUBSET R : s # R => it[s] = F(s)[s]
  <2> SUFFICES ASSUME NEW s \in SUBSET R, s # R PROVE it[s] = F(s)[s]
      OBVIOUS
  <2>1. Sums(f, s, F(s))
      BY <1>3
  <2>2. F(s)[s] = SumStep(f, F(s), s)
      BY <2>1 DEF Sums
  <2>3. CASE s = {}
      BY <2>2, <2>3 DEF SumStep
  <2>4. CASE s # {}
    <3> DEFINE r == s \ {Chosen(s)}
    <3>1. r \in SUBSET R /\ r # R /\ r \in SUBSET s
        BY <2>4, ChosenFacts
    <3>2. Sums(f, r, F(r))
        BY <1>3, <3>1
    <3>3. F(r)[r] = F(s)[r]
        BY <1>fin, <2>1, <3>1, <3>2, SumsUnique
    <3>4. it[s] = f[Chosen(s)] + F(r)[r]
        BY <2>4
    <3> QED BY <2>2, <2>4, <3>3, <3>4 DEF SumStep
  <2> QED BY <2>3, <2>4
<1>5. \A s \in SUBSET R : it[s] = SumStep(f, it, s)
  <2> SUFFICES ASSUME NEW s \in SUBSET R PROVE it[s] = SumStep(f, it, s)
      OBVIOUS
  <2>1. CASE s = {}
      BY <2>1 DEF SumStep
  <2>2. CASE s # {}
    <3> DEFINE r == s \ {Chosen(s)}
    <3>1. r \in SUBSET R /\ r # R
        BY <2>2, ChosenFacts
    <3>2. it[r] = F(r)[r]
        BY <1>4, <3>1
    <3>3. it[s] = f[Chosen(s)] + F(r)[r]
        BY <2>2
    <3> HIDE DEF it
    <3> QED BY <2>2, <3>2, <3>3 DEF SumStep
  <2> QED BY <2>1, <2>2
<1>6. Sums(f, R, it)
  <2>1. it = [s \in SUBSET R |-> it[s]]
      OBVIOUS
  <2> HIDE DEF it
  <2> QED BY <1>5, <2>1 DEF Sums
<1> QED BY <1>2, <1>6

\* A sum is the value of its recursive function, of any one for a larger set.
LEMMA SumUnfolded ==
  ASSUME NEW f, NEW S, IsFiniteSet(S), NEW it, Sums(f, S, it), NEW s \in SUBSET S
  PROVE  SumFunctionOnSet(f, s) = it[s]
<1> DEFINE iter == CHOOSE jt : Sums(f, s, jt)
<1>0. IsFiniteSet(s)
    BY FS_Subset
<1>1. Sums(f, s, iter)
    BY <1>0, SumsExist
<1>2. SumFunctionOnSet(f, s) = iter[s]
    BY DEF SumFunctionOnSet, FoldFunctionOnSet, MapThenFoldSet, Sums, SumStep, Chosen
<1> HIDE DEF iter
<1>3. iter[s] = it[s]
    BY <1>0, <1>1, SumsUnique
<1> QED BY <1>2, <1>3

\* The sum over no element is zero.
LEMMA SumOfNone ==
  ASSUME NEW f
  PROVE  SumFunctionOnSet(f, {}) = 0
<1>1. IsFiniteSet({})
    BY FS_EmptySet
<1>2. PICK it : Sums(f, {}, it)
    BY <1>1, SumsExist
<1>3. it[{}] = 0
    BY <1>2 DEF Sums, SumStep
<1> QED BY <1>1, <1>2, <1>3, SumUnfolded

\* A sum is its chosen element and the sum of the others.
LEMMA SumChosen ==
  ASSUME NEW f, NEW S, IsFiniteSet(S), S # {}
  PROVE  SumFunctionOnSet(f, S) = f[Chosen(S)] + SumFunctionOnSet(f, S \ {Chosen(S)})
<1>1. PICK it : Sums(f, S, it)
    BY SumsExist
<1>2. it[S] = f[Chosen(S)] + it[S \ {Chosen(S)}]
    BY <1>1 DEF Sums, SumStep
<1>3. SumFunctionOnSet(f, S) = it[S]
    BY <1>1, SumUnfolded
<1>4. SumFunctionOnSet(f, S \ {Chosen(S)}) = it[S \ {Chosen(S)}]
    BY <1>1, SumUnfolded
<1> QED BY <1>2, <1>3, <1>4

-----------------------------------------------------------------------------
\* Sums of integers are integers.
LEMMA SumInt ==
  ASSUME NEW S, IsFiniteSet(S), NEW f, \A x \in S : f[x] \in Int
  PROVE  SumFunctionOnSet(f, S) \in Int
<1> DEFINE T == {s \in SUBSET S : SumFunctionOnSet(f, s) \notin Int}
<1>1. SUFFICES ASSUME T # {} PROVE FALSE
    OBVIOUS
<1>2. T \in SUBSET (SUBSET S)
    OBVIOUS
<1>3. PICK r \in T : \A q \in T : q \subseteq r => q = r
  <2> HIDE DEF T
  <2> QED BY <1>1, <1>2, LeastOf
<1>4. r # {}
    BY SumOfNone
<1>5. IsFiniteSet(r)
    BY FS_Subset
<1>6. SumFunctionOnSet(f, r \ {Chosen(r)}) \in Int /\ f[Chosen(r)] \in Int
    BY <1>3, <1>4, ChosenFacts
<1>7. SumFunctionOnSet(f, r) = f[Chosen(r)] + SumFunctionOnSet(f, r \ {Chosen(r)})
    BY <1>4, <1>5, SumChosen
<1> QED BY <1>6, <1>7

\* Any element may be taken out of a sum.
LEMMA SumSplit ==
  ASSUME NEW S, IsFiniteSet(S), NEW f, \A x \in S : f[x] \in Int, NEW x \in S
  PROVE  SumFunctionOnSet(f, S) = f[x] + SumFunctionOnSet(f, S \ {x})
<1> DEFINE Total(s) == SumFunctionOnSet(f, s)
           T == {s \in SUBSET S : \E y \in s : Total(s) # f[y] + Total(s \ {y})}
<1>1. SUFFICES ASSUME T # {} PROVE FALSE
    OBVIOUS
<1>2. T \in SUBSET (SUBSET S)
    OBVIOUS
<1>3. PICK r \in T : \A q \in T : q \subseteq r => q = r
  <2> HIDE DEF T
  <2> QED BY <1>1, <1>2, LeastOf
<1>4. PICK y \in r : Total(r) # f[y] + Total(r \ {y})
    OBVIOUS
<1> DEFINE z == Chosen(r)
<1>5. IsFiniteSet(r) /\ z \in r /\ r # {}
    BY ChosenFacts, FS_Subset
<1>6. Total(r) = f[z] + Total(r \ {z})
    BY <1>5, SumChosen
<1>7. y # z
    BY <1>4, <1>6
<1>8. r \ {y} \notin T /\ r \ {z} \notin T
    BY <1>3, <1>5
<1>9. r \ {y} \in SUBSET S /\ r \ {z} \in SUBSET S /\ z \in r \ {y} /\ y \in r \ {z}
    BY <1>5, <1>7
<1>10. Total(r \ {y}) = f[z] + Total((r \ {y}) \ {z})
    BY <1>8, <1>9
<1>11. Total(r \ {z}) = f[y] + Total((r \ {z}) \ {y})
    BY <1>8, <1>9
<1>12. (r \ {y}) \ {z} = (r \ {z}) \ {y}
    OBVIOUS
<1>13. f[y] \in Int /\ f[z] \in Int /\ Total((r \ {y}) \ {z}) \in Int
  <2>1. IsFiniteSet((r \ {y}) \ {z}) /\ (r \ {y}) \ {z} \subseteq S
      BY <1>5, FS_Subset
  <2> QED BY <1>5, <2>1, SumInt
<1> DEFINE k == Total((r \ {y}) \ {z})
<1>14. Total(r \ {z}) = f[y] + k
    BY <1>11, <1>12
<1> HIDE DEF Total, z, k, T
<1>15. Total(r) = f[z] + (f[y] + k)
    BY <1>6, <1>14
<1>16. Total(r \ {y}) = f[z] + k
    BY <1>10 DEF k
<1>17. f[y] \in Int /\ f[z] \in Int /\ k \in Int
    BY <1>13 DEF k
<1>18. f[z] + (f[y] + k) = f[y] + (f[z] + k)
    BY <1>17
<1> QED BY <1>4, <1>15, <1>16, <1>18

\* A sum of sums is the sum of both.
LEMMA SumPlus ==
  ASSUME NEW S, IsFiniteSet(S), NEW f, NEW g, NEW h,
         \A x \in S : f[x] \in Int /\ g[x] \in Int /\ h[x] = f[x] + g[x]
  PROVE  SumFunctionOnSet(h, S) = SumFunctionOnSet(f, S) + SumFunctionOnSet(g, S)
<1> DEFINE T == {s \in SUBSET S : SumFunctionOnSet(h, s)
                                    # SumFunctionOnSet(f, s) + SumFunctionOnSet(g, s)}
<1>1. SUFFICES ASSUME T # {} PROVE FALSE
    OBVIOUS
<1>2. T \in SUBSET (SUBSET S)
    OBVIOUS
<1>3. PICK r \in T : \A q \in T : q \subseteq r => q = r
  <2> HIDE DEF T
  <2> QED BY <1>1, <1>2, LeastOf
<1>4. r # {}
  <2>1. /\ SumFunctionOnSet(f, {}) = 0 /\ SumFunctionOnSet(g, {}) = 0
        /\ SumFunctionOnSet(h, {}) = 0
      BY SumOfNone
  <2>2. SumFunctionOnSet(h, r) # SumFunctionOnSet(f, r) + SumFunctionOnSet(g, r)
      OBVIOUS
  <2>3. SUFFICES ASSUME r = {} PROVE FALSE
      OBVIOUS
  <2>4. SumFunctionOnSet(h, {}) # SumFunctionOnSet(f, {}) + SumFunctionOnSet(g, {})
      BY <2>2, <2>3
  <2>5. 0 # 0 + 0
      BY <2>1, <2>4
  <2> QED BY <2>5
<1>5. IsFiniteSet(r)
    BY FS_Subset
<1> DEFINE z == Chosen(r)
           q == r \ {z}
<1>6. z \in r /\ q \notin T /\ q \in SUBSET S /\ IsFiniteSet(q)
    BY <1>3, <1>4, <1>5, ChosenFacts, FS_Subset
<1>7. SumFunctionOnSet(h, q) = SumFunctionOnSet(f, q) + SumFunctionOnSet(g, q)
    BY <1>6
<1>8. /\ SumFunctionOnSet(h, r) = h[z] + SumFunctionOnSet(h, q)
      /\ SumFunctionOnSet(f, r) = f[z] + SumFunctionOnSet(f, q)
      /\ SumFunctionOnSet(g, r) = g[z] + SumFunctionOnSet(g, q)
    BY <1>4, <1>5, SumChosen
<1>9. SumFunctionOnSet(f, q) \in Int /\ SumFunctionOnSet(g, q) \in Int
    BY <1>6, SumInt
<1>10. f[z] \in Int /\ g[z] \in Int /\ h[z] = f[z] + g[z]
    BY <1>6
<1>11. SumFunctionOnSet(h, r) # SumFunctionOnSet(f, r) + SumFunctionOnSet(g, r)
    OBVIOUS
<1> HIDE DEF z, q
<1> QED BY <1>7, <1>8, <1>9, <1>10, <1>11

\* A sum of natural numbers is one.
LEMMA SumNat ==
  ASSUME NEW S, IsFiniteSet(S), NEW f, \A x \in S : f[x] \in Nat
  PROVE  SumFunctionOnSet(f, S) \in Nat
<1> DEFINE T == {s \in SUBSET S : SumFunctionOnSet(f, s) \notin Nat}
<1>1. SUFFICES ASSUME T # {} PROVE FALSE
    OBVIOUS
<1>2. T \in SUBSET (SUBSET S)
    OBVIOUS
<1>3. PICK r \in T : \A q \in T : q \subseteq r => q = r
  <2> HIDE DEF T
  <2> QED BY <1>1, <1>2, LeastOf
<1>4. r # {}
    BY SumOfNone
<1>5. IsFiniteSet(r)
    BY FS_Subset
<1>6. SumFunctionOnSet(f, r \ {Chosen(r)}) \in Nat /\ f[Chosen(r)] \in Nat
    BY <1>3, <1>4, ChosenFacts
<1>7. SumFunctionOnSet(f, r) = f[Chosen(r)] + SumFunctionOnSet(f, r \ {Chosen(r)})
    BY <1>4, <1>5, SumChosen
<1> QED BY <1>6, <1>7

\* A sum over a set is one over a larger set whose other elements count nothing.
LEMMA SumExtended ==
  ASSUME NEW S, IsFiniteSet(S), NEW R \in SUBSET S, NEW f, NEW g,
         \A x \in S : g[x] = IF x \in R THEN f[x] ELSE 0,
         \A x \in R : f[x] \in Int
  PROVE  SumFunctionOnSet(g, S) = SumFunctionOnSet(f, R)
<1> DEFINE T == {s \in SUBSET S : SumFunctionOnSet(g, s) # SumFunctionOnSet(f, s \cap R)}
<1>1. SUFFICES ASSUME T # {} PROVE FALSE
  <2>1. S \cap R = R /\ S \in SUBSET S
      OBVIOUS
  <2> QED BY <2>1
<1>2. T \in SUBSET (SUBSET S)
    OBVIOUS
<1>3. PICK r \in T : \A q \in T : q \subseteq r => q = r
  <2> HIDE DEF T
  <2> QED BY <1>1, <1>2, LeastOf
<1>4. r # {}
  <2>1. {} \cap R = {}
      OBVIOUS
  <2> QED BY <2>1, SumOfNone
<1>5. IsFiniteSet(r) /\ IsFiniteSet(r \cap R)
    BY FS_Subset
<1> DEFINE z == Chosen(r)
           q == r \ {z}
<1>6. z \in r /\ z \in S /\ q \notin T /\ q \in SUBSET S /\ IsFiniteSet(q)
    BY <1>3, <1>4, <1>5, ChosenFacts, FS_Subset
<1>7. SumFunctionOnSet(g, q) = SumFunctionOnSet(f, q \cap R)
    BY <1>6
<1>8. SumFunctionOnSet(g, r) = g[z] + SumFunctionOnSet(g, q)
    BY <1>4, <1>5, SumChosen
<1>9. SumFunctionOnSet(f, q \cap R) \in Int
  <2>1. IsFiniteSet(q \cap R)
      BY <1>6, FS_Subset
  <2> QED BY <2>1, SumInt
<1>10. SumFunctionOnSet(g, r) # SumFunctionOnSet(f, r \cap R)
    OBVIOUS
<1>11. CASE z \in R
  <2>1. (r \cap R) \ {z} = q \cap R /\ z \in r \cap R
      BY <1>6, <1>11
  <2>2. SumFunctionOnSet(f, r \cap R) = f[z] + SumFunctionOnSet(f, q \cap R)
    <3>1. \A x \in r \cap R : f[x] \in Int
        OBVIOUS
    <3> QED BY <1>5, <2>1, <3>1, SumSplit
  <2>3. g[z] = f[z]
      BY <1>6, <1>11
  <2> HIDE DEF z, q, T
  <2> QED BY <1>7, <1>8, <1>10, <2>2, <2>3
<1>12. CASE z \notin R
  <2>1. r \cap R = q \cap R
      BY <1>12
  <2>2. g[z] = 0
      BY <1>6, <1>12
  <2> HIDE DEF z, q, T
  <2>3. SumFunctionOnSet(g, r) = SumFunctionOnSet(f, q \cap R)
      BY <1>7, <1>8, <1>9, <2>2
  <2> QED BY <1>10, <2>1, <2>3
<1> QED BY <1>11, <1>12

\* Functions that agree on a set have the same sum over it.
LEMMA SumSame ==
  ASSUME NEW S, IsFiniteSet(S), NEW f, NEW g,
         \A x \in S : f[x] \in Int /\ g[x] = f[x]
  PROVE  SumFunctionOnSet(g, S) = SumFunctionOnSet(f, S)
BY SumExtended

\* The sum of a function that is changed at one place.
LEMMA SumChanged ==
  ASSUME NEW S, IsFiniteSet(S), NEW f, NEW g, NEW x \in S,
         \A y \in S : f[y] \in Int, g[x] \in Int,
         \A y \in S : y # x => g[y] = f[y]
  PROVE  SumFunctionOnSet(g, S) = SumFunctionOnSet(f, S) - f[x] + g[x]
<1> DEFINE R == S \ {x}
<1>1. IsFiniteSet(R)
    BY FS_Subset
<1>2. SumFunctionOnSet(g, R) = SumFunctionOnSet(f, R)
    BY <1>1, SumSame
<1>3. SumFunctionOnSet(f, S) = f[x] + SumFunctionOnSet(f, R)
    BY SumSplit
<1>4. SumFunctionOnSet(g, S) = g[x] + SumFunctionOnSet(g, R)
  <2>1. \A y \in S : g[y] \in Int
      OBVIOUS
  <2> QED BY <2>1, SumSplit
<1>5. SumFunctionOnSet(f, R) \in Int
    BY <1>1, SumInt
<1>6. f[x] \in Int
    OBVIOUS
<1> HIDE DEF R
<1> QED BY <1>2, <1>3, <1>4, <1>5, <1>6

\* The number of elements is a sum of ones.
LEMMA SumOfOnes ==
  ASSUME NEW S, IsFiniteSet(S), NEW f, \A x \in S : f[x] = 1
  PROVE  SumFunctionOnSet(f, S) = Cardinality(S)
<1> DEFINE T == {s \in SUBSET S : SumFunctionOnSet(f, s) # Cardinality(s)}
<1>1. SUFFICES ASSUME T # {} PROVE FALSE
    OBVIOUS
<1>2. T \in SUBSET (SUBSET S)
    OBVIOUS
<1>3. PICK r \in T : \A q \in T : q \subseteq r => q = r
  <2> HIDE DEF T
  <2> QED BY <1>1, <1>2, LeastOf
<1>4. r # {}
    BY SumOfNone, FS_EmptySet
<1>5. IsFiniteSet(r)
    BY FS_Subset
<1> DEFINE z == Chosen(r)
           q == r \ {z}
<1>6. z \in r /\ q \notin T /\ q \in SUBSET S /\ IsFiniteSet(q)
    BY <1>3, <1>4, <1>5, ChosenFacts, FS_Subset
<1>7. SumFunctionOnSet(f, r) = 1 + SumFunctionOnSet(f, q)
    BY <1>4, <1>5, <1>6, SumChosen
<1>8. SumFunctionOnSet(f, q) = Cardinality(q)
    BY <1>6
<1>9. Cardinality(q) = Cardinality(r) - 1 /\ Cardinality(r) \in Nat
    BY <1>5, <1>6, FS_RemoveElement, FS_CardinalityType
<1>10. SumFunctionOnSet(f, r) # Cardinality(r)
    OBVIOUS
<1> HIDE DEF q
<1> QED BY <1>7, <1>8, <1>9, <1>10

-----------------------------------------------------------------------------
(* Largest and smallest elements of sets of naturals. *)

\* Induction over the naturals for a set, by its least missing element.
LEMMA NatSetInduction ==
  ASSUME NEW S \in SUBSET Nat, 0 \in S, \A n \in S : n + 1 \in S
  PROVE  S = Nat
<1> DEFINE R == {ss \in Nat \X Nat : ss[1] < ss[2]}
           T == Nat \ S
<1>1. IsWellFoundedOn(R, Nat)
  BY NatLessThanWellFounded DEF OpToRel
<1>2. CASE T # {}
  <2>1. \E i \in T : \A j \in T : ~(<<j, i>> \in R)
    <3> HIDE DEF R
    <3>1. T \subseteq Nat
      OBVIOUS
    <3> HIDE DEF T
    <3> QED  BY <1>1, <1>2, <3>1, WFMin
  <2>2. PICK i \in T : \A j \in T : ~(<<j, i>> \in R)
    BY <2>1
  <2>3. i \in Nat /\ i # 0 /\ i - 1 \in Nat /\ i - 1 < i
    BY <2>2
  <2>4. i - 1 \in S
    BY <2>2, <2>3
  <2>5. (i - 1) + 1 \in S
    BY <2>4
  <2> QED  BY <2>3, <2>5
<1> QED  BY <1>2

\* Induction up to a bound.
LEMMA UpTo ==
  ASSUME NEW N \in Nat, NEW T, 0 \in T, \A n \in 1 .. N : n - 1 \in T => n \in T
  PROVE  \A n \in 0 .. N : n \in T
<1> DEFINE S == {n \in Nat : n <= N => n \in T}
<1>1. 0 \in S
    OBVIOUS
<1>2. ASSUME NEW n \in S PROVE n + 1 \in S
  <2> SUFFICES ASSUME n + 1 <= N PROVE n + 1 \in T
      OBVIOUS
  <2>1. n + 1 \in 1 .. N /\ (n + 1) - 1 = n /\ n \in T
      OBVIOUS
  <2> QED BY <2>1
<1>3. S = Nat
  <2>1. S \in SUBSET Nat
      OBVIOUS
  <2> HIDE DEF S
  <2> QED BY <1>1, <1>2, <2>1, NatSetInduction
<1> QED BY <1>3

\* A set of numbers up to a bound has a largest one, which Max returns.
LEMMA MaxIn ==
  ASSUME NEW n \in Nat, NEW s \in SUBSET (0 .. n), s # {}
  PROVE  Max(s) \in s /\ \A x \in s : x <= Max(s)
<1> DEFINE T == {m \in 0 .. n : \A x \in s : x <= n - m}
<1>1. \E y \in s : \A x \in s : x <= y
  <2> SUFFICES ASSUME ~ \E y \in s : \A x \in s : x <= y PROVE FALSE
      OBVIOUS
  <2>1. 0 \in T
      OBVIOUS
  <2>2. \A m \in 1 .. n : m - 1 \in T => m \in T
    <3> SUFFICES ASSUME NEW m \in 1 .. n, m - 1 \in T PROVE m \in T
        OBVIOUS
    <3>1. \A x \in s : x <= n - (m - 1)
        OBVIOUS
    <3>2. n - (m - 1) \notin s
        BY <3>1
    <3>3. \A x \in s : x <= n - m
        BY <3>1, <3>2
    <3> QED BY <3>3
  <2>3. n \in T
    <3> HIDE DEF T
    <3> QED BY <2>1, <2>2, UpTo
  <2>4. \A x \in s : x <= 0 /\ x \in Nat
      BY <2>3
  <2>5. PICK y \in s : TRUE
      OBVIOUS
  <2>6. \A x \in s : x <= y
      BY <2>4
  <2> QED BY <2>6
<1>2. Max(s) \in s /\ \A x \in s : Max(s) >= x
    BY <1>1 DEF Max
<1>3. \A x \in s : x \in Nat
    OBVIOUS
<1> QED BY <1>2, <1>3

\* A set of naturals has a smallest element, which Min returns.
LEMMA MinIn ==
  ASSUME NEW s \in SUBSET Nat, s # {}
  PROVE  Min(s) \in s /\ \A x \in s : Min(s) <= x
<1> DEFINE S == {n \in Nat : \A x \in s : n <= x}
<1>1. \E y \in s : \A x \in s : y <= x
  <2> SUFFICES ASSUME ~ \E y \in s : \A x \in s : y <= x PROVE FALSE
      OBVIOUS
  <2>1. 0 \in S
      OBVIOUS
  <2>2. ASSUME NEW n \in S PROVE n + 1 \in S
    <3>1. n \notin s
        OBVIOUS
    <3>2. \A x \in s : n <= x /\ x # n
        BY <3>1
    <3> QED BY <3>2
  <2>3. S = Nat
    <3>1. S \in SUBSET Nat
        OBVIOUS
    <3> HIDE DEF S
    <3> QED BY <2>1, <2>2, <3>1, NatSetInduction
  <2>4. PICK x \in s : TRUE
      OBVIOUS
  <2>5. x + 1 \in S /\ ~(x + 1 <= x)
      BY <2>3
  <2> QED BY <2>4, <2>5
<1> QED BY <1>1 DEF Min

-----------------------------------------------------------------------------
(* Folds over sequences, step by step. *)

\* The recursive function of a fold over a sequence of length N: f[<<k, v>>] is
\* the value after the k-th element when v was the value before it.
StepsOf(N, base, f, it) ==
  it = [s \in SUBSET (1 .. N) |->
          IF s = {} THEN base ELSE f[<<Max(s), it[s \ {Max(s)}]>>]]

\* The recursive function of a fold exists when its values stay in a set.
LEMMA FoldExists ==
  ASSUME NEW V, NEW N \in Nat, NEW base \in V, NEW f,
         \A n \in 1 .. N, v \in V : f[<<n, v>>] \in V
  PROVE  \E it \in [SUBSET (1 .. N) -> V] : StepsOf(N, base, f, it)
<1> DEFINE T == {n \in 0 .. N : \E it \in [SUBSET (1 .. n) -> V] : StepsOf(n, base, f, it)}
<1>1. 0 \in T
  <2> DEFINE it == [s \in SUBSET (1 .. 0) |-> base]
  <2>1. SUBSET (1 .. 0) = {{}}
      OBVIOUS
  <2>2. it \in [SUBSET (1 .. 0) -> V] /\ StepsOf(0, base, f, it)
      BY <2>1 DEF StepsOf
  <2> QED BY <2>2
<1>2. ASSUME NEW n \in 1 .. N, n - 1 \in T PROVE n \in T
  <2>1. PICK it \in [SUBSET (1 .. (n - 1)) -> V] : StepsOf(n - 1, base, f, it)
      BY <1>2
  <2> DEFINE g == [s \in SUBSET (1 .. n) |-> IF n \in s THEN f[<<n, it[s \ {n}]>>] ELSE it[s]]
  <2>2. ASSUME NEW s \in SUBSET (1 .. n)
        PROVE  /\ g[s] \in V
               /\ g[s] = IF s = {} THEN base ELSE f[<<Max(s), g[s \ {Max(s)}]>>]
    <3>1. CASE n \in s
      <4>1. s \ {n} \in SUBSET (1 .. (n - 1)) /\ s \in SUBSET (0 .. n)
          BY <3>1
      <4>2. Max(s) = n
        <5>1. n \in Nat /\ s # {}
            BY <3>1
        <5>2. Max(s) \in s /\ n <= Max(s)
            BY <3>1, <4>1, <5>1, MaxIn
        <5>3. Max(s) \in 0 .. n
            BY <4>1, <5>2
        <5> HIDE DEF T
        <5> QED BY <5>1, <5>2, <5>3
      <4>3. it[s \ {n}] \in V
          BY <4>1
      <4>4. g[s] = f[<<n, it[s \ {n}]>>] /\ g[s \ {n}] = it[s \ {n}]
          BY <3>1, <4>1
      <4>5. f[<<n, it[s \ {n}]>>] \in V
          BY <4>3
      <4> HIDE DEF g
      <4> QED BY <3>1, <4>2, <4>4, <4>5
    <3>2. CASE n \notin s
      <4>1. s \in SUBSET (1 .. (n - 1)) /\ s \ {Max(s)} \in SUBSET (1 .. (n - 1))
        <5>1. \A x \in s : x \in 1 .. n /\ x # n
            BY <3>2
        <5>2. \A x \in 1 .. n : x # n => x \in 1 .. (n - 1)
            OBVIOUS
        <5> QED BY <5>1, <5>2
      <4>2. g[s] = it[s] /\ g[s \ {Max(s)}] = it[s \ {Max(s)}]
          BY <3>2, <4>1
      <4>3. it[s] = IF s = {} THEN base ELSE f[<<Max(s), it[s \ {Max(s)}]>>]
          BY <2>1, <4>1 DEF StepsOf
      <4>4. it[s] \in V
          BY <4>1
      <4> HIDE DEF g
      <4> QED BY <4>2, <4>3, <4>4
    <3> QED BY <3>1, <3>2
  <2>3. g = [s \in SUBSET (1 .. n) |-> g[s]]
      OBVIOUS
  <2> HIDE DEF g
  <2>4. g \in [SUBSET (1 .. n) -> V] /\ StepsOf(n, base, f, g)
    <3>1. g \in [SUBSET (1 .. n) -> V]
        BY <2>2, <2>3
    <3>2. g = [s \in SUBSET (1 .. n) |-> IF s = {} THEN base ELSE f[<<Max(s), g[s \ {Max(s)}]>>]]
        BY <2>2, <2>3
    <3> QED BY <3>1, <3>2 DEF StepsOf
  <2>5. n \in 0 .. N
      OBVIOUS
  <2> QED BY <2>4, <2>5
<1>3. N \in T
  <2>1. N \in 0 .. N
      OBVIOUS
  <2> HIDE DEF T
  <2> QED BY <1>1, <1>2, <2>1, UpTo
<1> QED BY <1>3

\* The last element of a prefix of the positions, and what remains without it.
LEMMA PrefixMax ==
  ASSUME NEW N \in Nat, NEW n \in 1 .. N
  PROVE  /\ 1 .. n \in SUBSET (1 .. N) /\ 1 .. n # {}
         /\ Max(1 .. n) = n /\ (1 .. n) \ {n} = 1 .. (n - 1)
<1>1. 1 .. n \in SUBSET (0 .. n) /\ 1 .. n # {} /\ n \in 1 .. n
    OBVIOUS
<1>2. n \in Nat
    OBVIOUS
<1>3. Max(1 .. n) \in 1 .. n /\ n <= Max(1 .. n)
    BY <1>1, <1>2, MaxIn
<1>4. Max(1 .. n) = n
    BY <1>2, <1>3
<1> QED BY <1>1, <1>4

\* What holds of the value before the first element and is kept by each element
\* holds of the fold.
LEMMA PrefixesIn ==
  ASSUME NEW N \in Nat, NEW V, NEW it, it[{}] \in V,
         \A n \in 1 .. N : it[1 .. (n - 1)] \in V => it[1 .. n] \in V
  PROVE  it[1 .. N] \in V
<1> DEFINE T == {n \in 0 .. N : it[1 .. n] \in V}
<1>1. 1 .. 0 = {}
    OBVIOUS
<1>2. 0 \in T
    BY <1>1
<1>3. ASSUME NEW n \in 1 .. N, n - 1 \in T PROVE n \in T
  <2>1. it[1 .. (n - 1)] \in V /\ n \in 0 .. N
      BY <1>3
  <2>2. it[1 .. n] \in V
      BY <2>1
  <2> QED BY <2>1, <2>2
<1>4. N \in 0 .. N
    OBVIOUS
<1> HIDE DEF T
<1>5. N \in T
    BY <1>2, <1>3, <1>4, UpTo
<1> QED BY <1>5 DEF T
=============================================================================
