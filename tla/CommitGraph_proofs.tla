------------------------- MODULE CommitGraph_proofs -------------------------
(***************************************************************************)
(* What Walk computes, for every graph of finitely many commits: the least *)
(* set that contains the start and the parents of what it contains.  The   *)
(* bound on its rounds, the number of commits of the graph, is enough.     *)
(*                                                                         *)
(* The induction theorems of the library take a predicate as a parameter,  *)
(* which cannot be instantiated here; induction is taken instead from      *)
(* WFMin, which speaks of sets: a set of numbers that has 0 and with each  *)
(* number the next is Nat.                                                 *)
(*                                                                         *)
(* Also here, for the proofs that extend this module: ranks, sums, and     *)
(* the walk over the sources of forks.                                     *)
(***************************************************************************)
EXTENDS CommitGraph, FiniteSetTheorems, WellFoundedInduction, TLAPS

-----------------------------------------------------------------------------
(***************************************************************************)
(* Least numbers, and induction for sets of numbers.                       *)
(***************************************************************************)
LEMMA LeastNumber ==
    ASSUME NEW T \in SUBSET Nat, T # {}
    PROVE  \E x \in T : \A y \in T : ~(y < x)
<1>1. IsWellFoundedOn(OpToRel(<, Nat), Nat)
  BY NatLessThanWellFounded
<1>2. OpToRel(<, Nat) = {p \in Nat \X Nat : p[1] < p[2]}
  BY DEF OpToRel
<1>3. PICK x \in T : \A y \in T : <<y, x>> \notin OpToRel(<, Nat)
  BY <1>1, WFMin, Zenon
<1>4. \A y \in T : <<y, x>> \in Nat \X Nat
  OBVIOUS
<1>. QED
  BY <1>2, <1>3, <1>4

LEMMA Induction ==
    ASSUME NEW T \in SUBSET Nat, 0 \in T, \A n \in T : n + 1 \in T
    PROVE  T = Nat
<1>. SUFFICES ASSUME Nat \ T # {} PROVE FALSE
  OBVIOUS
<1>1. PICK x \in Nat \ T : \A y \in Nat \ T : ~(y < x)
  BY LeastNumber
<1>2. x - 1 \in Nat /\ x - 1 < x
  BY <1>1
<1>. QED
  BY <1>1, <1>2

-----------------------------------------------------------------------------
(***************************************************************************)
(* The rank of a number in a set of them, which is what its place on a     *)
(* page is about.                                                          *)
(***************************************************************************)
UpTo(ids, o) == {x \in ids : x <= o}

Rank(ids, o) == Cardinality(UpTo(ids, o))

\* An id has a rank, and a larger one has a larger rank.
LEMMA RankGrows ==
    ASSUME NEW ids \in SUBSET (Nat \ {0}), IsFiniteSet(ids)
    PROVE  /\ Cardinality(ids) \in Nat
           /\ \A o : IsFiniteSet(UpTo(ids, o)) /\ Rank(ids, o) \in Nat /\ Rank(ids, o) <= Cardinality(ids)
           /\ \A o \in ids : Rank(ids, o) \in 1..Cardinality(ids)
           /\ \A a, b \in ids : a < b => Rank(ids, a) < Rank(ids, b)
<1>1. Cardinality(ids) \in Nat
  BY FS_CardinalityType
<1>2. ASSUME NEW o
      PROVE  IsFiniteSet(UpTo(ids, o)) /\ Rank(ids, o) \in Nat /\ Rank(ids, o) <= Cardinality(ids)
  <2>1. UpTo(ids, o) \in SUBSET ids
    BY DEF UpTo
  <2>2. IsFiniteSet(UpTo(ids, o)) /\ Cardinality(UpTo(ids, o)) <= Cardinality(ids)
    BY <2>1, FS_Subset
  <2>. QED
    BY <2>2, FS_CardinalityType DEF Rank
<1>3. ASSUME NEW o \in ids PROVE Rank(ids, o) \in 1..Cardinality(ids)
  <2>1. o \in UpTo(ids, o)
    BY DEF UpTo
  <2>2. Rank(ids, o) # 0
    BY <1>2, <2>1, FS_EmptySet DEF Rank
  <2>. QED
    BY <1>1, <1>2, <2>2
<1>4. ASSUME NEW a \in ids, NEW b \in ids, a < b PROVE Rank(ids, a) < Rank(ids, b)
  <2>1. UpTo(ids, a) \in SUBSET UpTo(ids, b)
    <3>1. ASSUME NEW x \in ids, x <= a PROVE x <= b
      <4>1. x \in Nat /\ a \in Nat /\ b \in Nat
        OBVIOUS
      <4>. QED
        BY <1>4, <3>1, <4>1
    <3>. QED
      BY <3>1, Zenon DEF UpTo
  <2>2. b \in UpTo(ids, b) /\ b \notin UpTo(ids, a)
    BY <1>4 DEF UpTo
  <2>3. Rank(ids, a) <= Rank(ids, b) /\ Rank(ids, a) # Rank(ids, b)
    BY <1>2, <2>1, <2>2, FS_Subset DEF Rank
  <2>. QED
    BY <1>2, <2>3
<1>. QED
  BY <1>1, <1>2, <1>3, <1>4

LEMMA GreatestNumber ==
    ASSUME NEW ids \in SUBSET (Nat \ {0}), IsFiniteSet(ids), ids # {}
    PROVE  \E m \in ids : \A x \in ids : x <= m
<1>. DEFINE Above == {Cardinality(ids) - Rank(ids, o) : o \in ids}
<1>1. Above \in SUBSET Nat /\ Above # {}
  <2>1. \A o \in ids : Rank(ids, o) \in Nat /\ Rank(ids, o) <= Cardinality(ids) /\ Cardinality(ids) \in Nat
    BY RankGrows
  <2>2. \A o \in ids : Cardinality(ids) - Rank(ids, o) \in Nat
    BY <2>1
  <2>. QED
    BY <2>2, Zenon
<1>2. PICK k \in Above : \A y \in Above : ~(y < k)
  <2>. HIDE DEF Above
  <2>. QED
    BY <1>1, LeastNumber
<1>3. PICK m \in ids : k = Cardinality(ids) - Rank(ids, m)
  BY <1>2
<1>4. ASSUME NEW x \in ids PROVE x <= m
  <2>1. ~(Cardinality(ids) - Rank(ids, x) < Cardinality(ids) - Rank(ids, m))
    BY <1>2, <1>3
  <2>2. ~(Rank(ids, m) < Rank(ids, x))
    BY <2>1, RankGrows
  <2>. QED
    BY <2>2, RankGrows
<1>. QED
  BY <1>4

\* Every rank up to the number of ids is taken.
LEMMA RankTaken ==
    ASSUME NEW ids \in SUBSET (Nat \ {0}), IsFiniteSet(ids), NEW n \in 1..Cardinality(ids)
    PROVE  \E o \in ids : Rank(ids, o) = n
<1>. DEFINE Reached == {k \in Nat : Rank(ids, k) >= n}
<1>1. Cardinality(ids) \in Nat /\ n \in Nat /\ n > 0 /\ ids # {}
  BY RankGrows, FS_EmptySet
<1>2. PICK m \in ids : \A x \in ids : x <= m
  BY <1>1, GreatestNumber
<1>3. UpTo(ids, m) = ids
  BY <1>2, Zenon DEF UpTo
<1>4. m \in Reached
  BY <1>1, <1>3 DEF Rank
<1>5. PICK k \in Reached : \A y \in Reached : ~(y < k)
  <2>1. Reached \in SUBSET Nat /\ Reached # {}
    BY <1>4
  <2>. HIDE DEF Reached
  <2>. QED
    BY <2>1, LeastNumber
<1>6. k # 0
  <2>1. UpTo(ids, 0) = {}
    <3>1. \A x \in ids : x \in Nat /\ x # 0
      OBVIOUS
    <3>2. \A x \in ids : ~(x <= 0)
      BY <3>1
    <3>. QED
      BY <3>2, Zenon DEF UpTo
  <2>2. Rank(ids, 0) = 0
    BY <2>1, FS_EmptySet DEF Rank
  <2>. QED
    BY <1>1, <1>5, <2>2
<1>7. k - 1 \in Nat /\ k \in Nat /\ Rank(ids, k - 1) < n /\ Rank(ids, k) >= n
  <2>1. k \in Nat /\ Rank(ids, k) >= n
    BY <1>5
  <2>2. k - 1 \in Nat /\ k - 1 < k
    BY <1>6, <2>1
  <2>3. k - 1 \notin Reached
    BY <1>5, <2>2
  <2>4. Rank(ids, k - 1) \in Nat
    BY RankGrows
  <2>. QED
    BY <1>1, <2>1, <2>2, <2>3, <2>4
<1>8. k \in ids
  <2>1. SUFFICES ASSUME k \notin ids PROVE FALSE
    OBVIOUS
  <2>2. UpTo(ids, k) = UpTo(ids, k - 1)
    <3>1. \A x \in ids : x \in Nat /\ x # k
      BY <2>1
    <3>2. \A x \in ids : x <= k <=> x <= k - 1
      BY <1>7, <3>1
    <3>. QED
      BY <3>2, Zenon DEF UpTo
  <2>3. Rank(ids, k) \in Nat
    BY RankGrows
  <2>. QED
    BY <1>1, <1>7, <2>2, <2>3 DEF Rank
<1>9. UpTo(ids, k) = UpTo(ids, k - 1) \cup {k}
  <2>1. ASSUME NEW x \in UpTo(ids, k) PROVE x \in UpTo(ids, k - 1) \cup {k}
    <3>1. x \in ids /\ x \in Nat /\ x <= k
      BY <2>1 DEF UpTo
    <3>2. x = k \/ x <= k - 1
      BY <1>7, <3>1
    <3>. QED
      BY <3>1, <3>2 DEF UpTo
  <2>2. ASSUME NEW x \in UpTo(ids, k - 1) \cup {k} PROVE x \in UpTo(ids, k)
    <3>1. x \in ids /\ x \in Nat /\ (x = k \/ x <= k - 1)
      BY <1>7, <1>8, <2>2 DEF UpTo
    <3>2. x <= k
      BY <1>7, <3>1
    <3>. QED
      BY <3>1, <3>2 DEF UpTo
  <2>. QED
    BY <2>1, <2>2
<1>10. IsFiniteSet(UpTo(ids, k - 1)) /\ Rank(ids, k - 1) \in Nat
  BY RankGrows
<1>11. Rank(ids, k) <= Rank(ids, k - 1) + 1
  <2>1. Cardinality(UpTo(ids, k - 1) \cup {k})
          = IF k \in UpTo(ids, k - 1) THEN Cardinality(UpTo(ids, k - 1)) ELSE Cardinality(UpTo(ids, k - 1)) + 1
    BY <1>10, FS_AddElement, Zenon
  <2>2. Rank(ids, k) = Cardinality(UpTo(ids, k - 1) \cup {k})
    BY <1>9 DEF Rank
  <2>3. Rank(ids, k - 1) = Cardinality(UpTo(ids, k - 1))
    BY DEF Rank
  <2>. QED
    BY <1>10, <2>1, <2>2, <2>3
<1>. QED
  BY <1>1, <1>7, <1>8, <1>10, <1>11, RankGrows

\* The elements of a set of numbers in the order of their ranks.
InRankOrder(ids) == [i \in 1..Cardinality(ids) |-> CHOOSE o \in ids : Rank(ids, o) = i]

LEMMA RanksEnumerate ==
    ASSUME NEW ids \in SUBSET (Nat \ {0}), IsFiniteSet(ids), NEW f, f = InRankOrder(ids)
    PROVE  /\ f \in [1..Cardinality(ids) -> ids] /\ Cardinality(ids) \in Nat
           /\ \A i, j \in 1..Cardinality(ids) : f[i] = f[j] => i = j
           /\ \A o \in ids : \E i \in 1..Cardinality(ids) : f[i] = o
<1>. DEFINE n == Cardinality(ids)
<1>3. f = [i \in 1..n |-> CHOOSE o \in ids : Rank(ids, o) = i]
  BY DEF InRankOrder
<1>4. ASSUME NEW i \in 1..n PROVE f[i] \in ids /\ Rank(ids, f[i]) = i
  <2>1. \E o \in ids : Rank(ids, o) = i
    BY RankTaken
  <2>. QED
    BY <1>3, <2>1
<1>5. f \in [1..n -> ids]
  BY <1>3, <1>4
<1>6. \A i, j \in 1..n : f[i] = f[j] => i = j
  BY <1>4
<1>7. ASSUME NEW o \in ids PROVE \E i \in 1..n : f[i] = o
  <2>1. Rank(ids, o) \in 1..n
    BY RankGrows
  <2>2. f[Rank(ids, o)] \in ids /\ Rank(ids, f[Rank(ids, o)]) = Rank(ids, o)
    BY <1>4, <2>1
  <2>3. f[Rank(ids, o)] = o
    <3>. DEFINE a == f[Rank(ids, o)]
    <3>1. a \in ids /\ Rank(ids, a) = Rank(ids, o) /\ Rank(ids, o) \in Nat /\ a \in Nat /\ o \in Nat
      BY <2>1, <2>2, RankGrows, Zenon
    <3>2. ~(a < o) /\ ~(o < a)
      BY <3>1, RankGrows
    <3>3. a = o
      <4>. HIDE DEF a
      <4>. QED
        BY <3>1, <3>2
    <3>. QED
      BY <3>3
  <2>. QED
    BY <2>1, <2>3
<1>. QED
  BY <1>5, <1>6, <1>7, RankGrows

-----------------------------------------------------------------------------
(***************************************************************************)
(* Sums.  The sum of w[o] for o in a set is the number of cells of a table *)
(* that has w[o] of them for each o; what holds of sums is what holds of   *)
(* cardinalities, and the order in which the fold takes the elements does  *)
(* not matter.                                                             *)
(***************************************************************************)
Column(w, o) == {o} \X (1..w[o])

Cells(w, ids) == UNION {Column(w, o) : o \in ids}

Picked(ids) == CHOOSE o \in ids : TRUE

\* What the fold over a set computes for each of its subsets.
SumEquation(f, ids, w) ==
    f = [s \in SUBSET ids |-> IF s = {} THEN 0 ELSE w[Picked(s)] + f[s \ {Picked(s)}]]

LEMMA ColumnCounted ==
    ASSUME NEW w, NEW o, w[o] \in Nat
    PROVE  IsFiniteSet(Column(w, o)) /\ Cardinality(Column(w, o)) = w[o]
<1>1. PICK n \in Nat : n = w[o]
  OBVIOUS
<1>. DEFINE f == [i \in 1..n |-> <<o, i>>]
<1>2. f \in Bijection(1..n, {o} \X (1..n))
  <2>1. f \in [1..n -> {o} \X (1..n)]
    OBVIOUS
  <2>2. \A i, j \in 1..n : f[i] = f[j] => i = j
    OBVIOUS
  <2>3. \A t \in {o} \X (1..n) : \E i \in 1..n : f[i] = t
    <3>1. ASSUME NEW t \in {o} \X (1..n) PROVE \E i \in 1..n : f[i] = t
      <4>1. t[2] \in 1..n /\ t = <<o, t[2]>>
        OBVIOUS
      <4>. QED
        BY <4>1
    <3>. QED
      BY <3>1
  <2>. HIDE DEF f
  <2>. QED
    BY <2>1, <2>2, <2>3 DEF Bijection, Injection, Surjection, IsInjective
<1>3. ExistsBijection(1..n, {o} \X (1..n))
  BY <1>2, Zenon DEF ExistsBijection
<1>4. IsFiniteSet(1..n) /\ Cardinality(1..n) = n
  BY FS_Interval
<1>5. IsFiniteSet({o} \X (1..n)) /\ Cardinality({o} \X (1..n)) = n
  BY <1>3, <1>4, FS_Bijection
<1>. QED
  BY <1>1, <1>5 DEF Column

\* One element more is one column more.
LEMMA CellsStep ==
    ASSUME NEW w, NEW ids, NEW o, o \notin ids, w[o] \in Nat, IsFiniteSet(Cells(w, ids))
    PROVE  /\ IsFiniteSet(Cells(w, ids \cup {o}))
           /\ Cardinality(Cells(w, ids \cup {o})) = w[o] + Cardinality(Cells(w, ids))
<1>1. Cells(w, ids \cup {o}) = Cells(w, ids) \cup Column(w, o)
  BY DEF Cells
<1>2. Cells(w, ids) \cap Column(w, o) = {}
  BY DEF Cells, Column
<1>3. IsFiniteSet(Column(w, o)) /\ Cardinality(Column(w, o)) = w[o]
  BY ColumnCounted
<1>4. Cardinality(Cells(w, ids)) \in Nat /\ Cardinality({}) = 0
  BY FS_CardinalityType, FS_EmptySet
<1>5. /\ IsFiniteSet(Cells(w, ids) \cup Column(w, o))
      /\ Cardinality(Cells(w, ids) \cup Column(w, o))
            = Cardinality(Cells(w, ids)) + Cardinality(Column(w, o)) - Cardinality(Cells(w, ids) \cap Column(w, o))
  BY <1>3, FS_Union
<1>6. Cardinality(Cells(w, ids) \cup Column(w, o)) = Cardinality(Cells(w, ids)) + w[o] - 0
  BY <1>2, <1>3, <1>4, <1>5, Zenon
<1>7. PICK a \in Nat, b \in Nat : a = Cardinality(Cells(w, ids)) /\ b = w[o]
  BY <1>4
<1>8. Cardinality(Cells(w, ids \cup {o})) = a + b - 0
  BY <1>1, <1>6, <1>7, Zenon
<1>9. a + b - 0 = b + a
  BY <1>7
<1>. QED
  BY <1>1, <1>5, <1>7, <1>8, <1>9, Zenon

LEMMA CellsAreFinite ==
    ASSUME NEW w, NEW ids, IsFiniteSet(ids), \A o \in ids : w[o] \in Nat
    PROVE  IsFiniteSet(Cells(w, ids)) /\ Cardinality(Cells(w, ids)) \in Nat
<1>. DEFINE N0 == {n \in Nat : \A s \in SUBSET ids : Cardinality(s) = n => IsFiniteSet(Cells(w, s))}
<1>1. 0 \in N0
  <2>1. \A s \in SUBSET ids : Cardinality(s) = 0 => s = {}
    BY FS_Subset, FS_EmptySet
  <2>2. Cells(w, {}) = {}
    BY DEF Cells
  <2>. QED
    BY <2>1, <2>2, FS_EmptySet
<1>2. ASSUME NEW n \in N0 PROVE n + 1 \in N0
  <2>. SUFFICES ASSUME NEW s \in SUBSET ids, Cardinality(s) = n + 1 PROVE IsFiniteSet(Cells(w, s))
    OBVIOUS
  <2>1. n \in Nat /\ IsFiniteSet(s) /\ Cardinality({}) = 0
    BY FS_Subset, FS_EmptySet
  <2>2. PICK o \in s : TRUE
    BY <2>1
  <2>3. Cardinality(s \ {o}) = n /\ s \ {o} \in SUBSET ids
    <3>1. Cardinality(s \ {o}) = Cardinality(s) - 1
      BY <2>1, <2>2, FS_RemoveElement, Zenon
    <3>2. Cardinality(s) - 1 = n
      BY <2>1
    <3>. QED
      BY <3>1, <3>2
  <2>4. IsFiniteSet(Cells(w, s \ {o}))
    BY <2>3
  <2>5. (s \ {o}) \cup {o} = s /\ o \notin s \ {o} /\ w[o] \in Nat
    BY <2>2
  <2>. HIDE DEF N0
  <2>. QED
    BY <2>4, <2>5, CellsStep
<1>3. N0 \in SUBSET Nat
  OBVIOUS
<1>. HIDE DEF N0
<1>4. N0 = Nat
  BY <1>1, <1>2, <1>3, Induction
<1>5. Cardinality(ids) \in N0 /\ ids \in SUBSET ids
  BY <1>4, FS_CardinalityType
<1>6. IsFiniteSet(Cells(w, ids))
  BY <1>5 DEF N0
<1>. QED
  BY <1>6, FS_CardinalityType

LEMMA PickedRight == ASSUME NEW s, s # {} PROVE Picked(s) \in s
BY DEF Picked

\* The fold has a value, and it is the number of cells.
LEMMA SumExists ==
    ASSUME NEW w, NEW ids, IsFiniteSet(ids), \A o \in ids : w[o] \in Nat
    PROVE  \E f : SumEquation(f, ids, w)
<1>. DEFINE f == [s \in SUBSET ids |-> Cardinality(Cells(w, s))]
<1>1. ASSUME NEW s \in SUBSET ids
      PROVE  f[s] = IF s = {} THEN 0 ELSE w[Picked(s)] + f[s \ {Picked(s)}]
  <2>1. CASE s = {}
    <3>1. Cells(w, {}) = {}
      BY DEF Cells
    <3>. QED
      BY <2>1, <3>1, FS_EmptySet
  <2>2. CASE s # {}
    <3>1. PICK o \in s : o = Picked(s)
      BY <2>2, PickedRight
    <3>2. /\ s \ {o} \in SUBSET ids /\ (s \ {o}) \cup {o} = s /\ o \notin s \ {o}
          /\ w[o] \in Nat /\ \A x \in s \ {o} : w[x] \in Nat
      BY <3>1
    <3>3. IsFiniteSet(s \ {o})
      BY <3>2, FS_Subset
    <3>4. IsFiniteSet(Cells(w, s \ {o}))
      BY <3>2, <3>3, CellsAreFinite
    <3>5. Cardinality(Cells(w, (s \ {o}) \cup {o})) = w[o] + Cardinality(Cells(w, s \ {o}))
      BY <3>2, <3>4, CellsStep
    <3>6. f[s] = w[o] + f[s \ {o}]
      BY <3>2, <3>5
    <3>. HIDE DEF f
    <3>. QED
      BY <2>2, <3>1, <3>6
  <2>. QED
    BY <2>1, <2>2
<1>2. f = [s \in SUBSET ids |-> f[s]]
  OBVIOUS
<1>. HIDE DEF f
<1>. QED
  BY <1>1, <1>2, Zenon DEF SumEquation

LEMMA SumIsCells ==
    ASSUME NEW w, NEW ids, IsFiniteSet(ids), \A o \in ids : w[o] \in Nat, NEW f, SumEquation(f, ids, w)
    PROVE  f[ids] = Cardinality(Cells(w, ids))
<1>. DEFINE N0 == {n \in Nat : \A s \in SUBSET ids : Cardinality(s) = n => f[s] = Cardinality(Cells(w, s))}
<1>0. \A s \in SUBSET ids : f[s] = IF s = {} THEN 0 ELSE w[Picked(s)] + f[s \ {Picked(s)}]
  BY Zenon DEF SumEquation
<1>1. 0 \in N0
  <2>1. \A s \in SUBSET ids : Cardinality(s) = 0 => s = {}
    BY FS_Subset, FS_EmptySet
  <2>2. Cells(w, {}) = {} /\ Cardinality({}) = 0 /\ f[{}] = 0
    BY <1>0, FS_EmptySet, Zenon DEF Cells
  <2>. QED
    BY <2>1, <2>2
<1>2. ASSUME NEW n \in N0 PROVE n + 1 \in N0
  <2>. SUFFICES ASSUME NEW s \in SUBSET ids, Cardinality(s) = n + 1
                PROVE  f[s] = Cardinality(Cells(w, s))
    OBVIOUS
  <2>1. n \in Nat /\ IsFiniteSet(s) /\ Cardinality({}) = 0
    BY FS_Subset, FS_EmptySet
  <2>2. s # {}
    BY <2>1
  <2>3. PICK o \in s : o = Picked(s)
    BY <2>2, PickedRight
  <2>4. /\ s \ {o} \in SUBSET ids /\ (s \ {o}) \cup {o} = s /\ o \notin s \ {o}
        /\ w[o] \in Nat /\ \A x \in s \ {o} : w[x] \in Nat
    BY <2>3
  <2>5. Cardinality(s \ {o}) = n /\ IsFiniteSet(s \ {o})
    <3>1. Cardinality(s \ {o}) = Cardinality(s) - 1 /\ IsFiniteSet(s \ {o})
      BY <2>1, <2>3, FS_RemoveElement, Zenon
    <3>2. Cardinality(s) - 1 = n
      BY <2>1
    <3>. QED
      BY <3>1, <3>2
  <2>6. f[s \ {o}] = Cardinality(Cells(w, s \ {o}))
    BY <2>4, <2>5
  <2>7. IsFiniteSet(Cells(w, s \ {o}))
    BY <2>4, <2>5, CellsAreFinite
  <2>8. Cardinality(Cells(w, (s \ {o}) \cup {o})) = w[o] + Cardinality(Cells(w, s \ {o}))
    BY <2>4, <2>7, CellsStep
  <2>9. f[s] = w[o] + f[s \ {o}]
    BY <1>0, <2>2, <2>3
  <2>. QED
    BY <2>4, <2>6, <2>8, <2>9, Zenon
<1>3. N0 \in SUBSET Nat
  OBVIOUS
<1>. HIDE DEF N0
<1>4. N0 = Nat
  BY <1>1, <1>2, <1>3, Induction
<1>5. Cardinality(ids) \in N0 /\ ids \in SUBSET ids
  BY <1>4, FS_CardinalityType
<1>. QED
  BY <1>5 DEF N0

LEMMA CellsGrow ==
    ASSUME NEW v, NEW w, NEW ids, NEW more, ids \subseteq more, IsFiniteSet(more),
           \A o \in more : v[o] \in Nat /\ w[o] \in Nat /\ v[o] <= w[o]
    PROVE  Cardinality(Cells(v, ids)) <= Cardinality(Cells(w, more))
<1>1. IsFiniteSet(Cells(w, more))
  BY CellsAreFinite
<1>2. \A o \in more : Column(v, o) \subseteq Column(w, o)
  BY DEF Column
<1>3. Cells(v, ids) \in SUBSET Cells(w, more)
  BY <1>2 DEF Cells
<1>. QED
  BY <1>1, <1>3, FS_Subset

LEMMA CellsTogether ==
    ASSUME NEW w, NEW xs, NEW ys, IsFiniteSet(xs), IsFiniteSet(ys), \A o \in xs \cup ys : w[o] \in Nat
    PROVE  Cardinality(Cells(w, xs \cup ys)) <= Cardinality(Cells(w, xs)) + Cardinality(Cells(w, ys))
<1>1. /\ IsFiniteSet(Cells(w, xs)) /\ Cardinality(Cells(w, xs)) \in Nat
      /\ IsFiniteSet(Cells(w, ys)) /\ Cardinality(Cells(w, ys)) \in Nat
  BY CellsAreFinite
<1>2. Cells(w, xs \cup ys) = Cells(w, xs) \cup Cells(w, ys)
  BY DEF Cells
<1>3. Cardinality(Cells(w, xs) \cap Cells(w, ys)) \in Nat
  <2>1. Cells(w, xs) \cap Cells(w, ys) \in SUBSET Cells(w, xs)
    OBVIOUS
  <2>. QED
    BY <1>1, <2>1, FS_Subset, FS_CardinalityType
<1>4. Cardinality(Cells(w, xs) \cup Cells(w, ys))
        = Cardinality(Cells(w, xs)) + Cardinality(Cells(w, ys)) - Cardinality(Cells(w, xs) \cap Cells(w, ys))
  BY <1>1, FS_Union
<1>5. PICK a \in Nat, b \in Nat, c \in Nat :
         /\ a = Cardinality(Cells(w, xs)) /\ b = Cardinality(Cells(w, ys))
         /\ c = Cardinality(Cells(w, xs) \cap Cells(w, ys))
  BY <1>1, <1>3
<1>6. Cardinality(Cells(w, xs \cup ys)) = a + b - c
  BY <1>2, <1>4, <1>5, Zenon
<1>. QED
  BY <1>5, <1>6

-----------------------------------------------------------------------------
(***************************************************************************)
(* The sets a walk has seen after each of its rounds.                      *)
(***************************************************************************)
Rounds(parents, start) ==
    LET seen[n \in Nat] ==
            IF n = 0 THEN start
            ELSE seen[n - 1] \cup
                 UNION {parents[id] : id \in seen[n - 1] \cap DOMAIN parents}
    IN  seen

ParentsOfAll(parents, ids) == UNION {parents[id] : id \in ids \cap DOMAIN parents}

\* A set with the parents of what it has.
Closed(parents, ids) == \A id \in ids \cap DOMAIN parents : parents[id] \subseteq ids

\* A trail of m steps from the start.
Trail(parents, start, f, m) ==
    /\ f[0] \in start
    /\ \A i \in 0..(m - 1) : f[i] \in DOMAIN parents /\ f[i + 1] \in parents[f[i]]

Nodes(parents, start) == start \cup UNION {parents[id] : id \in DOMAIN parents}

\* What trails of at most n steps end in.
Within(parents, start, n) ==
    {y \in Nodes(parents, start) :
        \E m \in 0..n : \E f \in [0..m -> Nodes(parents, start)] :
            Trail(parents, start, f, m) /\ f[m] = y}

LEMMA WalkIsRound ==
    ASSUME NEW parents, NEW start
    PROVE  Walk(parents, start) = Rounds(parents, start)[Cardinality(DOMAIN parents)]
BY DEF Walk, Rounds

LEMMA WithinNone ==
    ASSUME NEW parents, NEW start
    PROVE  Within(parents, start, 0) = start
<1>1. ASSUME NEW y \in start PROVE y \in Within(parents, start, 0)
  <2>. DEFINE f == [i \in 0..0 |-> y]
  <2>1. f \in [0..0 -> Nodes(parents, start)] /\ f[0] = y /\ Trail(parents, start, f, 0)
    BY DEF Trail, Nodes
  <2>. HIDE DEF f
  <2>. QED
    BY <2>1 DEF Within, Nodes
<1>2. ASSUME NEW y \in Within(parents, start, 0) PROVE y \in start
  <2>1. PICK m \in 0..0 : \E f \in [0..m -> Nodes(parents, start)] :
           Trail(parents, start, f, m) /\ f[m] = y
    BY <1>2 DEF Within
  <2>. QED
    BY <2>1 DEF Trail
<1>. QED
  BY <1>1, <1>2

LEMMA WithinNext ==
    ASSUME NEW parents, NEW start, NEW n \in Nat
    PROVE  Within(parents, start, n + 1) =
               Within(parents, start, n) \cup ParentsOfAll(parents, Within(parents, start, n))
<1>. DEFINE U == Nodes(parents, start)
            W == Within(parents, start, n)
<1>1. ASSUME NEW y \in Within(parents, start, n + 1), y \notin W
      PROVE  y \in ParentsOfAll(parents, W)
  <2>1. PICK m \in 0..(n + 1) : \E f \in [0..m -> U] : Trail(parents, start, f, m) /\ f[m] = y
    BY <1>1 DEF Within
  <2>9. PICK f \in [0..m -> U] : Trail(parents, start, f, m) /\ f[m] = y
    BY <2>1
  <2>2. m = n + 1
    BY <1>1, <2>9 DEF Within
  <2>. DEFINE g == [i \in 0..n |-> f[i]]
  <2>3. g \in [0..n -> U] /\ Trail(parents, start, g, n) /\ g[n] = f[n]
    BY <2>9, <2>2 DEF Trail
  <2>. HIDE DEF g
  <2>4. f[n] \in W
    BY <2>3 DEF Within
  <2>5. f[n] \in DOMAIN parents /\ y \in parents[f[n]]
    BY <2>9, <2>2 DEF Trail
  <2>. QED
    BY <2>4, <2>5 DEF ParentsOfAll
<1>2. W \subseteq Within(parents, start, n + 1)
  BY DEF Within
<1>3. ASSUME NEW y \in ParentsOfAll(parents, W) PROVE y \in Within(parents, start, n + 1)
  <2>1. PICK id \in W \cap DOMAIN parents : y \in parents[id]
    BY <1>3 DEF ParentsOfAll
  <2>2. PICK m \in 0..n : \E f \in [0..m -> U] : Trail(parents, start, f, m) /\ f[m] = id
    BY <2>1 DEF Within
  <2>9. PICK f \in [0..m -> U] : Trail(parents, start, f, m) /\ f[m] = id
    BY <2>2
  <2>3. y \in U
    BY <2>1 DEF Nodes
  <2>. DEFINE g == [i \in 0..(m + 1) |-> IF i = m + 1 THEN y ELSE f[i]]
  <2>4. g \in [0..(m + 1) -> U] /\ g[m + 1] = y /\ \A i \in 0..m : g[i] = f[i]
    BY <2>9, <2>3
  <2>. HIDE DEF g
  <2>5. Trail(parents, start, g, m + 1)
    BY <2>1, <2>9, <2>4 DEF Trail
  <2>. QED
    BY <2>3, <2>4, <2>5 DEF Within
<1>. QED
  BY <1>1, <1>2, <1>3

(***************************************************************************)
(* The rounds exist, and are what the recursion says.                      *)
(***************************************************************************)
RoundsEquation(f, parents, start) ==
    f = [n \in Nat |->
            IF n = 0 THEN start
            ELSE f[n - 1] \cup UNION {parents[id] : id \in f[n - 1] \cap DOMAIN parents}]

LEMMA RoundsDefined ==
    ASSUME NEW parents, NEW start
    PROVE  RoundsEquation(Rounds(parents, start), parents, start)
<1>. DEFINE f == [n \in Nat |-> Within(parents, start, n)]
<1>1. ASSUME NEW n \in Nat
      PROVE  f[n] = IF n = 0 THEN start
                    ELSE f[n - 1] \cup UNION {parents[id] : id \in f[n - 1] \cap DOMAIN parents}
  <2>1. CASE n = 0
    BY <2>1, WithinNone
  <2>2. CASE n # 0
    <3>1. n - 1 \in Nat /\ (n - 1) + 1 = n
      BY <2>2
    <3>2. f[n] = f[n - 1] \cup ParentsOfAll(parents, f[n - 1])
      BY <3>1, WithinNext
    <3>. QED
      BY <2>2, <3>2 DEF ParentsOfAll
  <2>. QED
    BY <2>1, <2>2
<1>2. RoundsEquation(f, parents, start)
  BY <1>1 DEF RoundsEquation
<1>. HIDE DEF f
<1>3. Rounds(parents, start) = CHOOSE g : RoundsEquation(g, parents, start)
  BY DEF Rounds, RoundsEquation
<1>. QED
  BY <1>2, <1>3

LEMMA RoundsUnfold ==
    ASSUME NEW parents, NEW start
    PROVE  /\ Rounds(parents, start)[0] = start
           /\ \A n \in Nat : Rounds(parents, start)[n + 1] =
                  Rounds(parents, start)[n] \cup ParentsOfAll(parents, Rounds(parents, start)[n])
<1>1. PICK f : f = Rounds(parents, start)
  OBVIOUS
<1>2. RoundsEquation(f, parents, start)
  BY <1>1, RoundsDefined
<1>3. f[0] = start
  BY <1>2 DEF RoundsEquation
<1>4. ASSUME NEW n \in Nat PROVE f[n + 1] = f[n] \cup ParentsOfAll(parents, f[n])
  <2>1. n + 1 \in Nat /\ n + 1 # 0 /\ (n + 1) - 1 = n
    OBVIOUS
  <2>. QED
    BY <1>2, <2>1 DEF RoundsEquation, ParentsOfAll
<1>. QED
  BY <1>1, <1>3, <1>4

-----------------------------------------------------------------------------
(***************************************************************************)
(* The rounds grow, and stay within every closed set that has the start.   *)
(***************************************************************************)
LEMMA RoundsGrow ==
    ASSUME NEW parents, NEW start, NEW n \in Nat
    PROVE  start \subseteq Rounds(parents, start)[n]
<1>. DEFINE R == Rounds(parents, start)
            T == {k \in Nat : start \subseteq R[k]}
<1>1. 0 \in T
  BY RoundsUnfold
<1>2. \A k \in T : k + 1 \in T
  BY RoundsUnfold
<1>3. T \in SUBSET Nat
  OBVIOUS
<1>4. T = Nat
  <2>. HIDE DEF T
  <2>. QED
    BY <1>1, <1>2, <1>3, Induction
<1>. QED
  BY <1>4

LEMMA RoundsStayIn ==
    ASSUME NEW parents, NEW start, NEW C, start \subseteq C, Closed(parents, C), NEW n \in Nat
    PROVE  Rounds(parents, start)[n] \subseteq C
<1>. DEFINE R == Rounds(parents, start)
            T == {k \in Nat : R[k] \subseteq C}
<1>1. 0 \in T
  BY RoundsUnfold
<1>2. ASSUME NEW k \in T PROVE k + 1 \in T
  <2>1. ParentsOfAll(parents, R[k]) \subseteq C
    BY DEF ParentsOfAll, Closed
  <2>. QED
    BY <2>1, RoundsUnfold
<1>3. T \in SUBSET Nat
  OBVIOUS
<1>4. T = Nat
  <2>. HIDE DEF T
  <2>. QED
    BY <1>1, <1>2, <1>3, Induction
<1>. QED
  BY <1>4

(***************************************************************************)
(* A round that is not closed has expanded one more commit than the last:  *)
(* after as many rounds as the graph has commits, the set is closed.       *)
(***************************************************************************)
LEMMA ExpandedOrClosed ==
    ASSUME NEW parents, NEW start, IsFiniteSet(DOMAIN parents), NEW n \in Nat
    PROVE  \/ Closed(parents, Rounds(parents, start)[n])
           \/ Cardinality(Rounds(parents, start)[n] \cap DOMAIN parents) > n
<1>. DEFINE R == Rounds(parents, start)
            D == DOMAIN parents
            T == {k \in Nat : Closed(parents, R[k]) \/ Cardinality(R[k] \cap D) > k}
<1>0. \A k \in Nat : IsFiniteSet(R[k] \cap D) /\ Cardinality(R[k] \cap D) \in Nat
  BY FS_Intersection, FS_CardinalityType
<1>1. 0 \in T
  <2>1. CASE R[0] \cap D = {}
    BY <2>1 DEF Closed
  <2>2. CASE R[0] \cap D # {}
    <3>1. Cardinality(R[0] \cap D) # 0
      BY <1>0, <2>2, FS_EmptySet
    <3>. QED
      BY <1>0, <3>1
  <2>. QED
    BY <2>1, <2>2
<1>2. ASSUME NEW k \in T PROVE k + 1 \in T
  <2>. DEFINE A == R[k] \cap D
              B == R[k + 1] \cap D
  <2>1. R[k + 1] = R[k] \cup ParentsOfAll(parents, R[k])
    BY RoundsUnfold
  <2>2. CASE Closed(parents, R[k])
    <3>1. R[k + 1] = R[k]
      BY <2>1, <2>2 DEF Closed, ParentsOfAll
    <3>. QED
      BY <2>2, <3>1
  <2>3. CASE A = B
    <3>1. Closed(parents, R[k + 1])
      BY <2>1, <2>3 DEF Closed, ParentsOfAll
    <3>. QED
      BY <3>1
  <2>4. CASE A # B /\ Cardinality(A) > k
    <3>1. A \subseteq B
      BY <2>1
    <3>2. Cardinality(A) <= Cardinality(B) /\ Cardinality(A) # Cardinality(B)
      BY <1>0, <2>4, <3>1, FS_Subset
    <3>3. Cardinality(A) \in Nat /\ Cardinality(B) \in Nat
      BY <1>0
    <3>4. Cardinality(B) > k + 1
      BY <2>4, <3>2, <3>3
    <3>. QED
      BY <3>4
  <2>. QED
    BY <2>2, <2>3, <2>4
<1>3. T \in SUBSET Nat
  OBVIOUS
<1>4. T = Nat
  <2>. HIDE DEF T
  <2>. QED
    BY <1>1, <1>2, <1>3, Induction
<1>. QED
  BY <1>4

(***************************************************************************)
(* The walk of a finite graph is the least closed set that has the start:  *)
(* the loop of _is_ancestor_in_bundle and of _is_fast_forward finds the    *)
(* history of where it starts, all of it and nothing else.                 *)
(***************************************************************************)
THEOREM WalkIsHistory ==
    ASSUME NEW parents, NEW start, IsFiniteSet(DOMAIN parents)
    PROVE  /\ start \subseteq Walk(parents, start)
           /\ Closed(parents, Walk(parents, start))
           /\ \A C : start \subseteq C /\ Closed(parents, C) => Walk(parents, start) \subseteq C
<1>. DEFINE n == Cardinality(DOMAIN parents)
            W == Rounds(parents, start)[n]
<1>1. n \in Nat
  BY FS_CardinalityType
<1>2. Closed(parents, W)
  <2>1. Cardinality(W \cap DOMAIN parents) <= n /\ Cardinality(W \cap DOMAIN parents) \in Nat
    BY FS_Intersection, FS_CardinalityType
  <2>2. ~(Cardinality(W \cap DOMAIN parents) > n)
    BY <1>1, <2>1
  <2>. QED
    BY <1>1, <2>2, ExpandedOrClosed
<1>3. start \subseteq W /\ \A C : start \subseteq C /\ Closed(parents, C) => W \subseteq C
  BY <1>1, RoundsGrow, RoundsStayIn
<1>. QED
  BY <1>2, <1>3, WalkIsRound

-----------------------------------------------------------------------------
(***************************************************************************)
(* A larger graph, or one walked from further on, has a larger history.    *)
(***************************************************************************)
LEMMA WalkGrows ==
    ASSUME NEW f, NEW g, NEW S, NEW T, IsFiniteSet(DOMAIN f), IsFiniteSet(DOMAIN g),
           DOMAIN f \subseteq DOMAIN g, \A id \in DOMAIN f : f[id] \subseteq g[id],
           S \subseteq Walk(g, T)
    PROVE  Walk(f, S) \subseteq Walk(g, T)
<1>1. Closed(g, Walk(g, T))
  BY WalkIsHistory
<1>2. Closed(f, Walk(g, T))
  BY <1>1 DEF Closed
<1>. QED
  BY <1>2, WalkIsHistory

(***************************************************************************)
(* Where no commit is its own ancestor, a graph with one tip, a commit no  *)
(* other builds on, is the history of that tip.                            *)
(***************************************************************************)
LEMMA OneTipHasAll ==
    ASSUME NEW f, NEW rank, NEW tip, IsFiniteSet(DOMAIN f),
           \A c \in DOMAIN f : rank[c] \in Nat /\ \A p \in f[c] \cap DOMAIN f : rank[p] < rank[c],
           {c \in DOMAIN f : \A d \in DOMAIN f : c \notin f[d]} = {tip}
    PROVE  DOMAIN f \subseteq Walk(f, {tip})
<1>. DEFINE W == Walk(f, {tip})
            Missing == DOMAIN f \ W
            Above(c) == {d \in Missing : rank[d] > rank[c]}
            T == {n \in Nat : \E c \in Missing : n = Cardinality(Above(c))}
<1>1. tip \in W /\ Closed(f, W)
  BY WalkIsHistory
<1>2. \A c : IsFiniteSet(Above(c)) /\ Cardinality(Above(c)) \in Nat
  <2>1. IsFiniteSet(Missing)
    BY FS_Difference
  <2>. QED
    BY <2>1, FS_Subset, FS_CardinalityType
<1>. SUFFICES ASSUME Missing # {} PROVE FALSE
  OBVIOUS
<1>3. T \in SUBSET Nat /\ T # {}
  BY <1>2
<1>4. PICK n \in T : \A k \in T : ~(k < n)
  <2>. HIDE DEF T
  <2>. QED
    BY <1>3, LeastNumber
<1>5. PICK c \in Missing : n = Cardinality(Above(c))
  BY <1>4
<1>6. PICK d \in DOMAIN f : c \in f[d]
  BY <1>1, <1>5
<1>7. d \in Missing
  BY <1>1, <1>5, <1>6 DEF Closed
<1>8. Above(d) \subseteq Above(c) /\ d \in Above(c) /\ d \notin Above(d)
  BY <1>5, <1>6, <1>7
<1>9. Cardinality(Above(d)) < Cardinality(Above(c))
  <2>1. Cardinality(Above(d)) <= Cardinality(Above(c)) /\ Cardinality(Above(d)) # Cardinality(Above(c))
    BY <1>2, <1>8, FS_Subset
  <2>2. Cardinality(Above(d)) \in Nat /\ Cardinality(Above(c)) \in Nat
    BY <1>2
  <2>. HIDE DEF Above
  <2>. QED
    BY <2>1, <2>2
<1>10. Cardinality(Above(d)) \in T
  BY <1>2, <1>7
<1>. QED
  BY <1>4, <1>5, <1>9, <1>10

-----------------------------------------------------------------------------
(***************************************************************************)
(* The lineage of a repository is a walk too, over the sources of forks:   *)
(* the least set that has it and, with each repository, its source.        *)
(***************************************************************************)
SourcesIn(rs, ids) == {x.source : x \in {y \in rs : y.id \in ids}}

UpEquation(rs, id, f) ==
    f = [n \in Nat |-> IF n = 0 THEN {id} ELSE f[n - 1] \cup SourcesIn(rs, f[n - 1])]

LineageOf(rs, id) == (CHOOSE f : UpEquation(rs, id, f))[Cardinality(rs)] \ {0}

\* The sources as a graph.
SourceGraph(rs) == [id \in {x.id : x \in rs} |-> SourcesIn(rs, {id})]

LEMMA UpUnfolds ==
    ASSUME NEW rs, NEW id, NEW f, UpEquation(rs, id, f)
    PROVE  f[0] = {id} /\ \A n \in Nat : f[n + 1] = f[n] \cup SourcesIn(rs, f[n])
<1>1. f[0] = {id}
  BY DEF UpEquation
<1>2. ASSUME NEW n \in Nat PROVE f[n + 1] = f[n] \cup SourcesIn(rs, f[n])
  <2>1. n + 1 \in Nat /\ n + 1 # 0 /\ (n + 1) - 1 = n
    OBVIOUS
  <2>. QED
    BY <2>1, Zenon DEF UpEquation
<1>. QED
  BY <1>1, <1>2

LEMMA LineageRounds ==
    ASSUME NEW rs, NEW id, NEW n \in Nat
    PROVE  (CHOOSE f : UpEquation(rs, id, f))[n] = Rounds(SourceGraph(rs), {id})[n]
<1>. DEFINE g == SourceGraph(rs)
            up == CHOOSE f : UpEquation(rs, id, f)
            Seen == Rounds(g, {id})
            Same == {k \in Nat : up[k] = Seen[k]}
<1>1. ASSUME NEW ids PROVE UNION {g[i] : i \in ids \cap DOMAIN g} = SourcesIn(rs, ids)
  <2>1. ASSUME NEW s \in SourcesIn(rs, ids) PROVE s \in UNION {g[i] : i \in ids \cap DOMAIN g}
    <3>1. PICK x \in rs : x.id \in ids /\ s = x.source
      BY <2>1 DEF SourcesIn
    <3>2. x.id \in ids \cap DOMAIN g /\ s \in g[x.id]
      BY <3>1 DEF SourceGraph, SourcesIn
    <3>. QED
      BY <3>2
  <2>2. ASSUME NEW s \in UNION {g[i] : i \in ids \cap DOMAIN g} PROVE s \in SourcesIn(rs, ids)
    <3>1. PICK i \in ids \cap DOMAIN g : s \in g[i]
      BY <2>2
    <3>. QED
      BY <3>1 DEF SourceGraph, SourcesIn
  <2>. QED
    BY <2>1, <2>2
<1>2. PICK f : f = Seen
  OBVIOUS
<1>3. RoundsEquation(f, g, {id})
  BY <1>2, RoundsDefined
<1>4. UpEquation(rs, id, f)
  <2>. HIDE DEF g
  <2>1. f = [k \in Nat |-> IF k = 0 THEN {id} ELSE f[k - 1] \cup UNION {g[i] : i \in f[k - 1] \cap DOMAIN g}]
    BY <1>3, Zenon DEF RoundsEquation
  <2>2. \A k \in Nat : f[k] = IF k = 0 THEN {id} ELSE f[k - 1] \cup SourcesIn(rs, f[k - 1])
    BY <1>1, <2>1, Zenon
  <2>3. f = [k \in Nat |-> f[k]]
    BY <2>1
  <2>. QED
    BY <2>2, <2>3 DEF UpEquation
<1>5. UpEquation(rs, id, up)
  BY <1>4
<1>6. up[0] = Seen[0]
  <2>1. Seen[0] = {id}
    BY RoundsUnfold, Zenon
  <2>. HIDE DEF up, Seen
  <2>2. up[0] = {id}
    BY <1>5, UpUnfolds, Zenon
  <2>. QED
    BY <2>1, <2>2
<1>7. ASSUME NEW k \in Same PROVE k + 1 \in Same
  <2>1. up[k + 1] = up[k] \cup SourcesIn(rs, up[k])
    BY <1>5, UpUnfolds
  <2>2. Seen[k + 1] = Seen[k] \cup ParentsOfAll(g, Seen[k])
    BY RoundsUnfold
  <2>3. ParentsOfAll(g, Seen[k]) = SourcesIn(rs, Seen[k])
    BY <1>1, Zenon DEF ParentsOfAll
  <2>4. up[k] = Seen[k] /\ k \in Nat
    OBVIOUS
  <2>5. up[k + 1] = Seen[k + 1]
    <3>. HIDE DEF g, up, Seen
    <3>. QED
      BY <2>1, <2>2, <2>3, <2>4
  <2>. QED
    BY <2>4, <2>5
<1>8. Same = Nat
  <2>1. Same \in SUBSET Nat /\ 0 \in Same
    BY <1>6
  <2>. HIDE DEF Same
  <2>. QED
    BY <1>7, <2>1, Induction
<1>. QED
  BY <1>8

LEMMA LineageLeast ==
    ASSUME NEW rs, IsFiniteSet(rs), NEW id
    PROVE  /\ 0 \notin LineageOf(rs, id)
           /\ id # 0 => id \in LineageOf(rs, id)
           /\ \A x \in rs : x.id \in LineageOf(rs, id) => x.source \in LineageOf(rs, id) \cup {0}
           /\ \A C : id \in C /\ (\A x \in rs : x.id \in C => x.source \in C) => LineageOf(rs, id) \subseteq C
<1>. DEFINE g == SourceGraph(rs)
            n == Cardinality(rs)
            All == Rounds(g, {id})[n]
<1>1. n \in Nat
  BY FS_CardinalityType
<1>2. LineageOf(rs, id) = All \ {0}
  BY <1>1, LineageRounds DEF LineageOf
<1>3. IsFiniteSet(DOMAIN g) /\ Cardinality(DOMAIN g) <= n
  <2>. DEFINE h == [x \in rs |-> x.id]
  <2>1. h \in Surjection(rs, DOMAIN g)
    BY DEF Surjection, SourceGraph
  <2>. QED
    BY <2>1, FS_Surjection DEF ExistsSurjection
<1>4. Closed(g, All)
  <2>. DEFINE Left == All \cap DOMAIN g
  <2>1. IsFiniteSet(Left) /\ Cardinality(Left) <= Cardinality(DOMAIN g)
    BY <1>3, FS_Subset
  <2>2. Cardinality(Left) \in Nat /\ Cardinality(DOMAIN g) \in Nat
    BY <1>3, <2>1, FS_CardinalityType
  <2>3. ~(Cardinality(Left) > n)
    BY <1>1, <1>3, <2>1, <2>2
  <2>. QED
    BY <1>1, <1>3, <2>3, ExpandedOrClosed, Zenon
<1>5. id \in All /\ \A C : id \in C /\ Closed(g, C) => All \subseteq C
  BY <1>1, RoundsGrow, RoundsStayIn
<1>6. \A C : Closed(g, C) <=> \A x \in rs : x.id \in C => x.source \in C
  BY Zenon DEF Closed, SourceGraph, SourcesIn
<1>. HIDE DEF g, All
<1>. QED
  BY <1>2, <1>4, <1>5, <1>6

\* What is in the lineage of one in it.
LEMMA LineageOfLineage ==
    ASSUME NEW rs, IsFiniteSet(rs), \A x \in rs : x.id # 0,
           NEW id, NEW y \in LineageOf(rs, id)
    PROVE  LineageOf(rs, y) \subseteq LineageOf(rs, id)
<1>. DEFINE C == LineageOf(rs, id) \cup {0}
<1>1. y \in C /\ \A x \in rs : x.id \in C => x.source \in C
  BY LineageLeast
<1>2. LineageOf(rs, y) \subseteq C /\ 0 \notin LineageOf(rs, y)
  <2>. HIDE DEF C
  <2>. QED
    BY <1>1, LineageLeast
<1>. QED
  BY <1>2

\* Sources are older.
LEMMA LineageGoesBack ==
    ASSUME NEW rs, IsFiniteSet(rs), \A x \in rs : x.id \in Nat /\ x.source \in Nat /\ x.source < x.id,
           NEW id \in Nat
    PROVE  \A y \in LineageOf(rs, id) : y \in Nat /\ y <= id
<1>. DEFINE C == {y \in Nat : y <= id}
<1>1. id \in C /\ \A x \in rs : x.id \in C => x.source \in C
  OBVIOUS
<1>2. LineageOf(rs, id) \subseteq C
  <2>. HIDE DEF C
  <2>. QED
    BY <1>1, LineageLeast
<1>. QED
  BY <1>2

\* More repositories, longer lineages.
LEMMA LineageGrows ==
    ASSUME NEW rs, NEW more, rs \subseteq more, IsFiniteSet(rs), IsFiniteSet(more),
           \A x \in rs : x.id # 0, NEW id
    PROVE  LineageOf(rs, id) \subseteq LineageOf(more, id)
<1>. DEFINE C == LineageOf(more, id) \cup {0, id}
<1>1. \A x \in rs : x.id \in C => x.source \in C
  BY LineageLeast
<1>2. LineageOf(rs, id) \subseteq C /\ 0 \notin LineageOf(rs, id)
  <2>. HIDE DEF C
  <2>1. id \in C
    BY DEF C
  <2>. QED
    BY <1>1, <2>1, LineageLeast
<1>3. id = 0 \/ id \in LineageOf(more, id)
  BY LineageLeast
<1>. QED
  BY <1>2, <1>3
===============================================================================
