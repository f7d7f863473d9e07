--------------------------- MODULE Student_proofs ---------------------------
(***************************************************************************)
(* Theorems about what a student is shown, while the test runs and after   *)
(* it.                                                                     *)
(*                                                                         *)
(* Scoring: for every list of questions, every set of options and bands,   *)
(* and every set of answers, what the computations of a report agree on,   *)
(* what evidence the named strengths have, and what moves the level.       *)
(*                                                                         *)
(* TestRunner: for any number of tabs, questions, options, waiting saves   *)
(* and faults, that a submission grades what its page shows, and that a    *)
(* test under way does not end on the error page without a reason, and no  *)
(* page shows more than the server has done.                               *)
(***************************************************************************)
EXTENDS Scoring, TestRunner, FiniteSetTheorems, WellFoundedInduction, TLAPS

USE DEF resultVars

-----------------------------------------------------------------------------
(* Induction over the subsets of a finite set, stated for a set of good    *)
(* ones: a smallest subset that is not good has only good proper subsets.  *)

LEMMA LeastElement ==
  ASSUME NEW T \in SUBSET Nat, T # {}
  PROVE  \E n \in T : \A m \in T : n <= m
<1> DEFINE R == {ss \in Nat \X Nat : ss[1] < ss[2]}
<1>1. R = OpToRel(<, Nat)
  BY DEF OpToRel
<1>2. IsWellFoundedOn(R, Nat)
  BY <1>1, NatLessThanWellFounded
<1>3. \E n \in T : \A m \in T : ~ (<<m, n>> \in R)
  <2> HIDE DEF R
  <2> QED
    BY <1>2, WFMin
<1>4. PICK n \in T : \A m \in T : ~ (<<m, n>> \in R)
  BY <1>3
<1>5. ASSUME NEW m \in T PROVE n <= m
  <2>1. n \in Nat /\ m \in Nat /\ <<m, n>> \in Nat \X Nat
    OBVIOUS
  <2>2. m < n => <<m, n>> \in R
    BY <2>1
  <2>3. ~ (m < n)
    BY <1>4, <2>2
  <2> QED
    BY <2>1, <2>3
<1> QED
  BY <1>5

LEMMA SubsetInduction ==
  ASSUME NEW T, IsFiniteSet(T), NEW Good,
         \A S \in SUBSET T : (\A R \in SUBSET S : R # S => R \in Good) => S \in Good
  PROVE  \A S \in SUBSET T : S \in Good
<1> DEFINE Bad   == {S \in SUBSET T : S \notin Good}
           Sizes == {Cardinality(S) : S \in Bad}
<1> SUFFICES ASSUME Bad # {} PROVE FALSE
  OBVIOUS
<1>1. \A S \in SUBSET T : IsFiniteSet(S) /\ Cardinality(S) \in Nat
  BY FS_Subset, FS_CardinalityType
<1>2. Sizes \in SUBSET Nat /\ Sizes # {}
  BY <1>1
<1>3. PICK n \in Sizes : \A m \in Sizes : n <= m
  BY <1>2, LeastElement
<1>4. PICK S \in Bad : Cardinality(S) = n
  BY <1>3
<1>5. ASSUME NEW R \in SUBSET S, R # S PROVE R \in Good
  <2>1. Cardinality(R) < Cardinality(S)
    <3>1. IsFiniteSet(S) /\ Cardinality(S) \in Nat /\ Cardinality(R) \in Nat
      BY <1>1
    <3>2. Cardinality(R) <= Cardinality(S) /\ Cardinality(R) # Cardinality(S)
      BY <1>5, <3>1, FS_Subset
    <3> QED
      BY <3>1, <3>2
  <2>2. R \in Bad => n <= Cardinality(R)
    BY <1>3
  <2>3. Cardinality(R) \in Nat /\ n \in Nat
    BY <1>1, <1>2
  <2> QED
    BY <1>4, <2>1, <2>2, <2>3
<1> QED
  BY <1>5

(* A total and transitive relation has a first element in every finite set *)
(* that is not empty.                                                      *)
LEMMA FirstElement ==
  ASSUME NEW T, IsFiniteSet(T), NEW Before,
         \A x, y \in T : <<x, y>> \in Before \/ <<y, x>> \in Before,
         \A x, y, z \in T : <<x, y>> \in Before /\ <<y, z>> \in Before
                              => <<x, z>> \in Before
  PROVE  \A S \in SUBSET T : S # {} =>
           \E x \in S : \A y \in S : <<x, y>> \in Before
<1> DEFINE Least(x, S) == \A y \in S : <<x, y>> \in Before
           Good == {S \in SUBSET T : S # {} => \E x \in S : Least(x, S)}
<1>1. ASSUME NEW S \in SUBSET T, \A R \in SUBSET S : R # S => R \in Good
      PROVE  S \in Good
  <2>1. CASE S = {}
    BY <2>1
  <2>2. CASE S # {}
    <3>1. PICK x \in S : TRUE
      BY <2>2
    <3> DEFINE R == S \ {x}
    <3>2. R \in SUBSET S /\ R # S /\ R \in Good
      BY <1>1
    <3>3. <<x, x>> \in Before
      OBVIOUS
    <3>4. CASE R = {}
      <4>1. \A y \in S : y = x
        BY <3>4
      <4> QED
        BY <3>3, <4>1
    <3>5. CASE R # {}
      <4>1. PICK y \in R : Least(y, R)
        BY <3>2, <3>5
      <4>2. CASE <<x, y>> \in Before
        <5>1. \A z \in S : <<x, z>> \in Before
          BY <3>3, <4>1, <4>2
        <5> QED
          BY <5>1
      <4>3. CASE <<y, x>> \in Before
        <5>1. \A z \in S : <<y, z>> \in Before
          BY <4>1, <4>3
        <5> QED
          BY <5>1
      <4> QED
        BY <4>2, <4>3
    <3> QED
      BY <3>4, <3>5
  <2> QED
    BY <2>1, <2>2
<1>2. \A S \in SUBSET T : S \in Good
  <2> HIDE DEF Good
  <2> QED
    BY <1>1, SubsetInduction
<1> QED
  BY <1>2 DEF Good

-----------------------------------------------------------------------------
(* The strongest and the weakest course level.                             *)

Answering(e) == e.correct \in Nat /\ AnsweredIn(e) \in Nat /\ AnsweredIn(e) > 0

(* Accuracies are compared as fractions: the comparison is an order.       *)
LEMMA FractionsAreOrdered ==
  ASSUME NEW a \in Nat, NEW b \in Nat, NEW c \in Nat, NEW d \in Nat,
         NEW e \in Nat, NEW f \in Nat, b > 0, d > 0, f > 0,
         a * d >= c * b, c * f >= e * d
  PROVE  /\ a * f >= e * b
         /\ a * d > c * b \/ c * f > e * d => a * f > e * b
<1>1. (a * d) * f >= (c * b) * f
  OBVIOUS
<1>2. (c * f) * b >= (e * d) * b
  OBVIOUS
<1>3. /\ (a * d) * f = d * (a * f) /\ (e * d) * b = d * (e * b)
      /\ (c * b) * f = (c * f) * b
  OBVIOUS
<1>4. a * f \in Nat /\ e * b \in Nat
  OBVIOUS
<1>5. d * (a * f) >= d * (e * b)
  BY <1>1, <1>2, <1>3
<1>6. a * f >= e * b
  BY <1>4, <1>5
<1>7. ASSUME a * d > c * b PROVE a * f > e * b
  <2>1. (a * d) * f > (c * b) * f
    BY <1>7
  <2>2. d * (a * f) > d * (e * b)
    BY <2>1, <1>2, <1>3
  <2> QED
    BY <1>4, <2>2
<1>8. ASSUME c * f > e * d PROVE a * f > e * b
  <2>1. (c * f) * b > (e * d) * b
    BY <1>8
  <2>2. d * (a * f) > d * (e * b)
    BY <2>1, <1>1, <1>3
  <2> QED
    BY <1>4, <2>2
<1> QED
  BY <1>6, <1>7, <1>8

LEMMA MoreAccurateIsAnOrder ==
  ASSUME NEW x, NEW y, NEW z, Answering(x), Answering(y), Answering(z)
  PROVE  /\ ~ (MoreAccurate(x, y) /\ MoreAccurate(y, x))
         /\ ~ MoreAccurate(y, x) /\ ~ MoreAccurate(z, y) => ~ MoreAccurate(z, x)
         /\ MoreAccurate(x, y) /\ ~ MoreAccurate(z, y) => MoreAccurate(x, z)
         /\ ~ MoreAccurate(y, x) /\ MoreAccurate(y, z) => MoreAccurate(x, z)
<1> DEFINE a == x.correct  b == AnsweredIn(x)
           c == y.correct  d == AnsweredIn(y)
           e == z.correct  f == AnsweredIn(z)
<1>1. /\ a \in Nat /\ b \in Nat /\ b > 0 /\ c \in Nat /\ d \in Nat /\ d > 0
      /\ e \in Nat /\ f \in Nat /\ f > 0
  BY DEF Answering
<1>2. /\ MoreAccurate(x, y) <=> a * d > c * b
      /\ MoreAccurate(y, x) <=> c * b > a * d
      /\ MoreAccurate(y, z) <=> c * f > e * d
      /\ MoreAccurate(z, y) <=> e * d > c * f
      /\ MoreAccurate(x, z) <=> a * f > e * b
      /\ MoreAccurate(z, x) <=> e * b > a * f
  BY DEF MoreAccurate
<1> HIDE DEF a, b, c, d, e, f
<1>3. /\ a * d \in Nat /\ c * b \in Nat /\ c * f \in Nat
      /\ e * d \in Nat /\ a * f \in Nat /\ e * b \in Nat
  BY <1>1
<1>4. a * d >= c * b /\ c * f >= e * d =>
        /\ a * f >= e * b
        /\ a * d > c * b \/ c * f > e * d => a * f > e * b
  BY <1>1, FractionsAreOrdered
<1> QED
  BY <1>2, <1>3, <1>4

(* The order of the stable sort by falling accuracy.                       *)
Precedes(entries, n, m) ==
  \/ MoreAccurate(entries[n], entries[m])
  \/ ~ MoreAccurate(entries[m], entries[n]) /\ n <= m

Eligible(entries) == {n \in DOMAIN entries : HasEvidence(entries[n])}

CourseLevels(entries) ==
  /\ DOMAIN entries = 1 .. 6
  /\ \A n \in 1 .. 6 : /\ entries[n].correct \in Nat
                       /\ entries[n].incorrect \in Nat
                       /\ entries[n].total \in Nat
                       /\ entries[n].label = StandardPlacementLevels[n]

LEMMA PrecedesIsTotal ==
  ASSUME NEW entries, CourseLevels(entries)
  PROVE  /\ \A n \in Eligible(entries) : n \in 1 .. 6 /\ Answering(entries[n])
         /\ \A n, m \in Eligible(entries) :
              Precedes(entries, n, m) \/ Precedes(entries, m, n)
         /\ \A n, m \in Eligible(entries) :
              Precedes(entries, n, m) /\ Precedes(entries, m, n) => n = m
         /\ \A n, m, k \in Eligible(entries) :
              Precedes(entries, n, m) /\ Precedes(entries, m, k)
                => Precedes(entries, n, k)
<1>1. \A n \in Eligible(entries) : n \in 1 .. 6 /\ Answering(entries[n])
  BY DEF Eligible, CourseLevels, HasEvidence, Answering, AnsweredIn
<1>2. ASSUME NEW n \in Eligible(entries), NEW m \in Eligible(entries)
      PROVE  /\ Precedes(entries, n, m) \/ Precedes(entries, m, n)
             /\ Precedes(entries, n, m) /\ Precedes(entries, m, n) => n = m
  <2>1. ~ (MoreAccurate(entries[n], entries[m]) /\ MoreAccurate(entries[m], entries[n]))
    BY <1>1, MoreAccurateIsAnOrder
  <2>2. n \in 1 .. 6 /\ m \in 1 .. 6
    BY <1>1
  <2> QED
    BY <2>1, <2>2 DEF Precedes
<1>3. ASSUME NEW n \in Eligible(entries), NEW m \in Eligible(entries),
             NEW k \in Eligible(entries),
             Precedes(entries, n, m), Precedes(entries, m, k)
      PROVE  Precedes(entries, n, k)
  <2> DEFINE x == entries[n]  y == entries[m]  z == entries[k]
  <2>1. /\ ~ MoreAccurate(y, x) /\ ~ MoreAccurate(z, y) => ~ MoreAccurate(z, x)
        /\ MoreAccurate(x, y) /\ ~ MoreAccurate(z, y) => MoreAccurate(x, z)
        /\ ~ MoreAccurate(y, x) /\ MoreAccurate(y, z) => MoreAccurate(x, z)
    BY <1>1, MoreAccurateIsAnOrder
  <2>2. ~ (MoreAccurate(x, y) /\ MoreAccurate(y, x)) /\ ~ (MoreAccurate(y, z) /\ MoreAccurate(z, y))
    BY <1>1, MoreAccurateIsAnOrder
  <2>3. n \in 1 .. 6 /\ m \in 1 .. 6 /\ k \in 1 .. 6
    BY <1>1
  <2>4. /\ MoreAccurate(x, y) \/ (~ MoreAccurate(y, x) /\ n <= m)
        /\ MoreAccurate(y, z) \/ (~ MoreAccurate(z, y) /\ m <= k)
    BY <1>3 DEF Precedes
  <2>5. MoreAccurate(x, z) \/ (~ MoreAccurate(z, x) /\ n <= k)
    <3> HIDE DEF x, y, z
    <3> QED
      BY <2>1, <2>2, <2>3, <2>4
  <2> QED
    BY <2>5 DEF Precedes
<1> QED
  BY <1>1, <1>2, <1>3

(* The first and the last of the sorted levels.                            *)
LEMMA SortHasEnds ==
  ASSUME NEW entries, CourseLevels(entries), Eligible(entries) # {}
  PROVE  /\ \E n \in Eligible(entries) :
              \A m \in Eligible(entries) : Precedes(entries, n, m)
         /\ \E n \in Eligible(entries) :
              \A m \in Eligible(entries) : Precedes(entries, m, n)
<1> DEFINE T == Eligible(entries)
           Up == {p \in T \X T : Precedes(entries, p[1], p[2])}
           Down == {p \in T \X T : Precedes(entries, p[2], p[1])}
<1>1. IsFiniteSet(T) /\ T \in SUBSET T
  <2>1. IsFiniteSet(1 .. 6)
    <3>1. 1 \in Int /\ 6 \in Int
      OBVIOUS
    <3> QED
      BY <3>1, FS_Interval
  <2>2. T \in SUBSET (1 .. 6)
    BY PrecedesIsTotal
  <2> QED
    BY <2>1, <2>2, FS_Subset
<1>2. \A x, y \in T : /\ <<x, y>> \in Up <=> Precedes(entries, x, y)
                      /\ <<x, y>> \in Down <=> Precedes(entries, y, x)
  OBVIOUS
<1>3. /\ \A x, y \in T : Precedes(entries, x, y) \/ Precedes(entries, y, x)
      /\ \A x, y, z \in T : Precedes(entries, x, y) /\ Precedes(entries, y, z)
                              => Precedes(entries, x, z)
  BY PrecedesIsTotal
<1>4. \E n \in T : \A m \in T : <<n, m>> \in Up
  <2>1. /\ \A x, y \in T : <<x, y>> \in Up \/ <<y, x>> \in Up
        /\ \A x, y, z \in T : <<x, y>> \in Up /\ <<y, z>> \in Up => <<x, z>> \in Up
    <3>1. ASSUME NEW x \in T, NEW y \in T
          PROVE  <<x, y>> \in Up \/ <<y, x>> \in Up
      <4> HIDE DEF Up, Down, T
      <4> QED
        BY <1>2, <1>3
    <3>2. ASSUME NEW x \in T, NEW y \in T, NEW z \in T,
                 <<x, y>> \in Up, <<y, z>> \in Up
          PROVE  <<x, z>> \in Up
      <4> HIDE DEF Up, Down, T
      <4>1. Precedes(entries, x, y) /\ Precedes(entries, y, z)
        BY <1>2, <3>2
      <4>2. Precedes(entries, x, z)
        BY <1>3, <4>1
      <4> QED
        BY <1>2, <4>2
    <3> HIDE DEF Up, Down, T
    <3> QED
      BY <3>1, <3>2
  <2> HIDE DEF Up, Down, T
  <2>2. \A S \in SUBSET T : S # {} => \E x \in S : \A y \in S : <<x, y>> \in Up
    BY <1>1, <2>1, FirstElement
  <2> QED
    BY <1>1, <2>2 DEF T
<1>5. \E n \in T : \A m \in T : <<n, m>> \in Down
  <2>1. /\ \A x, y \in T : <<x, y>> \in Down \/ <<y, x>> \in Down
        /\ \A x, y, z \in T :
             <<x, y>> \in Down /\ <<y, z>> \in Down => <<x, z>> \in Down
    <3>1. ASSUME NEW x \in T, NEW y \in T
          PROVE  <<x, y>> \in Down \/ <<y, x>> \in Down
      <4> HIDE DEF Up, Down, T
      <4> QED
        BY <1>2, <1>3
    <3>2. ASSUME NEW x \in T, NEW y \in T, NEW z \in T,
                 <<x, y>> \in Down, <<y, z>> \in Down
          PROVE  <<x, z>> \in Down
      <4> HIDE DEF Up, Down, T
      <4>1. Precedes(entries, y, x) /\ Precedes(entries, z, y)
        BY <1>2, <3>2
      <4>2. Precedes(entries, z, x)
        BY <1>3, <4>1
      <4> QED
        BY <1>2, <4>2
    <3> HIDE DEF Up, Down, T
    <3> QED
      BY <3>1, <3>2
  <2> HIDE DEF Up, Down, T
  <2>2. \A S \in SUBSET T : S # {} => \E x \in S : \A y \in S : <<x, y>> \in Down
    BY <1>1, <2>1, FirstElement
  <2> QED
    BY <1>1, <2>2 DEF T
<1> QED
  BY <1>2, <1>4, <1>5

LEMMA Summarized ==
  ASSUME NEW entries, CourseLevels(entries), NEW sum,
         sum = SummarizeCourseLevelStrengthWeakness(entries)
  PROVE  /\ Eligible(entries) = {} => sum.strongest = None /\ sum.weakest = None
         /\ Eligible(entries) # {} =>
              \E n \in Eligible(entries) :
                /\ sum.strongest = entries[n].label
                /\ \A m \in Eligible(entries) : Precedes(entries, n, m)
         /\ \/ sum.weakest = None
            \/ /\ Cardinality(Eligible(entries)) > 1
               /\ \E n \in Eligible(entries) :
                    /\ sum.weakest = entries[n].label
                    /\ \A m \in Eligible(entries) : Precedes(entries, m, n)
<1> DEFINE T == Eligible(entries)
           s == CHOOSE n \in T : \A m \in T : Precedes(entries, n, m)
           w == CHOOSE n \in T : \A m \in T : Precedes(entries, m, n)
           ss == CHOOSE n \in T : \A m \in T :
                     \/ MoreAccurate(entries[n], entries[m])
                     \/ ~ MoreAccurate(entries[m], entries[n]) /\ n <= m
           ww == CHOOSE n \in T : \A m \in T :
                     \/ MoreAccurate(entries[m], entries[n])
                     \/ ~ MoreAccurate(entries[n], entries[m]) /\ n >= m
<1>1. /\ sum.strongest = IF T = {} THEN None ELSE entries[ss].label
      /\ sum.weakest = IF Cardinality(T) > 1 THEN entries[ww].label ELSE None
  BY DEF SummarizeCourseLevelStrengthWeakness, Eligible
<1>2. T # {} => ss \in T /\ \A m \in T : Precedes(entries, ss, m)
  <2>1. T # {} => \E n \in T : \A m \in T :
                     \/ MoreAccurate(entries[n], entries[m])
                     \/ ~ MoreAccurate(entries[m], entries[n]) /\ n <= m
    <3>1. T # {} => \E n \in T : \A m \in T : Precedes(entries, n, m)
      BY SortHasEnds
    <3> HIDE DEF T
    <3> QED
      BY <3>1 DEF Precedes
  <2> HIDE DEF T
  <2> QED
    BY <2>1 DEF Precedes
<1>3. T # {} => ww \in T /\ \A m \in T : Precedes(entries, m, ww)
  <2>1. T # {} => \E n \in T : \A m \in T :
                     \/ MoreAccurate(entries[m], entries[n])
                     \/ ~ MoreAccurate(entries[n], entries[m]) /\ n >= m
    <3>1. T # {} => \E n \in T : \A m \in T : Precedes(entries, m, n)
      BY SortHasEnds
    <3>2. \A n, m \in T : m <= n => n >= m
      BY PrecedesIsTotal
    <3> HIDE DEF T
    <3> QED
      BY <3>1, <3>2 DEF Precedes
  <2>2. \A n, m \in T : n >= m => m <= n
    BY PrecedesIsTotal
  <2>3. T # {} => ww \in T /\ \A m \in T :
                     \/ MoreAccurate(entries[m], entries[ww])
                     \/ ~ MoreAccurate(entries[ww], entries[m]) /\ ww >= m
    <3> HIDE DEF T
    <3> QED
      BY <2>1
  <2> HIDE DEF T, ww
  <2> QED
    BY <2>2, <2>3 DEF Precedes
<1>4. Cardinality(T) > 1 => T # {}
  BY FS_EmptySet
<1>5. T = {} => ~ (Cardinality(T) > 1)
  BY <1>4
<1> HIDE DEF ss, ww
<1> QED
  BY <1>1, <1>2, <1>3, <1>4, <1>5

LEMMA IdsAreFinite ==
  /\ IsFiniteSet(Ids) /\ Cardinality(Ids) = Total /\ Total \in Nat
  /\ \A S \in SUBSET Ids : IsFiniteSet(S) /\ Cardinality(S) \in Nat
<1>1. Ids = 1 .. Total /\ Total \in Nat
  BY QuestionsAreListed DEF Ids, Total
<1>2. 1 \in Int /\ Total \in Int
  BY <1>1
<1>3. IsFiniteSet(1 .. Total) /\ Cardinality(1 .. Total) = Total
  BY <1>1, <1>2, FS_Interval
<1>4. \A S \in SUBSET Ids : IsFiniteSet(S) /\ Cardinality(S) \in Nat
  BY <1>1, <1>3, FS_Subset, FS_CardinalityType
<1> QED
  BY <1>1, <1>3, <1>4

LEMMA LevelsDiffer ==
  /\ DOMAIN ProgressionBands = 1 .. 6
  /\ \A n \in 1 .. 6 : /\ ProgressionBands[n].label = StandardPlacementLevels[n]
                       /\ StandardPlacementLevels[n] # None
                       /\ ProgressionBands[n] # None
  /\ \A n, m \in 1 .. 6 :
        StandardPlacementLevels[n] = StandardPlacementLevels[m] => n = m
<1>1. /\ DOMAIN ProgressionBands = 1 .. 6
      /\ \A n \in 1 .. 6 : ProgressionBands[n].label = StandardPlacementLevels[n]
  BY DEF ProgressionBands
<1>2. DOMAIN StandardPlacementLevels = 1 .. 6
  BY DEF StandardPlacementLevels
<1>3. \A n \in 1 .. 6 : /\ StandardPlacementLevels[n] # None
                        /\ ProgressionBands[n] # None
  BY <1>1, <1>2, NoneIsNoLevel DEF Range
<1>4. \A n, m \in 1 .. 6 :
        StandardPlacementLevels[n] = StandardPlacementLevels[m] => n = m
  <2>1. /\ StandardPlacementLevels[1] = "Beginner"
        /\ StandardPlacementLevels[2] = "Elementary"
        /\ StandardPlacementLevels[3] = "Pre-Intermediate"
        /\ StandardPlacementLevels[4] = "Intermediate"
        /\ StandardPlacementLevels[5] = "Upper Intermediate"
        /\ StandardPlacementLevels[6] = "Advanced"
    BY DEF StandardPlacementLevels
  <2>2. \A n \in 1 .. 6 : n = 1 \/ n = 2 \/ n = 3 \/ n = 4 \/ n = 5 \/ n = 6
    OBVIOUS
  <2> QED
    BY <2>1, <2>2
<1> QED
  BY <1>1, <1>3, <1>4

LEMMA PerformanceHasLevels ==
  ASSUME NEW a
  PROVE  CourseLevels(ComputeCourseLevelPerformance(a))
<1> DEFINE here(n) == {k \in Ids : InBand(k, ProgressionBands[n])}
           entry(n) == [label      |-> ProgressionBands[n].label,
                        correct    |-> Cardinality(here(n) \cap CorrectAnswers(a)),
                        incorrect  |-> Cardinality(here(n) \cap WrongAnswers(a)),
                        unanswered |-> Cardinality(here(n) \ Answered(a)),
                        total      |-> Cardinality(here(n))]
           E == ComputeCourseLevelPerformance(a)
<1>1. E = [n \in 1 .. 6 |-> entry(n)]
  BY LevelsDiffer DEF ComputeCourseLevelPerformance
<1>2. ASSUME NEW n \in 1 .. 6
      PROVE  /\ entry(n).correct \in Nat /\ entry(n).incorrect \in Nat
             /\ entry(n).total \in Nat
             /\ entry(n).label = StandardPlacementLevels[n]
  <2>1. /\ here(n) \cap CorrectAnswers(a) \in SUBSET Ids
        /\ here(n) \cap WrongAnswers(a) \in SUBSET Ids
        /\ here(n) \in SUBSET Ids
    OBVIOUS
  <2> HIDE DEF here
  <2>2. /\ Cardinality(here(n) \cap CorrectAnswers(a)) \in Nat
        /\ Cardinality(here(n) \cap WrongAnswers(a)) \in Nat
        /\ Cardinality(here(n)) \in Nat
    BY <2>1, IdsAreFinite
  <2> QED
    BY <2>2, LevelsDiffer
<1> HIDE DEF entry, E
<1>3. DOMAIN E = 1 .. 6 /\ \A n \in 1 .. 6 : E[n] = entry(n)
  BY <1>1
<1>4. CourseLevels(E)
  BY <1>2, <1>3 DEF CourseLevels
<1> QED
  BY <1>4 DEF E

(* Of two levels of which the first is not more accurate, the second has a *)
(* Strong badge if the first has.                                          *)
LEMMA StrongIsAccurate ==
  ASSUME NEW x, NEW y, Answering(x), Answering(y), ~ MoreAccurate(x, y),
         QualitativeLabelFor(x) = "Strong"
  PROVE  QualitativeLabelFor(y) = "Strong"
<1> DEFINE a == x.correct  b == AnsweredIn(x)  c == y.correct  d == AnsweredIn(y)
<1>1. a \in Nat /\ b \in Nat /\ b > 0 /\ c \in Nat /\ d \in Nat /\ d > 0
  BY DEF Answering
<1>2. ~ (a * d > c * b)
  BY DEF MoreAccurate
<1>3. 100 * a >= 80 * b
  <2>1. ~ (100 * a >= 80 * b) => QualitativeLabelFor(x) # "Strong"
    <3> HIDE DEF a
    <3> SUFFICES ASSUME ~ (100 * a >= 80 * b) PROVE QualitativeLabelFor(x) # "Strong"
      OBVIOUS
    <3>1. QualitativeLabelFor(x) =
            CASE b = 0 -> None
              [] 100 * a >= 80 * b  -> "Strong"
              [] 100 * a < 50 * b   -> "Needs improvement"
              [] OTHER              -> "Developing"
      BY DEF QualitativeLabelFor, a
    <3> HIDE DEF b
    <3> QED
      BY <1>1, <3>1
  <2> QED
    BY <2>1
<1>4. 100 * c >= 80 * d
  <2> HIDE DEF a, b, c, d
  <2>1. (100 * a) * d >= (80 * b) * d
    BY <1>1, <1>3
  <2>2. a * d \in Nat /\ c * b \in Nat /\ a * d <= c * b
    BY <1>1, <1>2
  <2>3. 100 * (c * b) >= 100 * (a * d)
    BY <2>2
  <2>4. (100 * a) * d = 100 * (a * d) /\ (80 * b) * d = b * (80 * d)
        /\ 100 * (c * b) = b * (100 * c)
    BY <1>1
  <2>5. 80 * d \in Nat /\ 100 * c \in Nat
    BY <1>1
  <2>6. b * (100 * c) >= b * (80 * d)
    <3> DEFINE low == b * (80 * d)  mid == a * d  high == b * (100 * c)
    <3>1. low <= 100 * mid /\ 100 * mid <= high
      BY <2>1, <2>3, <2>4
    <3>2. low \in Int /\ mid \in Int /\ high \in Int
      BY <1>1
    <3> HIDE DEF low, mid, high
    <3>3. low <= high
      BY <3>1, <3>2
    <3> QED
      BY <3>2, <3>3 DEF low, high
  <2> QED
    BY <1>1, <2>5, <2>6
<1>5. QualitativeLabelFor(y) =
        CASE d = 0 -> None
          [] 100 * c >= 80 * d  -> "Strong"
          [] 100 * c < 50 * d   -> "Needs improvement"
          [] OTHER              -> "Developing"
  BY DEF QualitativeLabelFor
<1>6. ~ (d = 0) /\ ~ (100 * c < 50 * d)
  <2> HIDE DEF c, d
  <2> QED
    BY <1>1, <1>4
<1> HIDE DEF c, d
<1> QED
  BY <1>4, <1>5, <1>6

(* What a student's pages show of strengths, for any answers: StrengthOf   *)
(* is StrengthIsEvidenced of the summary and the badges of the levels.     *)
StrengthOf(levels, sum, badges) ==
  LET Named(l) == {n \in DOMAIN levels : levels[n].label = l}
      Evident  == {n \in DOMAIN levels : HasEvidence(levels[n])}
  IN  /\ (sum.strongest = None) = (Evident = {})
      /\ sum.weakest # None => sum.weakest # sum.strongest
      /\ Named(sum.strongest) \cup Named(sum.weakest) \subseteq Evident
      /\ \A n \in Named(sum.strongest), m \in Evident :
            ~ MoreAccurate(levels[m], levels[n])
      /\ \A n \in Named(sum.weakest), m \in Evident :
            /\ ~ MoreAccurate(levels[n], levels[m])
            /\ badges[n] = "Strong" => badges[m] = "Strong"

LEMMA StrengthOfReport ==
  StrengthIsEvidenced <=>
    (submitted =>
       LET r == StudentReport
       IN  StrengthOf(r.courseLevels, DetailedAnalysis(r), DetailedAnalysis(r).badges))
BY DEF StrengthIsEvidenced, StrengthOf

LEMMA LevelsAreEvidenced ==
  ASSUME NEW levels, CourseLevels(levels), NEW sum, NEW shown, NEW badges,
         sum = SummarizeCourseLevelStrengthWeakness(levels),
         shown.strongest = sum.strongest, shown.weakest = sum.weakest,
         \A n \in 1 .. 6 : badges[n] = QualitativeLabelFor(levels[n])
  PROVE  StrengthOf(levels, shown, badges)
<1> DEFINE T == Eligible(levels)
           Named(l) == {n \in 1 .. 6 : levels[n].label = l}
<1>1. /\ DOMAIN levels = 1 .. 6
      /\ \A n \in 1 .. 6 : levels[n].label = StandardPlacementLevels[n]
  BY DEF CourseLevels
<1>2. \A n \in T : n \in 1 .. 6 /\ Answering(levels[n])
  BY PrecedesIsTotal
<1>3. Named(None) = {}
  BY <1>1, LevelsDiffer
<1>4. \A n \in 1 .. 6 : Named(levels[n].label) = {n} /\ levels[n].label # None
  BY <1>1, LevelsDiffer
<1>5. \A n, m \in T : /\ Precedes(levels, n, m) => ~ MoreAccurate(levels[m], levels[n])
                      /\ Precedes(levels, n, m) /\ Precedes(levels, m, n) => n = m
  <2>1. \A n, m \in T : ~ (MoreAccurate(levels[n], levels[m])
                             /\ MoreAccurate(levels[m], levels[n]))
    BY <1>2, MoreAccurateIsAnOrder
  <2>2. \A n, m \in T : Precedes(levels, n, m) => ~ MoreAccurate(levels[m], levels[n])
    <3> HIDE DEF T
    <3> QED
      BY <2>1 DEF Precedes
  <2> QED
    BY <2>2, PrecedesIsTotal
<1>6. /\ T = {} => shown.strongest = None /\ shown.weakest = None
      /\ T # {} => \E n \in T : /\ shown.strongest = levels[n].label
                                /\ \A m \in T : Precedes(levels, n, m)
      /\ \/ shown.weakest = None
         \/ /\ Cardinality(T) > 1
            /\ \E n \in T : /\ shown.weakest = levels[n].label
                            /\ \A m \in T : Precedes(levels, m, n)
  BY Summarized
<1>7. (shown.strongest = None) = (T = {})
  <2> HIDE DEF T, Named
  <2> QED
    BY <1>2, <1>4, <1>6
<1>8. /\ Named(shown.strongest) \subseteq T
      /\ \A n \in Named(shown.strongest), m \in T : Precedes(levels, n, m)
  <2> HIDE DEF T, Named
  <2>1. CASE T = {}
    BY <1>3, <1>6, <2>1
  <2>2. CASE T # {}
    <3>1. PICK n \in T : /\ shown.strongest = levels[n].label
                         /\ \A m \in T : Precedes(levels, n, m)
      BY <1>6, <2>2
    <3>2. Named(shown.strongest) = {n}
      BY <1>2, <1>4, <3>1
    <3> QED
      BY <3>1, <3>2
  <2> QED
    BY <2>1, <2>2
<1>9. /\ Named(shown.weakest) \subseteq T
      /\ \A n \in Named(shown.weakest), m \in T : Precedes(levels, m, n)
      /\ Named(shown.weakest) = {} \/ Cardinality(T) > 1
      /\ shown.weakest # None => Named(shown.weakest) # {}
  <2> HIDE DEF T, Named
  <2>1. CASE shown.weakest = None
    BY <1>3, <2>1
  <2>2. CASE shown.weakest # None
    <3>1. PICK n \in T : /\ shown.weakest = levels[n].label
                         /\ \A m \in T : Precedes(levels, m, n)
      BY <1>6, <2>2
    <3>2. Named(shown.weakest) = {n}
      BY <1>2, <1>4, <3>1
    <3>3. Cardinality(T) > 1
      BY <1>6, <2>2
    <3> QED
      BY <3>1, <3>2, <3>3
  <2> QED
    BY <2>1, <2>2
<1>10. shown.weakest # None => shown.weakest # shown.strongest
  <2> SUFFICES ASSUME shown.weakest # None, shown.weakest = shown.strongest
               PROVE  FALSE
    OBVIOUS
  <2>1. PICK n \in T : n \in Named(shown.weakest)
    <3> HIDE DEF T, Named
    <3> QED
      BY <1>9
  <2>2. \A m \in T : m = n
    <3>1. \A m \in T : Precedes(levels, n, m) /\ Precedes(levels, m, n)
      <4> HIDE DEF T, Named
      <4> QED
        BY <1>8, <1>9, <2>1
    <3> HIDE DEF T
    <3> QED
      BY <1>5, <2>1, <3>1
  <2>3. T = {n}
    <3> HIDE DEF T
    <3> QED
      BY <2>1, <2>2
  <2>4. Cardinality({n}) = 1
    BY FS_Singleton
  <2>5. Cardinality(T) > 1
    <3> HIDE DEF T, Named
    <3> QED
      BY <1>9, <2>1
  <2> HIDE DEF T
  <2> QED
    BY <2>3, <2>4, <2>5
<1>11. \A n \in Named(shown.weakest), m \in T :
          badges[n] = "Strong" => badges[m] = "Strong"
  <2> SUFFICES ASSUME NEW n \in Named(shown.weakest), NEW m \in T,
                      badges[n] = "Strong"
               PROVE  badges[m] = "Strong"
    OBVIOUS
  <2>1. n \in T /\ Precedes(levels, m, n)
    <3> HIDE DEF T, Named
    <3> QED
      BY <1>9
  <2>2. ~ MoreAccurate(levels[n], levels[m])
    BY <1>5, <2>1
  <2>3. QualitativeLabelFor(levels[n]) = "Strong"
    BY <1>2, <2>1
  <2>4. QualitativeLabelFor(levels[m]) = "Strong"
    BY <1>2, <2>1, <2>2, <2>3, StrongIsAccurate
  <2> QED
    BY <1>2, <2>4
<1>12. /\ \A n \in Named(shown.strongest), m \in T :
            ~ MoreAccurate(levels[m], levels[n])
       /\ \A n \in Named(shown.weakest), m \in T :
            ~ MoreAccurate(levels[n], levels[m])
  <2> HIDE DEF T, Named
  <2> QED
    BY <1>5, <1>8, <1>9
<1>13. /\ T = {n \in DOMAIN levels : HasEvidence(levels[n])}
       /\ \A l : Named(l) = {n \in DOMAIN levels : levels[n].label = l}
  BY <1>1 DEF Eligible
<1>14. Named(shown.strongest) \cup Named(shown.weakest) \subseteq T
  <2> HIDE DEF T, Named
  <2> QED
    BY <1>8, <1>9
<1> HIDE DEF T, Named
<1> QED
  BY <1>7, <1>10, <1>11, <1>12, <1>13, <1>14 DEF StrengthOf

(* The strengths a student is told of rest on evidence, for every list of  *)
(* questions and every set of answers.                                     *)
THEOREM EvidencedStrength == ResultsSpec => []StrengthIsEvidenced
<1>1. StrengthIsEvidenced
  <2> DEFINE r == StudentReport
             levels == ComputeCourseLevelPerformance(answer)
             shown == DetailedAnalysis(r)
  <2>1. /\ r.courseLevels = levels
        /\ r.strengthWeakness = SummarizeCourseLevelStrengthWeakness(levels)
    BY DEF StudentReport, BuildStudentResultSummary
  <2>2. CourseLevels(levels)
    BY PerformanceHasLevels
  <2> HIDE DEF r, levels
  <2>3. /\ shown.strongest = r.strengthWeakness.strongest
        /\ shown.weakest = r.strengthWeakness.weakest
        /\ shown.badges = [n \in DOMAIN r.courseLevels |->
                             QualitativeLabelFor(r.courseLevels[n])]
    BY DEF DetailedAnalysis
  <2>4. \A n \in 1 .. 6 : shown.badges[n] = QualitativeLabelFor(levels[n])
    BY <2>1, <2>2, <2>3 DEF CourseLevels
  <2> HIDE DEF shown
  <2>5. StrengthOf(levels, shown, shown.badges)
    BY <2>1, <2>2, <2>3, <2>4, LevelsAreEvidenced
  <2> QED
    BY <2>1, <2>5, StrengthOfReport DEF r, shown
<1> QED
  BY <1>1, PTL

-----------------------------------------------------------------------------
(* The band of a score.                                                    *)

LEMMA MatchedBandCovers ==
  ASSUME NEW raw, NEW total, MatchPlacementBand(raw, total, Bands) # None
  PROVE  /\ MatchPlacementBand(raw, total, Bands) \in Bands
         /\ Covers(MatchPlacementBand(raw, total, Bands), raw, total)
<1> DEFINE covering == {b \in Bands : Covers(b, raw, total)}
           Before == {p \in Bands \X Bands : p[1].order <= p[2].order}
           first == CHOOSE b \in covering : \A c \in covering : b.order <= c.order
<1>1. covering # {} /\ MatchPlacementBand(raw, total, Bands) = first
  BY DEF MatchPlacementBand
<1>2. \A b, c \in Bands : <<b, c>> \in Before <=> b.order <= c.order
  OBVIOUS
<1>3. \A b \in Bands : b.order \in Int
  BY BandsAreRows
<1>4. \E b \in covering : \A c \in covering : <<b, c>> \in Before
  <2> HIDE DEF Before
  <2>1. /\ \A b, c \in Bands : <<b, c>> \in Before \/ <<c, b>> \in Before
        /\ \A b, c, d \in Bands :
             <<b, c>> \in Before /\ <<c, d>> \in Before => <<b, d>> \in Before
    BY <1>2, <1>3
  <2>2. \A S \in SUBSET Bands : S # {} => \E b \in S : \A c \in S : <<b, c>> \in Before
    BY <2>1, BandsAreRows, FirstElement
  <2>3. covering \in SUBSET Bands
    OBVIOUS
  <2> HIDE DEF covering
  <2> QED
    BY <1>1, <2>2, <2>3
<1>5. \E b \in covering : \A c \in covering : b.order <= c.order
  <2>1. \A b, c \in covering : <<b, c>> \in Before => b.order <= c.order
    BY <1>2
  <2> HIDE DEF covering, Before
  <2> QED
    BY <1>4, <2>1
<1>6. first \in covering
  <2> HIDE DEF covering
  <2> QED
    BY <1>5
<1> HIDE DEF first
<1> QED
  BY <1>1, <1>6

LEMMA MoreCorrectIsNoLower ==
  ASSUME NEW a, NEW b, BandsRise, CorrectAnswers(a) \subseteq CorrectAnswers(b),
         BandOf(a) # None, BandOf(b) # None
  PROVE  BandOf(a).order <= BandOf(b).order
<1> DEFINE low == ComputeRawScore(a)  high == ComputeRawScore(b)
<1>1. low \in 0 .. Total /\ high \in 0 .. Total /\ low <= high
  <2>1. CorrectAnswers(a) \in SUBSET Ids /\ CorrectAnswers(b) \in SUBSET Ids
    BY DEF CorrectAnswers, Answered
  <2>2. /\ IsFiniteSet(CorrectAnswers(b)) /\ IsFiniteSet(Ids)
        /\ low \in Nat /\ high \in Nat /\ Total \in Nat /\ Cardinality(Ids) = Total
    BY <2>1, IdsAreFinite DEF ComputeRawScore
  <2>3. /\ Cardinality(CorrectAnswers(a)) <= Cardinality(CorrectAnswers(b))
        /\ Cardinality(CorrectAnswers(b)) <= Cardinality(Ids)
    BY <2>1, <2>2, FS_Subset
  <2>4. low <= high /\ high <= Total
    BY <2>2, <2>3 DEF ComputeRawScore
  <2> HIDE DEF low, high
  <2> QED
    BY <2>2, <2>4
<1>2. /\ BandOf(a) \in Bands /\ Covers(BandOf(a), low, Total)
      /\ BandOf(b) \in Bands /\ Covers(BandOf(b), high, Total)
  BY MatchedBandCovers DEF BandOf
<1> HIDE DEF low, high
<1>3. BandOf(a).order \in Int /\ BandOf(b).order \in Int
  BY <1>2, BandsAreRows
<1>4. CASE low = high
  <2>1. BandOf(a) = BandOf(b)
    BY <1>4 DEF BandOf, low, high
  <2> QED
    BY <1>3, <2>1
<1>5. CASE low # high
  <2>1. ~ (high <= low)
    BY <1>1, <1>5
  <2>2. ~ (BandOf(b).order < BandOf(a).order)
    BY <1>1, <1>2, <2>1 DEF BandsRise
  <2> QED
    BY <1>3, <2>2
<1> QED
  BY <1>4, <1>5

(* Where every band is higher than the bands before it, an answer that is  *)
(* set, changed or cleared never lowers the level as long as the correct   *)
(* answers are kept, whatever the bands' metrics, boundaries and gaps.     *)
THEOREM LevelsNeverFall == ResultsSpec => LevelNeverFalls
<1>1. (BandsRise /\ CorrectAnswers(answer) \subseteq CorrectAnswers(answer')
         /\ BandOf(answer) # None /\ BandOf(answer') # None)
      => BandOf(answer).order <= BandOf(answer').order
  BY MoreCorrectIsNoLower
<1> QED
  BY <1>1, PTL DEF LevelNeverFalls

-----------------------------------------------------------------------------
(* Folds.  FoldLeft is defined by a function of the sets of positions that *)
(* calls itself without the last position; that there is such a function   *)
(* is a lemma, for any step `op` and any choice `ch` of a position.        *)

IsFold(h, op, base, ch, S) ==
  h = [s \in SUBSET S |-> IF s = {} THEN base
                          ELSE op[<<ch[s], h[s \ {ch[s]}]>>]]

LEMMA FoldsAgree ==
  ASSUME NEW op, NEW base, NEW ch, NEW T, IsFiniteSet(T),
         \A s \in SUBSET T : s # {} => ch[s] \in s,
         NEW h, IsFold(h, op, base, ch, T),
         NEW S \in SUBSET T, NEW k, IsFold(k, op, base, ch, S)
  PROVE  \A s \in SUBSET S : h[s] = k[s]
<1> DEFINE Good == {s \in SUBSET S : h[s] = k[s]}
<1>1. IsFiniteSet(S)
  BY FS_Subset
<1>2. ASSUME NEW s \in SUBSET S, \A r \in SUBSET s : r # s => r \in Good
      PROVE  s \in Good
  <2> DEFINE x == ch[s]
  <2>1. CASE s = {}
    <3>1. h[s] = base /\ k[s] = base
      BY <2>1 DEF IsFold
    <3> QED
      BY <3>1
  <2>2. CASE s # {}
    <3>1. x \in s
      BY <2>2
    <3>2. s \ {x} \in SUBSET s /\ s \ {x} # s
      BY <3>1
    <3>3. h[s \ {x}] = k[s \ {x}]
      BY <1>2, <3>2
    <3>4. h[s] = op[<<x, h[s \ {x}]>>]
      <4>1. s \in SUBSET T
        OBVIOUS
      <4> QED
        BY <2>2, <4>1 DEF IsFold
    <3>5. k[s] = op[<<x, k[s \ {x}]>>]
      BY <2>2 DEF IsFold
    <3> QED
      BY <3>3, <3>4, <3>5
  <2> QED
    BY <2>1, <2>2
<1>3. \A s \in SUBSET S : s \in Good
  <2> HIDE DEF Good
  <2> QED
    BY <1>1, <1>2, SubsetInduction
<1> QED
  BY <1>3 DEF Good

(* The function of a set is put together from those of its proper subsets. *)
LEMMA FoldExists ==
  ASSUME NEW op, NEW base, NEW ch, NEW T, IsFiniteSet(T),
         \A s \in SUBSET T : s # {} => ch[s] \in s
  PROVE  \E h : IsFold(h, op, base, ch, T)
<1> DEFINE Good == {S \in SUBSET T : \E h : IsFold(h, op, base, ch, S)}
<1>1. ASSUME NEW S \in SUBSET T, \A r \in SUBSET S : r # S => r \in Good
      PROVE  S \in Good
  <2> DEFINE sub(s)   == CHOOSE h : IsFold(h, op, base, ch, s)
             val(s)   == IF s = {} THEN base
                         ELSE op[<<ch[s], sub(s \ {ch[s]})[s \ {ch[s]}]>>]
             H        == [s \in SUBSET S |-> val(s)]
  <2>1. \A s \in SUBSET S : s # {} => ch[s] \in s
    OBVIOUS
  <2>2. \A s \in SUBSET S : s # S => IsFold(sub(s), op, base, ch, s)
    BY <1>1
  <2>3. ASSUME NEW r \in SUBSET S, r # S
        PROVE  sub(r)[r] = val(r)
    <3>1. IsFold(sub(r), op, base, ch, r)
      BY <2>2, <2>3
    <3>2. CASE r = {}
      BY <3>1, <3>2 DEF IsFold
    <3>3. CASE r # {}
      <4> DEFINE q == r \ {ch[r]}
      <4>1. q \in SUBSET r /\ q \in SUBSET S /\ q # S
        BY <2>1, <2>3, <3>3
      <4>2. IsFold(sub(q), op, base, ch, q)
        BY <2>2, <4>1
      <4>3. sub(r)[q] = sub(q)[q]
        <5>1. IsFiniteSet(r) /\ \A s \in SUBSET r : s # {} => ch[s] \in s
          BY FS_Subset
        <5> HIDE DEF q
        <5>2. \A h, k : IsFold(h, op, base, ch, r) /\ IsFold(k, op, base, ch, q)
                          => h[q] = k[q]
          <6>1. \A h, k : IsFold(h, op, base, ch, r) /\ IsFold(k, op, base, ch, q)
                          => \A s \in SUBSET q : h[s] = k[s]
            BY <4>1, <5>1, FoldsAgree
          <6> QED
            BY <6>1
        <5> QED
          BY <3>1, <4>2, <5>2
      <4>4. sub(r)[r] = op[<<ch[r], sub(r)[q]>>]
        BY <3>1, <3>3 DEF IsFold
      <4>5. val(r) = op[<<ch[r], sub(q)[q]>>]
        BY <3>3
      <4> HIDE DEF q, val, sub
      <4> QED
        BY <4>3, <4>4, <4>5
    <3> QED
      BY <3>2, <3>3
  <2>4. ASSUME NEW s \in SUBSET S
        PROVE  H[s] = IF s = {} THEN base ELSE op[<<ch[s], H[s \ {ch[s]}]>>]
    <3>1. CASE s # {}
      <4> DEFINE r == s \ {ch[s]}
      <4>1. r \in SUBSET S /\ r # S
        BY <2>1, <3>1
      <4>2. H[r] = sub(r)[r]
        BY <2>3, <4>1
      <4> QED
        BY <3>1, <4>2
    <3> QED
      BY <3>1
  <2>5. IsFold(H, op, base, ch, S)
    <3> DEFINE step(s) == IF s = {} THEN base ELSE op[<<ch[s], H[s \ {ch[s]}]>>]
    <3>1. \A s \in SUBSET S : val(s) = step(s)
      BY <2>4
    <3>2. H = [s \in SUBSET S |-> step(s)]
      <4>1. H = [s \in SUBSET S |-> val(s)]
        OBVIOUS
      <4> HIDE DEF H, val, step
      <4> QED
        BY <3>1, <4>1
    <3> HIDE DEF H
    <3> QED
      BY <3>2 DEF IsFold
  <2> HIDE DEF H
  <2> QED
    BY <2>5
<1>2. \A S \in SUBSET T : S \in Good
  <2> HIDE DEF Good
  <2> QED
    BY <1>1, SubsetInduction
<1> QED
  BY <1>2 DEF Good

(* Of the sets of the first positions of a sequence, Max is the last one.  *)
LEMMA MaxOfPositions ==
  ASSUME NEW n \in Nat
  PROVE  /\ IsFiniteSet(1 .. n)
         /\ \A s \in SUBSET (1 .. n) : s # {} => Max(s) \in s
         /\ \A i \in 1 .. n : Max(1 .. i) = i /\ (1 .. i) \ {i} = 1 .. (i - 1)
<1> DEFINE Above == {p \in (1 .. n) \X (1 .. n) : p[1] >= p[2]}
<1>1. IsFiniteSet(1 .. n)
  <2>1. 1 \in Int /\ n \in Int
    OBVIOUS
  <2> QED
    BY <2>1, FS_Interval
<1>2. \A x, y \in 1 .. n : <<x, y>> \in Above <=> x >= y
  OBVIOUS
<1>3. \A s \in SUBSET (1 .. n) : s # {} => \E x \in s : \A y \in s : <<x, y>> \in Above
  <2>1. /\ \A x, y \in 1 .. n : <<x, y>> \in Above \/ <<y, x>> \in Above
        /\ \A x, y, z \in 1 .. n :
             <<x, y>> \in Above /\ <<y, z>> \in Above => <<x, z>> \in Above
    <3> HIDE DEF Above
    <3> QED
      BY <1>2
  <2> DEFINE T == 1 .. n
  <2> HIDE DEF Above
  <2>2. IsFiniteSet(T)
    BY <1>1
  <2>3. /\ \A x, y \in T : <<x, y>> \in Above \/ <<y, x>> \in Above
        /\ \A x, y, z \in T :
             <<x, y>> \in Above /\ <<y, z>> \in Above => <<x, z>> \in Above
    BY <2>1
  <2>4. \A s \in SUBSET T : s # {} => \E x \in s : \A y \in s : <<x, y>> \in Above
    <3> HIDE DEF T
    <3> QED
      BY <2>2, <2>3, FirstElement
  <2> QED
    BY <2>4
<1>4. ASSUME NEW s \in SUBSET (1 .. n), s # {} PROVE Max(s) \in s
  <2>1. PICK x \in s : \A y \in s : <<x, y>> \in Above
    BY <1>3, <1>4
  <2>2. \A y \in s : x >= y
    BY <1>2, <2>1
  <2> QED
    BY <2>2 DEF Max
<1>5. ASSUME NEW i \in 1 .. n
      PROVE  Max(1 .. i) = i /\ (1 .. i) \ {i} = 1 .. (i - 1)
  <2>1. \A x \in 1 .. i : (\A y \in 1 .. i : x >= y) => x = i
    OBVIOUS
  <2>2. i \in 1 .. i /\ \A y \in 1 .. i : i >= y
    OBVIOUS
  <2>3. Max(1 .. i) = i
    BY <2>1, <2>2 DEF Max
  <2> QED
    BY <2>3
<1> QED
  BY <1>1, <1>4, <1>5

(* A fold over the positions of a sequence of length n, of values in B.    *)
FoldsTo(n, B, base, step) ==
  \E h \in [SUBSET (1 .. n) -> B] :
     \A s \in SUBSET (1 .. n) :
        h[s] = IF s = {} THEN base ELSE step[<<Max(s), h[s \ {Max(s)}]>>]

LEMMA FoldOfPositions ==
  ASSUME NEW n \in Nat, NEW B, NEW base \in B, NEW step \in [(1 .. n) \X B -> B]
  PROVE  FoldsTo(n, B, base, step)
<1> DEFINE T == 1 .. n
           ch == [s \in SUBSET T |-> Max(s)]
<1>1. IsFiniteSet(T) /\ \A s \in SUBSET T : s # {} => Max(s) \in s
  BY MaxOfPositions
<1>2. \A s \in SUBSET T : ch[s] = Max(s)
  OBVIOUS
<1> HIDE DEF T, ch
<1>3. PICK h : IsFold(h, step, base, ch, T)
  <2>1. \A s \in SUBSET T : s # {} => ch[s] \in s
    BY <1>1, <1>2
  <2> QED
    BY <1>1, <2>1, FoldExists
<1> DEFINE val(s) == IF s = {} THEN base ELSE step[<<Max(s), h[s \ {Max(s)}]>>]
<1>4. ASSUME NEW s \in SUBSET T PROVE h[s] = val(s)
  <2>1. h[s] = IF s = {} THEN base ELSE step[<<ch[s], h[s \ {ch[s]}]>>]
    BY <1>3 DEF IsFold
  <2>2. ch[s] = Max(s)
    BY <1>2
  <2> QED
    BY <2>1, <2>2
<1> DEFINE Good == {s \in SUBSET T : h[s] \in B}
<1>5. ASSUME NEW s \in SUBSET T, \A r \in SUBSET s : r # s => r \in Good
      PROVE  s \in Good
  <2>1. CASE s = {}
    <3>1. h[s] = base
      BY <1>4, <2>1
    <3> QED
      BY <3>1
  <2>2. CASE s # {}
    <3> DEFINE x == Max(s)
    <3>1. x \in s /\ h[s] = step[<<x, h[s \ {x}]>>]
      BY <1>1, <1>4, <2>2
    <3> HIDE DEF x
    <3>2. s \ {x} \in SUBSET s /\ s \ {x} # s
      BY <3>1
    <3>3. h[s \ {x}] \in B
      BY <1>5, <3>2
    <3>4. x \in 1 .. n
      BY <3>1 DEF T
    <3>5. <<x, h[s \ {x}]>> \in (1 .. n) \X B
      BY <3>3, <3>4
    <3>6. step[<<x, h[s \ {x}]>>] \in B
      BY <3>5
    <3> QED
      BY <3>1, <3>6
  <2> QED
    BY <2>1, <2>2
<1>6. \A s \in SUBSET T : s \in Good
  <2> HIDE DEF Good
  <2> QED
    BY <1>1, <1>5, SubsetInduction
<1>7. h \in [SUBSET T -> B]
  <2>1. h = [s \in SUBSET T |-> IF s = {} THEN base ELSE step[<<ch[s], h[s \ {ch[s]}]>>]]
    BY <1>3 DEF IsFold
  <2> DEFINE v(s) == IF s = {} THEN base ELSE step[<<ch[s], h[s \ {ch[s]}]>>]
  <2>2. h = [s \in SUBSET T |-> v(s)]
    BY <2>1
  <2>3. \A s \in SUBSET T : h[s] \in B
    BY <1>6
  <2> HIDE DEF v
  <2>4. \A s \in SUBSET T : v(s) \in B
    BY <2>2, <2>3
  <2> QED
    BY <2>2, <2>4
<1> QED
  BY <1>4, <1>7 DEF T, FoldsTo

-----------------------------------------------------------------------------
(* The sum of a field over a list of entries.                              *)

IsSum(h, entries, field) ==
  h = [s \in SUBSET (DOMAIN entries) |->
         IF s = {} THEN 0 ELSE h[s \ {Max(s)}] + entries[Max(s)][field]]

LEMMA SumOverIs ==
  ASSUME NEW entries, NEW field
  PROVE  SumOver(entries, field) = (CHOOSE h : IsSum(h, entries, field))[DOMAIN entries]
BY DEF SumOver, FoldLeft, MapThenFoldSet, IsSum

LEMMA SumPrefixes ==
  ASSUME NEW n \in Nat, NEW entries, NEW field, DOMAIN entries = 1 .. n,
         \A i \in 1 .. n : entries[i][field] \in Nat
  PROVE  \E P : /\ P[0] = 0
                /\ \A i \in 1 .. n : P[i] = P[i - 1] + entries[i][field]
                /\ P[n] = SumOver(entries, field)
<1> DEFINE step == [p \in (1 .. n) \X Nat |-> p[2] + entries[p[1]][field]]
           g == CHOOSE h : IsSum(h, entries, field)
           P == [i \in 0 .. n |-> g[1 .. i]]
<1>1. step \in [(1 .. n) \X Nat -> Nat]
  OBVIOUS
<1>2. \A i \in 1 .. n, v \in Nat : step[<<i, v>>] = v + entries[i][field]
  OBVIOUS
<1>3. \E h : IsSum(h, entries, field)
  <2> HIDE DEF step
  <2>1. PICK h \in [SUBSET (1 .. n) -> Nat] :
          \A s \in SUBSET (1 .. n) :
              h[s] = IF s = {} THEN 0 ELSE step[<<Max(s), h[s \ {Max(s)}]>>]
    <3>1. 0 \in Nat
      OBVIOUS
    <3>2. FoldsTo(n, Nat, 0, step)
      BY <1>1, <3>1, FoldOfPositions
    <3> QED
      BY <3>2 DEF FoldsTo
  <2> DEFINE val(s) == IF s = {} THEN 0 ELSE h[s \ {Max(s)}] + entries[Max(s)][field]
  <2>2. ASSUME NEW s \in SUBSET (1 .. n) PROVE h[s] = val(s)
    <3>1. CASE s = {}
      BY <2>1, <3>1
    <3>2. CASE s # {}
      <4>1. Max(s) \in 1 .. n /\ s \ {Max(s)} \in SUBSET (1 .. n)
        BY <3>2, MaxOfPositions
      <4>2. h[s \ {Max(s)}] \in Nat
        BY <4>1
      <4>3. h[s] = step[<<Max(s), h[s \ {Max(s)}]>>]
        BY <2>1, <3>2
      <4> QED
        BY <1>2, <3>2, <4>1, <4>2, <4>3
    <3> QED
      BY <3>1, <3>2
  <2>3. h = [s \in SUBSET (1 .. n) |-> h[s]]
    BY <2>1
  <2>4. h = [s \in SUBSET (1 .. n) |-> val(s)]
    <3> HIDE DEF val
    <3> QED
      BY <2>2, <2>3
  <2>5. IsSum(h, entries, field)
    BY <2>4 DEF IsSum
  <2> QED
    BY <2>5
<1>4. IsSum(g, entries, field)
  BY <1>3
<1>5. g[DOMAIN entries] = SumOver(entries, field)
  BY SumOverIs
<1> HIDE DEF g
<1>6. \A s \in SUBSET (1 .. n) :
        g[s] = IF s = {} THEN 0 ELSE g[s \ {Max(s)}] + entries[Max(s)][field]
  BY <1>4 DEF IsSum
<1>7. P[0] = 0
  <2>1. 1 .. 0 = {} /\ 1 .. 0 \in SUBSET (1 .. n) /\ 0 \in 0 .. n
    OBVIOUS
  <2>2. g[1 .. 0] = 0
    BY <1>6, <2>1
  <2> QED
    BY <2>1, <2>2
<1>8. ASSUME NEW i \in 1 .. n PROVE P[i] = P[i - 1] + entries[i][field]
  <2> DEFINE s == 1 .. i
  <2>1. s \in SUBSET (1 .. n) /\ s # {}
    <3>1. \A x \in 1 .. i : x \in 1 .. n
      OBVIOUS
    <3>2. 1 \in 1 .. i
      OBVIOUS
    <3> QED
      BY <3>1, <3>2
  <2>2. Max(s) = i /\ s \ {i} = 1 .. (i - 1)
    BY MaxOfPositions
  <2>3. g[s] = g[1 .. (i - 1)] + entries[i][field]
    <3> HIDE DEF s
    <3> QED
      BY <1>6, <2>1, <2>2
  <2>4. i \in 0 .. n /\ i - 1 \in 0 .. n
    OBVIOUS
  <2> QED
    BY <2>3, <2>4
<1>9. P[n] = SumOver(entries, field)
  BY <1>5
<1> HIDE DEF P
<1> QED
  BY <1>7, <1>8, <1>9

(* Induction along the positions of a list, for a set of good ones.        *)
LEMMA PositionInduction ==
  ASSUME NEW n \in Nat, NEW Good, 0 \in Good,
         \A i \in 1 .. n : i - 1 \in Good => i \in Good
  PROVE  \A i \in 0 .. n : i \in Good
<1> DEFINE Bad == {i \in 0 .. n : i \notin Good}
<1> SUFFICES ASSUME Bad # {} PROVE FALSE
  OBVIOUS
<1>1. PICK i \in Bad : \A j \in Bad : i <= j
  <2>1. Bad \in SUBSET Nat
    OBVIOUS
  <2> HIDE DEF Bad
  <2> QED
    BY <2>1, LeastElement
<1>2. i \in 1 .. n
  OBVIOUS
<1>3. i - 1 \in 0 .. n /\ ~ (i <= i - 1)
  BY <1>2
<1>4. i - 1 \in Good
  BY <1>1, <1>3
<1> QED
  BY <1>2, <1>4

(* Counting one part after another counts the whole: the sum of the sizes  *)
(* of disjoint parts is the size of their union.                           *)
LEMMA SumOfParts ==
  ASSUME NEW n \in Nat, NEW entries, NEW field, DOMAIN entries = 1 .. n,
         NEW T, IsFiniteSet(T), NEW part \in [1 .. n -> SUBSET T],
         \A i \in 1 .. n : entries[i][field] = Cardinality(part[i]),
         \A i, j \in 1 .. n : i # j => part[i] \cap part[j] = {}
  PROVE  SumOver(entries, field) = Cardinality(UNION {part[i] : i \in 1 .. n})
<1> DEFINE upto(i) == UNION {part[j] : j \in 1 .. i}
<1>1. \A S \in SUBSET T : IsFiniteSet(S) /\ Cardinality(S) \in Nat
  BY FS_Subset, FS_CardinalityType
<1>2. \A i \in 1 .. n : entries[i][field] \in Nat
  BY <1>1
<1>3. PICK P : /\ P[0] = 0
               /\ \A i \in 1 .. n : P[i] = P[i - 1] + entries[i][field]
               /\ P[n] = SumOver(entries, field)
  BY <1>2, SumPrefixes
<1> DEFINE Good == {i \in 0 .. n : P[i] = Cardinality(upto(i))}
<1>4. 0 \in Good
  <2>1. upto(0) = {}
    OBVIOUS
  <2>2. Cardinality({}) = 0
    BY FS_EmptySet
  <2>3. P[0] = Cardinality(upto(0))
    BY <1>3, <2>1, <2>2
  <2> HIDE DEF upto
  <2> QED
    BY <2>3
<1>5. ASSUME NEW i \in 1 .. n, i - 1 \in Good PROVE i \in Good
  <2>1. upto(i) = upto(i - 1) \cup part[i]
    <3>1. \A j : j \in 1 .. i <=> j \in 1 .. (i - 1) \/ j = i
      OBVIOUS
    <3> QED
      BY <3>1
  <2>2. upto(i - 1) \cap part[i] = {}
    <3>1. \A j \in 1 .. (i - 1) : j \in 1 .. n /\ j # i
      OBVIOUS
    <3> QED
      BY <3>1
  <2>3. upto(i - 1) \in SUBSET T /\ part[i] \in SUBSET T
    <3>1. \A j \in 1 .. (i - 1) : j \in 1 .. n
      OBVIOUS
    <3> QED
      BY <3>1
  <2> HIDE DEF upto
  <2>4. /\ IsFiniteSet(upto(i - 1)) /\ IsFiniteSet(part[i])
        /\ Cardinality(upto(i - 1)) \in Nat /\ Cardinality(part[i]) \in Nat
    BY <1>1, <2>3
  <2>5. Cardinality(upto(i - 1) \cup part[i])
          = Cardinality(upto(i - 1)) + Cardinality(part[i])
              - Cardinality(upto(i - 1) \cap part[i])
    BY <2>4, FS_Union
  <2>6. Cardinality(upto(i - 1) \cap part[i]) = 0
    BY <2>2, FS_EmptySet
  <2>7. Cardinality(upto(i)) = Cardinality(upto(i - 1)) + Cardinality(part[i])
    BY <2>1, <2>4, <2>5, <2>6
  <2>8. P[i] = P[i - 1] + Cardinality(part[i]) /\ P[i - 1] = Cardinality(upto(i - 1))
    BY <1>3, <1>5
  <2> QED
    BY <2>7, <2>8
<1>6. \A i \in 0 .. n : i \in Good
  <2> HIDE DEF Good
  <2> QED
    BY <1>4, <1>5, PositionInduction
<1>7. P[n] = Cardinality(upto(n))
  <2>1. n \in 0 .. n
    OBVIOUS
  <2> QED
    BY <1>6, <2>1
<1> QED
  BY <1>3, <1>7

-----------------------------------------------------------------------------
(* The names of the buckets: every label once.                             *)

IsSeen(h, labels) ==
  h = [s \in SUBSET (DOMAIN labels) |->
         IF s = {} THEN <<>>
         ELSE IF Contains(h[s \ {Max(s)}], labels[Max(s)]) THEN h[s \ {Max(s)}]
              ELSE Append(h[s \ {Max(s)}], labels[Max(s)])]

LEMMA OccurrencesAre ==
  ASSUME NEW labels
  PROVE  FirstOccurrences(labels) = (CHOOSE h : IsSeen(h, labels))[DOMAIN labels]
BY DEF FirstOccurrences, FoldLeft, MapThenFoldSet, IsSeen

LEMMA OccurrencePrefixes ==
  ASSUME NEW n \in Nat, NEW labels, DOMAIN labels = 1 .. n
  PROVE  \E P : /\ P[0] = <<>>
                /\ \A i \in 1 .. n :
                     P[i] = IF Contains(P[i - 1], labels[i]) THEN P[i - 1]
                            ELSE Append(P[i - 1], labels[i])
                /\ P[n] = FirstOccurrences(labels)
<1> DEFINE L == {labels[i] : i \in 1 .. n}
           B == Seq(L)
           next(v, l) == IF Contains(v, l) THEN v ELSE Append(v, l)
           step == [p \in (1 .. n) \X B |-> next(p[2], labels[p[1]])]
           g == CHOOSE h : IsSeen(h, labels)
           P == [i \in 0 .. n |-> g[1 .. i]]
<1>1. step \in [(1 .. n) \X B -> B]
  <2>1. ASSUME NEW v \in B, NEW i \in 1 .. n PROVE next(v, labels[i]) \in B
    <3>1. labels[i] \in L
      OBVIOUS
    <3> HIDE DEF L
    <3>2. Append(v, labels[i]) \in Seq(L)
      BY <3>1
    <3> QED
      BY <3>2
  <2> HIDE DEF next, B
  <2> QED
    BY <2>1
<1>2. \A i \in 1 .. n, v \in B : step[<<i, v>>] = next(v, labels[i])
  <2> HIDE DEF next, B
  <2> QED
    OBVIOUS
<1>3. <<>> \in B
  <2> HIDE DEF L
  <2> QED
    OBVIOUS
<1>4. \E h : IsSeen(h, labels)
  <2> HIDE DEF step, B, next
  <2>1. FoldsTo(n, B, <<>>, step)
    BY <1>1, <1>3, FoldOfPositions
  <2>2. PICK h \in [SUBSET (1 .. n) -> B] :
          \A s \in SUBSET (1 .. n) :
              h[s] = IF s = {} THEN <<>> ELSE step[<<Max(s), h[s \ {Max(s)}]>>]
    BY <2>1 DEF FoldsTo
  <2> DEFINE val(s) == IF s = {} THEN <<>> ELSE next(h[s \ {Max(s)}], labels[Max(s)])
  <2>3. ASSUME NEW s \in SUBSET (1 .. n) PROVE h[s] = val(s)
    <3>1. CASE s = {}
      BY <2>2, <3>1
    <3>2. CASE s # {}
      <4>1. Max(s) \in 1 .. n /\ s \ {Max(s)} \in SUBSET (1 .. n)
        BY <3>2, MaxOfPositions
      <4>2. h[s \ {Max(s)}] \in B
        BY <4>1
      <4>3. h[s] = step[<<Max(s), h[s \ {Max(s)}]>>]
        BY <2>2, <3>2
      <4> QED
        BY <1>2, <3>2, <4>1, <4>2, <4>3
    <3> QED
      BY <3>1, <3>2
  <2>4. h = [s \in SUBSET (1 .. n) |-> h[s]]
    BY <2>2
  <2>5. h = [s \in SUBSET (1 .. n) |-> val(s)]
    <3> HIDE DEF val
    <3> QED
      BY <2>3, <2>4
  <2>6. IsSeen(h, labels)
    BY <2>5 DEF IsSeen, next
  <2> QED
    BY <2>6
<1>5. IsSeen(g, labels)
  BY <1>4
<1>6. g[DOMAIN labels] = FirstOccurrences(labels)
  BY OccurrencesAre
<1> HIDE DEF g
<1>7. \A s \in SUBSET (1 .. n) :
        g[s] = IF s = {} THEN <<>> ELSE next(g[s \ {Max(s)}], labels[Max(s)])
  BY <1>5 DEF IsSeen
<1> HIDE DEF next
<1>8. P[0] = <<>>
  <2>1. 1 .. 0 = {} /\ 1 .. 0 \in SUBSET (1 .. n) /\ 0 \in 0 .. n
    OBVIOUS
  <2>2. g[1 .. 0] = <<>>
    BY <1>7, <2>1
  <2> QED
    BY <2>1, <2>2
<1>9. ASSUME NEW i \in 1 .. n PROVE P[i] = next(P[i - 1], labels[i])
  <2> DEFINE s == 1 .. i
  <2>1. s \in SUBSET (1 .. n) /\ s # {}
    <3>1. \A x \in 1 .. i : x \in 1 .. n
      OBVIOUS
    <3>2. 1 \in 1 .. i
      OBVIOUS
    <3> QED
      BY <3>1, <3>2
  <2>2. Max(s) = i /\ s \ {i} = 1 .. (i - 1)
    BY MaxOfPositions
  <2>3. g[s] = next(g[1 .. (i - 1)], labels[i])
    <3> HIDE DEF s
    <3> QED
      BY <1>7, <2>1, <2>2
  <2>4. i \in 0 .. n /\ i - 1 \in 0 .. n
    OBVIOUS
  <2> QED
    BY <2>3, <2>4
<1>10. P[n] = FirstOccurrences(labels)
  BY <1>6
<1> HIDE DEF P
<1> QED
  BY <1>8, <1>9, <1>10 DEF next

Distinct(names) == \A i, j \in 1 .. Len(names) : names[i] = names[j] => i = j

LEMMA AppendedIsDistinct ==
  ASSUME NEW L, NEW s \in Seq(L), NEW l \in L, Distinct(s), ~ Contains(s, l)
  PROVE  /\ Append(s, l) \in Seq(L) /\ Distinct(Append(s, l))
         /\ \A x : Contains(Append(s, l), x) <=> Contains(s, x) \/ x = l
<1> DEFINE t == Append(s, l)
<1>1. /\ t \in Seq(L) /\ Len(t) = Len(s) + 1 /\ Len(s) \in Nat
      /\ \A i \in 1 .. Len(s) : t[i] = s[i]
      /\ t[Len(s) + 1] = l
  OBVIOUS
<1> HIDE DEF t
<1>2. \A i \in 1 .. Len(t) : i \in 1 .. Len(s) \/ i = Len(s) + 1
  BY <1>1
<1>3. \A i \in 1 .. Len(s) : s[i] # l
  BY DEF Contains
<1>4. Distinct(t)
  BY <1>1, <1>2, <1>3 DEF Distinct
<1>5. ASSUME NEW x PROVE Contains(t, x) <=> Contains(s, x) \/ x = l
  <2>1. \A i \in 1 .. Len(s) : i \in 1 .. Len(t)
    BY <1>1
  <2>2. Len(s) + 1 \in 1 .. Len(t)
    BY <1>1
  <2> QED
    BY <1>1, <1>2, <2>1, <2>2 DEF Contains
<1> QED
  BY <1>1, <1>4, <1>5 DEF t

LEMMA OccurrencesAreDistinct ==
  ASSUME NEW n \in Nat, NEW labels, DOMAIN labels = 1 .. n
  PROVE  /\ FirstOccurrences(labels) \in Seq({labels[i] : i \in 1 .. n})
         /\ Distinct(FirstOccurrences(labels))
         /\ \A k \in 1 .. n : Contains(FirstOccurrences(labels), labels[k])
<1> DEFINE L == {labels[i] : i \in 1 .. n}
<1>1. PICK P : /\ P[0] = <<>>
               /\ \A i \in 1 .. n :
                    P[i] = IF Contains(P[i - 1], labels[i]) THEN P[i - 1]
                           ELSE Append(P[i - 1], labels[i])
               /\ P[n] = FirstOccurrences(labels)
  BY OccurrencePrefixes
<1> DEFINE All(i) == \A k \in 1 .. i : Contains(P[i], labels[k])
           Good == {i \in 0 .. n : P[i] \in Seq(L) /\ Distinct(P[i]) /\ All(i)}
<1>2. 0 \in Good
  <2>1. <<>> \in Seq(L) /\ Len(<<>>) = 0
    <3> HIDE DEF L
    <3> QED
      OBVIOUS
  <2>2. Distinct(<<>>)
    BY <2>1 DEF Distinct
  <2>3. All(0)
    OBVIOUS
  <2> HIDE DEF All, L
  <2>4. P[0] \in Seq(L) /\ Distinct(P[0])
    BY <1>1, <2>1, <2>2
  <2>5. 0 \in 0 .. n
    OBVIOUS
  <2> QED
    BY <2>3, <2>4, <2>5
<1>3. ASSUME NEW i \in 1 .. n, i - 1 \in Good PROVE i \in Good
  <2>1. P[i - 1] \in Seq(L) /\ Distinct(P[i - 1]) /\ All(i - 1)
    BY <1>3
  <2>2. labels[i] \in L
    OBVIOUS
  <2>3. \A k \in 1 .. i : k \in 1 .. (i - 1) \/ k = i
    OBVIOUS
  <2> HIDE DEF L, Good
  <2>4. CASE Contains(P[i - 1], labels[i])
    <3>1. P[i] = P[i - 1]
      BY <1>1, <2>4
    <3>2. All(i)
      BY <2>1, <2>3, <2>4, <3>1
    <3> HIDE DEF All
    <3> QED
      BY <2>1, <3>1, <3>2 DEF Good
  <2>5. CASE ~ Contains(P[i - 1], labels[i])
    <3>1. P[i] = Append(P[i - 1], labels[i])
      BY <1>1, <2>5
    <3>2. /\ P[i] \in Seq(L) /\ Distinct(P[i])
          /\ \A x : Contains(P[i], x) <=> Contains(P[i - 1], x) \/ x = labels[i]
      BY <2>1, <2>2, <2>5, <3>1, AppendedIsDistinct
    <3>3. All(i)
      BY <2>1, <2>3, <3>2
    <3> HIDE DEF All
    <3> QED
      BY <3>2, <3>3 DEF Good
  <2> QED
    BY <2>4, <2>5
<1>4. \A i \in 0 .. n : i \in Good
  <2> HIDE DEF Good
  <2> QED
    BY <1>2, <1>3, PositionInduction
<1>5. n \in Good
  <2>1. n \in 0 .. n
    OBVIOUS
  <2> HIDE DEF Good
  <2> QED
    BY <1>4, <2>1
<1> QED
  BY <1>1, <1>5

(* Every question is in the bucket of one name: the buckets of any labels  *)
(* count every correct answer once.                                        *)
LEMMA BucketsCountCorrect ==
  ASSUME NEW labels, DOMAIN labels = Ids, NEW a
  PROVE  SumOver(Buckets(labels, a), "correct") = Cardinality(CorrectAnswers(a))
<1> DEFINE names == FirstOccurrences(labels)
           m == Len(names)
           In(n) == {k \in Ids : labels[k] = names[n]}
           C == CorrectAnswers(a)
           part == [n \in 1 .. m |-> In(n) \cap C]
           buckets == Buckets(labels, a)
<1>1. /\ DOMAIN labels = 1 .. Total /\ Total \in Nat /\ Ids = 1 .. Total
      /\ IsFiniteSet(Ids)
  BY IdsAreFinite, QuestionsAreListed DEF Ids, Total
<1>2. /\ names \in Seq({labels[i] : i \in 1 .. Total}) /\ Distinct(names)
      /\ \A k \in 1 .. Total : Contains(names, labels[k])
  BY <1>1, OccurrencesAreDistinct
<1>3. m \in Nat /\ DOMAIN names = 1 .. m
  <2> DEFINE L == {labels[i] : i \in 1 .. Total}
  <2> HIDE DEF names, L
  <2>1. names \in Seq(L)
    BY <1>2 DEF L
  <2> QED
    BY <2>1
<1>4. /\ DOMAIN buckets = 1 .. m
      /\ \A n \in 1 .. m : buckets[n]["correct"] = Cardinality(In(n) \cap C)
  <2>1. buckets = [n \in 1 .. m |-> [label   |-> names[n],
                                     correct |-> Cardinality(In(n) \cap C),
                                     total   |-> Cardinality(In(n))]]
    BY <1>3 DEF Buckets
  <2> HIDE DEF buckets, m, In, names, C
  <2> QED
    BY <2>1
<1>5. C \in SUBSET Ids
  BY DEF CorrectAnswers, Answered
<1> HIDE DEF C
<1>6. part \in [1 .. m -> SUBSET Ids]
  <2> HIDE DEF m
  <2> QED
    OBVIOUS
<1>7. \A n, q \in 1 .. m : n # q => part[n] \cap part[q] = {}
  <2> HIDE DEF names
  <2> QED
    BY <1>2 DEF Distinct
<1>8. UNION {part[n] : n \in 1 .. m} = C
  <2>1. \A n \in 1 .. m : part[n] \subseteq C
    OBVIOUS
  <2>2. ASSUME NEW k \in C PROVE \E n \in 1 .. m : k \in part[n]
    <3>1. k \in Ids /\ Contains(names, labels[k])
      BY <1>1, <1>2, <1>5
    <3>2. PICK n \in 1 .. m : names[n] = labels[k]
      BY <3>1 DEF Contains
    <3> QED
      BY <3>1, <3>2
  <2> HIDE DEF part
  <2> QED
    BY <2>1, <2>2
<1>9. \A n \in 1 .. m : buckets[n]["correct"] = Cardinality(part[n])
  BY <1>4
<1> HIDE DEF m, part, buckets, In
<1>10. SumOver(buckets, "correct") = Cardinality(UNION {part[n] : n \in 1 .. m})
  BY <1>1, <1>3, <1>4, <1>6, <1>7, <1>9, SumOfParts
<1> QED
  BY <1>8, <1>10 DEF C, buckets

-----------------------------------------------------------------------------
(* The ranges of the course levels.                                        *)

LEMMA BandOfPosition ==
  ASSUME NEW o
  PROVE  FindProgressionBand(o) # None <=>
           \E n \in 1 .. 6 :
              o \in ProgressionBands[n].minQuestion .. ProgressionBands[n].maxQuestion
<1> DEFINE In(n) == o \in ProgressionBands[n].minQuestion
                           .. ProgressionBands[n].maxQuestion
           around == {n \in 1 .. 6 : In(n)}
           least == CHOOSE n \in around : \A m \in around : n <= m
<1>1. FindProgressionBand(o) = IF around = {} THEN None ELSE ProgressionBands[least]
  BY LevelsDiffer DEF FindProgressionBand
<1>2. around # {} => least \in around
  <2>1. around \in SUBSET Nat
    OBVIOUS
  <2> HIDE DEF around
  <2> QED
    BY <2>1, LeastElement
<1>3. around # {} => ProgressionBands[least] # None
  <2>1. \A n \in around : n \in 1 .. 6
    OBVIOUS
  <2> HIDE DEF around, least
  <2> QED
    BY <1>2, <2>1, LevelsDiffer
<1>4. around # {} <=> \E n \in 1 .. 6 : In(n)
  <2> HIDE DEF In
  <2> QED
    OBVIOUS
<1> HIDE DEF around, least, In
<1>5. FindProgressionBand(o) # None <=> \E n \in 1 .. 6 : In(n)
  BY <1>1, <1>3, <1>4
<1> QED
  BY <1>5 DEF In

LEMMA RangesAreDisjoint ==
  ASSUME NEW k, NEW n \in 1 .. 6, NEW m \in 1 .. 6,
         InBand(k, ProgressionBands[n]), InBand(k, ProgressionBands[m])
  PROVE  n = m
<1> DEFINE first == <<1, 7, 21, 35, 49, 63>>
           last  == <<6, 20, 34, 48, 62, 70>>
           o == Questions[k].order
<1>1. \A i \in 1 .. 6 : /\ ProgressionBands[i].minQuestion = first[i]
                        /\ ProgressionBands[i].maxQuestion = last[i]
  BY DEF ProgressionBands
<1>2. \A i, j \in 1 .. 6 : i < j => last[i] < first[j]
  <2>1. \A i \in 1 .. 6 : i = 1 \/ i = 2 \/ i = 3 \/ i = 4 \/ i = 5 \/ i = 6
    OBVIOUS
  <2>2. /\ last[1] = 6 /\ last[2] = 20 /\ last[3] = 34 /\ last[4] = 48
        /\ last[5] = 62 /\ last[6] = 70
        /\ first[1] = 1 /\ first[2] = 7 /\ first[3] = 21 /\ first[4] = 35
        /\ first[5] = 49 /\ first[6] = 63
    OBVIOUS
  <2> HIDE DEF first, last
  <2> QED
    BY <2>1, <2>2
<1>3. \A i \in 1 .. 6 : first[i] \in Int /\ last[i] \in Int
  OBVIOUS
<1> HIDE DEF first, last
<1>4. o \in first[n] .. last[n] /\ o \in first[m] .. last[m]
  BY <1>1 DEF InBand
<1> HIDE DEF o
<1>5. ~ (n < m) /\ ~ (m < n)
  BY <1>2, <1>3, <1>4
<1> QED
  BY <1>5

(* The levels count the questions of a set that are in some range once.    *)
CountsByLevel(entries, field, S) ==
  /\ DOMAIN entries = 1 .. 6 /\ S \subseteq Ids
  /\ \A n \in 1 .. 6 :
        entries[n][field]
          = Cardinality({k \in Ids : InBand(k, ProgressionBands[n])} \cap S)

LEMMA LevelsCount ==
  ASSUME NEW entries, NEW field, NEW S, CountsByLevel(entries, field, S)
  PROVE  SumOver(entries, field)
           = Cardinality({k \in S : FindProgressionBand(Questions[k].order) # None})
<1> DEFINE part == [n \in 1 .. 6 |->
                      {k \in Ids : InBand(k, ProgressionBands[n])} \cap S]
           size == 6
           counted == {k \in S : FindProgressionBand(Questions[k].order) # None}
<1>1. /\ size \in Nat /\ part \in [1 .. size -> SUBSET Ids]
      /\ DOMAIN entries = 1 .. size /\ S \subseteq Ids
  BY DEF CountsByLevel
<1>2. \A n, q \in 1 .. size : n # q => part[n] \cap part[q] = {}
  <2> SUFFICES ASSUME NEW n \in 1 .. size, NEW q \in 1 .. size, NEW k,
                      k \in part[n], k \in part[q]
               PROVE  n = q
    OBVIOUS
  <2>1. InBand(k, ProgressionBands[n]) /\ InBand(k, ProgressionBands[q])
    OBVIOUS
  <2> QED
    BY <2>1, RangesAreDisjoint
<1>3. UNION {part[n] : n \in 1 .. size} = counted
  <2>1. \A k \in S : FindProgressionBand(Questions[k].order) # None <=>
                       \E n \in 1 .. 6 : InBand(k, ProgressionBands[n])
    BY BandOfPosition DEF InBand
  <2>2. \A n \in 1 .. size : \A k :
          k \in part[n] <=> k \in S /\ InBand(k, ProgressionBands[n])
    BY <1>1
  <2> HIDE DEF part
  <2>3. ASSUME NEW k PROVE k \in UNION {part[n] : n \in 1 .. size} <=> k \in counted
    BY <2>1, <2>2
  <2> QED
    BY <2>3
<1>4. \A n \in 1 .. size : entries[n][field] = Cardinality(part[n])
  <2>1. \A n \in 1 .. 6 :
          part[n] = {k \in Ids : InBand(k, ProgressionBands[n])} \cap S
    OBVIOUS
  <2> HIDE DEF part
  <2> QED
    BY <2>1 DEF CountsByLevel
<1>5. IsFiniteSet(Ids)
  BY IdsAreFinite
<1> HIDE DEF part, size, counted
<1>6. SumOver(entries, field) = Cardinality(UNION {part[n] : n \in 1 .. size})
  BY <1>1, <1>2, <1>4, <1>5, SumOfParts
<1> QED
  BY <1>3, <1>6 DEF counted

-----------------------------------------------------------------------------
(* The score, the breakdown and the review.                                *)

LEMMA ReviewCounts ==
  ASSUME NEW a
  PROVE  /\ WithStatus(ToStudentQuestionReview(a), "CORRECT")
              = Cardinality(CorrectAnswers(a))
         /\ WithStatus(ToStudentQuestionReview(a), "INCORRECT")
              = Cardinality(Answered(a)) - Cardinality(CorrectAnswers(a))
         /\ WithStatus(ToStudentQuestionReview(a), "UNANSWERED")
              = Total - Cardinality(Answered(a))
<1> DEFINE review == ToStudentQuestionReview(a)
           A == Answered(a)
           C == CorrectAnswers(a)
           St(s) == {k \in Ids : review[k].status = s}
<1>1. C \in SUBSET A /\ A \in SUBSET Ids
  BY DEF CorrectAnswers, Answered
<1>2. \A k \in Ids : review[k].status =
         CASE ~ (k \in A) -> "UNANSWERED" [] k \in C -> "CORRECT" [] OTHER -> "INCORRECT"
  <2> DEFINE status(k) ==
        CASE ~ (k \in A) -> "UNANSWERED" [] k \in C -> "CORRECT" [] OTHER -> "INCORRECT"
  <2>1. review = [k \in Ids |-> [order    |-> Questions[k].order,
                                 status   |-> status(k),
                                 selected |-> a[k],
                                 correct  |-> Questions[k].correct]]
    BY DEF ToStudentQuestionReview, BuildQuestionAnalysis
  <2> HIDE DEF review, status
  <2>2. \A k \in Ids : review[k].status = status(k)
    BY <2>1
  <2> QED
    BY <2>2 DEF status
<1> HIDE DEF review, A, C
<1>3. /\ St("CORRECT") = C /\ St("INCORRECT") = A \ C
      /\ St("UNANSWERED") = Ids \ A
  BY <1>1, <1>2
<1>4. /\ IsFiniteSet(A) /\ IsFiniteSet(C) /\ IsFiniteSet(Ids)
      /\ Cardinality(Ids) = Total
  BY <1>1, IdsAreFinite
<1>5. /\ Cardinality(A \ C) = Cardinality(A) - Cardinality(A \cap C)
      /\ Cardinality(Ids \ A) = Cardinality(Ids) - Cardinality(Ids \cap A)
  BY <1>4, FS_Difference
<1>6. A \cap C = C /\ Ids \cap A = A
  BY <1>1
<1> QED
  BY <1>3, <1>4, <1>5, <1>6 DEF WithStatus, review, A, C

(* What is stored was scored from answers that differ from those read      *)
(* beside it in the late saves only.                                       *)
Selections == [Ids -> Options \cup {None}]

ResultInv ==
  /\ answer \in Selections
  /\ lateSaves \subseteq Ids
  /\ submitted => \E a \in Selections :
                     /\ result = ComputeScoring(a)
                     /\ \A k \in Ids \ lateSaves : a[k] = answer[k]

LEMMA ResultStep == ResultInv /\ [NextResults]_resultVars => ResultInv'
<1> SUFFICES ASSUME ResultInv, [NextResults]_resultVars PROVE ResultInv'
  OBVIOUS
<1>1. ASSUME NEW k \in Ids, NEW o \in Options \cup {None}, SubmitAnswer(k, o)
      PROVE  ResultInv'
  <2>1. /\ answer \in Selections /\ answer' = [answer EXCEPT ![k] = o]
        /\ lateSaves' = IF submitted THEN lateSaves \cup {k} ELSE lateSaves
        /\ UNCHANGED <<submitted, result>>
    BY <1>1 DEF SubmitAnswer, ResultInv
  <2>2. answer' \in Selections /\ \A j \in Ids \ {k} : answer'[j] = answer[j]
    BY <2>1 DEF Selections
  <2>3. lateSaves' \subseteq Ids
    BY <2>1 DEF ResultInv
  <2>4. ASSUME submitted'
        PROVE  \E a \in Selections : /\ result' = ComputeScoring(a)
                                  /\ \A j \in Ids \ lateSaves' : a[j] = answer'[j]
    <3>1. PICK a \in Selections : /\ result = ComputeScoring(a)
                              /\ \A j \in Ids \ lateSaves : a[j] = answer[j]
      BY <2>1, <2>4 DEF ResultInv
    <3>2. lateSaves' = lateSaves \cup {k}
      BY <2>1, <2>4
    <3> QED
      BY <2>1, <2>2, <3>1, <3>2
  <2> QED
    BY <2>2, <2>3, <2>4 DEF ResultInv
<1>2. CASE SubmitAttempt
  BY <1>2 DEF SubmitAttempt, ResultInv
<1>3. ASSUME NEW label, SetFinalPlacement(label) PROVE ResultInv'
  BY <1>3 DEF SetFinalPlacement, ResultInv
<1>4. CASE UNCHANGED resultVars
  BY <1>4 DEF ResultInv
<1> QED
  BY <1>1, <1>2, <1>3, <1>4 DEF NextResults

LEMMA ResultInvariance == ResultsSpec => []ResultInv
<1>1. InitResults => ResultInv
  BY DEF InitResults, ResultInv, Selections
<1> QED
  BY <1>1, ResultStep, PTL DEF ResultsSpec

LEMMA ScoresAreNear ==
  ASSUME NEW a, NEW b, NEW L \in SUBSET Ids, \A k \in Ids \ L : a[k] = b[k]
  PROVE  /\ Cardinality(CorrectAnswers(a)) \in Nat /\ Cardinality(L) \in Nat
         /\ Cardinality(CorrectAnswers(a)) <= Cardinality(CorrectAnswers(b)) + Cardinality(L)
<1> DEFINE C == CorrectAnswers(a)  D == CorrectAnswers(b)
<1>1. C \in SUBSET Ids /\ D \in SUBSET Ids /\ C \subseteq D \cup L
  BY DEF CorrectAnswers, Answered
<1>2. IsFiniteSet(C) /\ IsFiniteSet(D) /\ IsFiniteSet(L) /\ IsFiniteSet(D \cup L)
  <2> HIDE DEF C, D
  <2>1. D \cup L \in SUBSET Ids
    BY <1>1
  <2> QED
    BY <1>1, <2>1, IdsAreFinite
<1>3. /\ Cardinality(C) \in Nat /\ Cardinality(D) \in Nat /\ Cardinality(L) \in Nat
      /\ Cardinality(D \cap L) \in Nat /\ Cardinality(C) <= Cardinality(D \cup L)
      /\ Cardinality(D \cup L) = Cardinality(D) + Cardinality(L) - Cardinality(D \cap L)
  <2> HIDE DEF C, D
  <2>1. IsFiniteSet(D \cap L)
    BY <1>2, FS_Intersection
  <2> QED
    BY <1>1, <1>2, <2>1, FS_CardinalityType, FS_Subset, FS_Union
<1> HIDE DEF C, D
<1>4. Cardinality(C) <= Cardinality(D) + Cardinality(L)
  BY <1>3
<1> QED
  BY <1>3, <1>4 DEF C, D

(* The two halves of a report agree in themselves, and with each other up  *)
(* to the late saves, for every list of questions, every labelling, every  *)
(* set of answers and every number of late saves.                          *)
THEOREM ReportsAlwaysAgree == ResultsSpec => []ReportsAgree
<1>1. ResultInv => ReportsAgree
  <2> SUFFICES ASSUME ResultInv, submitted PROVE ReportsAgree
    BY DEF ReportsAgree
  <2> DEFINE s == StudentReport
             d == AdminReport
             C == CorrectAnswers(answer)
             levels == ComputeCourseLevelPerformance(answer)
             difficulties == [k \in Ids |-> OrUnspecified(Questions[k].difficulty)]
             topics == [k \in Ids |-> OrUnspecified(Questions[k].topic)]
             InRanges(S) == {k \in S : FindProgressionBand(Questions[k].order) # None}
  <2>0. PICK a \in Selections : /\ result = ComputeScoring(a)
                            /\ \A k \in Ids \ lateSaves : a[k] = answer[k]
    BY DEF ResultInv
  <2> DEFINE R == CorrectAnswers(a)
  <2>1. /\ s.rawScore = Cardinality(R)
        /\ s.progression = ComputeAnswerBreakdown(answer)
        /\ s.questionReview = ToStudentQuestionReview(answer)
    BY <2>0 DEF StudentReport, BuildStudentResultSummary, ComputeScoring, ComputeRawScore
  <2>2. /\ d.difficultyProgression = Buckets(difficulties, a)
        /\ d.topicPerformance = Buckets(topics, a)
        /\ d.courseLevels = levels
    BY <2>0 DEF AdminReport, BuildAdminResultDetail, ComputeScoring,
                ComputeDifficultyProgression, ComputeTopicPerformance
  <2>3. /\ s.progression.correct = Cardinality(C)
        /\ s.progression.incorrect = Cardinality(Answered(answer)) - Cardinality(C)
        /\ s.progression.unanswered = Total - Cardinality(Answered(answer))
    <3> HIDE DEF s
    <3> QED
      BY <2>1 DEF ComputeAnswerBreakdown
  <2>4. /\ SumOver(Buckets(difficulties, a), "correct") = Cardinality(R)
        /\ SumOver(Buckets(topics, a), "correct") = Cardinality(R)
    <3>1. DOMAIN difficulties = Ids /\ DOMAIN topics = Ids
      OBVIOUS
    <3> HIDE DEF difficulties, topics
    <3> QED
      BY <3>1, BucketsCountCorrect
  <2>5. /\ C \in SUBSET Ids /\ Ids \in SUBSET Ids
        /\ DOMAIN levels = 1 .. 6
        /\ \A n \in 1 .. 6 :
             /\ levels[n]["correct"]
                  = Cardinality({k \in Ids : InBand(k, ProgressionBands[n])} \cap C)
             /\ levels[n]["total"]
                  = Cardinality({k \in Ids : InBand(k, ProgressionBands[n])} \cap Ids)
    <3> DEFINE here(n) == {k \in Ids : InBand(k, ProgressionBands[n])}
    <3>1. C \in SUBSET Ids
      BY DEF CorrectAnswers, Answered
    <3>2. \A n : here(n) \cap Ids = here(n)
      OBVIOUS
    <3>3. levels = [n \in 1 .. 6 |->
                      [label      |-> ProgressionBands[n].label,
                       correct    |-> Cardinality(here(n) \cap C),
                       incorrect  |-> Cardinality(here(n) \cap WrongAnswers(answer)),
                       unanswered |-> Cardinality(here(n) \ Answered(answer)),
                       total      |-> Cardinality(here(n))]]
      BY LevelsDiffer DEF ComputeCourseLevelPerformance
    <3> HIDE DEF levels, C, here
    <3>4. /\ DOMAIN levels = 1 .. 6
          /\ \A n \in 1 .. 6 : /\ levels[n]["correct"] = Cardinality(here(n) \cap C)
                               /\ levels[n]["total"] = Cardinality(here(n) \cap Ids)
      BY <3>2, <3>3
    <3> QED
      BY <3>1, <3>4 DEF here
  <2>6. /\ SumOver(levels, "correct") = Cardinality(InRanges(C))
        /\ SumOver(levels, "total") = Cardinality(InRanges(Ids))
    <3> HIDE DEF levels, C, InRanges
    <3>1. SumOver(levels, "correct")
            = Cardinality({k \in C : FindProgressionBand(Questions[k].order) # None})
      <4>1. CountsByLevel(levels, "correct", C)
        BY <2>5 DEF CountsByLevel
      <4> QED
        BY <4>1, LevelsCount
    <3>2. SumOver(levels, "total")
            = Cardinality({k \in Ids : FindProgressionBand(Questions[k].order) # None})
      <4>1. CountsByLevel(levels, "total", Ids)
        BY <2>5 DEF CountsByLevel
      <4> QED
        BY <4>1, LevelsCount
    <3> QED
      BY <3>1, <3>2 DEF InRanges
  <2>7. /\ WithStatus(s.questionReview, "CORRECT") = Cardinality(C)
        /\ WithStatus(s.questionReview, "INCORRECT")
             = Cardinality(Answered(answer)) - Cardinality(C)
        /\ WithStatus(s.questionReview, "UNANSWERED")
             = Total - Cardinality(Answered(answer))
    BY <2>1, ReviewCounts
  <2> HIDE DEF levels, difficulties, topics
  <2>8. /\ Cardinality(R) <= Cardinality(C) + Cardinality(lateSaves)
        /\ Cardinality(C) <= Cardinality(R) + Cardinality(lateSaves)
    BY <2>0, ScoresAreNear DEF ResultInv
  <2>9. /\ s.rawScore <= s.progression.correct + Cardinality(lateSaves)
        /\ s.progression.correct <= s.rawScore + Cardinality(lateSaves)
        /\ SumOver(d.difficultyProgression, "correct") = s.rawScore
        /\ SumOver(d.topicPerformance, "correct") = s.rawScore
        /\ s.progression.correct = WithStatus(s.questionReview, "CORRECT")
        /\ s.progression.incorrect = WithStatus(s.questionReview, "INCORRECT")
        /\ s.progression.unanswered = WithStatus(s.questionReview, "UNANSWERED")
        /\ SumOver(d.courseLevels, "correct") = Cardinality(InRanges(C))
        /\ SumOver(d.courseLevels, "total") = Cardinality(InRanges(Ids))
    <3> HIDE DEF s, d, C, R, InRanges
    <3> QED
      BY <2>1, <2>2, <2>3, <2>4, <2>6, <2>7, <2>8
  <2> QED
    BY <2>9 DEF ReportsAgree
<1> QED
  BY <1>1, ResultInvariance, PTL

-----------------------------------------------------------------------------
(***************************************************************************)
(* The test runner.                                                        *)
(***************************************************************************)

-----------------------------------------------------------------------------
(* The inductive invariant.                                                *)

Has(t, ops) == \E i \in 1 .. Len(calls[t]) : calls[t][i].op \in ops

(* The router sends a tab's calls one after another.                       *)
Waits(t) == \A i \in 2 .. Len(calls[t]) : calls[t][i].stage = "queued"

AlreadyClosed == {"INVITATION_USED", "ATTEMPT_EXPIRED", "INVALID_ATTEMPT_STATE",
                  "DUPLICATE_SUBMISSION"}

Trouble == revoked \/ faults > 0

(* What an answer says is so, and stays so.                                *)
IsTrue(c) ==
  /\ c.op = "page" => c.reply \notin {"OK", "INVITATION_USED", "ATTEMPT_EXPIRED",
                                      "INVALID_ATTEMPT_STATE", ""}
  /\ c.op = "submit" => c.reply \in {"OK", "SERVER_ERROR", "INVITATION_REVOKED",
                                     "DUPLICATE_SUBMISSION", "INVITATION_USED"}
  /\ c.op = "load" => c.reply \in AlreadyClosed \cup
                                  {"OK", "SERVER_ERROR", "INVITATION_REVOKED"}
  /\ c.op = "submit" /\ c.reply = "OK" => attempt = "CLOSED"
  /\ c.op = "save" /\ c.reply = "OK" => c.question = NONE
  /\ c.reply \in AlreadyClosed \cup {"COMPLETED"} => attempt = "CLOSED"
  /\ c.reply = "INVITATION_REVOKED" => revoked
  /\ c.reply \in {"TEST_UNAVAILABLE", "TEST_NOT_PUBLISHED"} => ~ published
  /\ c.reply = "SERVER_ERROR" => faults > 0

AnswerIsTrue(t) == At(t, "answered") => IsTrue(calls[t][1])

(* The result is asked for when there must be one, or when the questions   *)
(* could not be loaded; it comes unless there is trouble.                  *)
Comes(c) == \/ c.stage = "queued"
            \/ c.stage = "answered" /\ c.reply = "COMPLETED"
            \/ Trouble

StatusHasReason(t) ==
  /\ Has(t, {"status"}) =>
       attempt = "CLOSED" \/ (Trouble /\ ~ tab[t].ready)
  /\ \A i \in 1 .. Len(calls[t]) : calls[t][i].op = "status" => Comes(calls[t][i])

(* Which calls there may be at which point of the page's life.             *)
Early == {"closed", "loading", "form", "welcome", "instructions"}

CallsFit(t) ==
  /\ tab[t].phase \in Early => ~ Has(t, {"load", "save", "submit", "status"})
  /\ tab[t].ready => tab[t].phase = "test"
  /\ tab[t].phase = "test" /\ ~ tab[t].ready => ~ Has(t, {"save", "submit"})
  /\ Has(t, {"load"}) /\ tab[t].phase # "left" =>
       /\ tab[t].phase = "test" /\ ~ tab[t].ready
       /\ ~ Has(t, {"status"})
       /\ \A i \in 1 .. Len(calls[t]) : calls[t][i].op = "load" => i = Len(calls[t])

(* A submission left behind by a page that has gone on does nothing.       *)
OverIsOver(t) ==
  tab[t].phase \in {"result", "error"} /\ Has(t, {"submit"}) =>
    attempt = "CLOSED" \/ (revoked /\ ~ At(t, "validated") /\ ~ At(t, "closing"))

(* What the page shows is stored, or the last save of it is on its way.    *)
SaveOf(c, q) == c.op = "save" /\ c.question = q

LastSaveOf(t, q, i) ==
  /\ SaveOf(calls[t][i], q)
  /\ \A j \in 1 .. Len(calls[t]) : j > i => ~ SaveOf(calls[t][j], q)

ShownIsComing(t) ==
  tab[t].ready =>
    \A q \in sure[t] :
       \/ /\ \A i \in 1 .. Len(calls[t]) : ~ SaveOf(calls[t][i], q)
          /\ stored[q] = tab[t].shown[q]
       \/ \E i \in 1 .. Len(calls[t]) :
             /\ LastSaveOf(t, q, i)
             /\ calls[t][i].stage = "answered" \/ calls[t][i].option = tab[t].shown[q]

LoadedIsStored(t) ==
  HasAnswer(t, "load") /\ calls[t][1].reply = "OK" =>
    \A q \in sure[t] : calls[t][1].answers[q] = stored[q]

(* Nothing is selected behind a submission.                                *)
SubmitIsLast(t) ==
  tab[t].ready /\ sure[t] # {} /\ Has(t, {"submit"}) =>
    /\ tab[t].busy
    /\ \A i, j \in 1 .. Len(calls[t]) :
         calls[t][i].op = "submit" /\ i < j => calls[t][j].op # "save"

ClosedIsForgotten(t) == attempt = "CLOSED" => sure[t] = {}

TabInv(t) ==
  /\ Waits(t) /\ AnswerIsTrue(t) /\ StatusHasReason(t) /\ CallsFit(t)
  /\ OverIsOver(t) /\ ShownIsComing(t) /\ LoadedIsStored(t) /\ SubmitIsLast(t)
  /\ ClosedIsForgotten(t)

RunnerInv == TypeOK /\ \A t \in Tabs : TabInv(t)

-----------------------------------------------------------------------------
(* Queues.                                                                 *)

Replaced(t, c) == calls' = [calls EXCEPT ![t][1] = c]

LEMMA FrontOfQueue ==
  ASSUME TypeOK, NEW t \in Tabs, calls[t] # <<>>
  PROVE  /\ calls[t] \in Seq(Call) /\ Len(calls[t]) \in Nat /\ Len(calls[t]) >= 1
         /\ Head(calls[t]) = calls[t][1] /\ calls[t][1] \in Call
BY DEF TypeOK

LEMMA FrontReplaced ==
  ASSUME TypeOK, NEW t \in Tabs, calls[t] # <<>>, NEW c \in Call, Replaced(t, c)
  PROVE  /\ calls' \in [Tabs -> Seq(Call)]
         /\ Len(calls'[t]) = Len(calls[t]) /\ calls'[t] # <<>>
         /\ calls'[t][1] = c /\ Head(calls'[t]) = c
         /\ \A i \in 2 .. Len(calls[t]) : calls'[t][i] = calls[t][i]
         /\ \A u \in Tabs : u # t => calls'[u] = calls[u]
<1> DEFINE s == [calls[t] EXCEPT ![1] = c]
<1>1. calls[t] \in Seq(Call) /\ Len(calls[t]) \in Nat /\ Len(calls[t]) >= 1
  BY FrontOfQueue
<1>2. s \in Seq(Call) /\ Len(s) = Len(calls[t]) /\ s[1] = c
      /\ \A i \in 2 .. Len(calls[t]) : s[i] = calls[t][i]
  BY <1>1
<1>3. calls' = [calls EXCEPT ![t] = s]
  BY DEF Replaced
<1> HIDE DEF s
<1>4. calls' \in [Tabs -> Seq(Call)] /\ calls'[t] = s
      /\ \A u \in Tabs : u # t => calls'[u] = calls[u]
  BY <1>2, <1>3 DEF TypeOK
<1> QED
  BY <1>1, <1>2, <1>4

LEMMA Moved ==
  ASSUME TypeOK, NEW t \in Tabs, calls[t] # <<>>,
         NEW stage \in {"queued", "validated", "closing", "answered"}, Moves(t, stage)
  PROVE  \E c \in Call : /\ Replaced(t, c)
                         /\ c.op = calls[t][1].op /\ c.stage = stage
                         /\ c.question = calls[t][1].question
                         /\ c.option = calls[t][1].option
<1> DEFINE d == calls[t][1]
           c == [d EXCEPT !.stage = stage]
<1>1. d \in Call
  BY FrontOfQueue
<1>2. c \in Call /\ c.op = d.op /\ c.stage = stage /\ c.question = d.question
      /\ c.option = d.option
  BY <1>1 DEF Call
<1>3. Replaced(t, c)
  BY DEF Moves, Replaced
<1> QED
  BY <1>2, <1>3

LEMMA Replied ==
  ASSUME TypeOK, NEW t \in Tabs, calls[t] # <<>>, NEW r \in Replies, Reply(t, r)
  PROVE  \E c \in Call : /\ Replaced(t, c)
                         /\ c.op = calls[t][1].op /\ c.stage = "answered" /\ c.reply = r
                         /\ r = "OK" => c.question = NONE
                         /\ r # "OK" => c.question = calls[t][1].question
<1> DEFINE d == calls[t][1]
           given == [NewCall(d.op) EXCEPT !.stage = "answered", !.reply = r]
           c == IF r = "OK" THEN given
                ELSE [given EXCEPT !.question = d.question, !.previous = d.previous]
<1>1. d \in Call /\ d = Head(calls[t])
  BY FrontOfQueue
<1>2. c \in Call /\ c.op = d.op /\ c.stage = "answered" /\ c.reply = r
      /\ (r = "OK" => c.question = NONE) /\ (r # "OK" => c.question = d.question)
  BY <1>1 DEF Call, NewCall, NoAnswers, Answers
<1>3. Replaced(t, c)
  BY <1>1 DEF Reply, Replaced
<1> QED
  BY <1>2, <1>3

(* A call is asked for.                                                    *)
LEMMA Asked ==
  ASSUME TypeOK, NEW t \in Tabs, NEW c \in Call, Ask(t, c)
  PROVE  /\ calls' \in [Tabs -> Seq(Call)]
         /\ Len(calls[t]) \in Nat /\ Len(calls'[t]) = Len(calls[t]) + 1
         /\ calls'[t] # <<>> /\ Head(calls'[t]) = calls'[t][1]
         /\ calls'[t][Len(calls[t]) + 1] = c
         /\ \A i \in 1 .. Len(calls[t]) : calls'[t][i] = calls[t][i]
         /\ \A u \in Tabs : u # t => calls'[u] = calls[u]
<1>1. calls[t] \in Seq(Call) /\ calls'[t] = Append(calls[t], c)
      /\ calls' \in [Tabs -> Seq(Call)] /\ \A u \in Tabs : u # t => calls'[u] = calls[u]
  BY DEF TypeOK, Ask
<1> QED
  BY <1>1

(* The front is taken.                                                     *)
LEMMA Taken ==
  ASSUME TypeOK, NEW t \in Tabs, calls[t] # <<>>, Receive(t)
  PROVE  /\ calls' \in [Tabs -> Seq(Call)]
         /\ Len(calls[t]) \in Nat /\ Len(calls'[t]) = Len(calls[t]) - 1
         /\ calls'[t] # <<>> => Head(calls'[t]) = calls'[t][1] /\ Len(calls'[t]) >= 1
         /\ \A i \in 1 .. Len(calls'[t]) : calls'[t][i] = calls[t][i + 1]
         /\ \A u \in Tabs : u # t => calls'[u] = calls[u]
<1>1. calls[t] \in Seq(Call) /\ calls'[t] = Tail(calls[t]) /\ Tail(calls[t]) \in Seq(Call)
      /\ calls' \in [Tabs -> Seq(Call)] /\ \A u \in Tabs : u # t => calls'[u] = calls[u]
  BY DEF TypeOK, Receive
<1> QED
  BY <1>1

LEMMA TakenThen ==
  ASSUME TypeOK, NEW t \in Tabs, calls[t] # <<>>, NEW op \in Ops, ReceiveThen(t, op)
  PROVE  /\ calls' \in [Tabs -> Seq(Call)]
         /\ Len(calls[t]) \in Nat /\ Len(calls'[t]) = Len(calls[t])
         /\ calls'[t] # <<>> /\ Len(calls'[t]) >= 1 /\ Head(calls'[t]) = calls'[t][1]
         /\ calls'[t][Len(calls[t])] = NewCall(op)
         /\ \A i \in 1 .. Len(calls[t]) - 1 : calls'[t][i] = calls[t][i + 1]
         /\ \A u \in Tabs : u # t => calls'[u] = calls[u]
<1>1. NewCall(op) \in Call
  BY DEF NewCall, Call, NoAnswers, Answers, Replies
<1>2. calls[t] \in Seq(Call) /\ Tail(calls[t]) \in Seq(Call)
      /\ Len(Tail(calls[t])) = Len(calls[t]) - 1
      /\ \A i \in 1 .. Len(calls[t]) - 1 : Tail(calls[t])[i] = calls[t][i + 1]
  BY DEF TypeOK
<1> DEFINE s == Tail(calls[t])
           c == NewCall(op)
<1>3. calls'[t] = Append(s, c)
      /\ calls' \in [Tabs -> Seq(Call)] /\ \A u \in Tabs : u # t => calls'[u] = calls[u]
  BY <1>1, <1>2 DEF TypeOK, ReceiveThen
<1>4. Len(calls[t]) \in Nat
  BY DEF TypeOK
<1> HIDE DEF s, c
<1>5. Len(s) = Len(calls[t]) - 1 /\ s \in Seq(Call) /\ c \in Call
  BY <1>1, <1>2 DEF s, c
<1>6. Len(Append(s, c)) = Len(s) + 1 /\ Append(s, c)[Len(s) + 1] = c
      /\ \A i \in 1 .. Len(s) : Append(s, c)[i] = s[i]
  BY <1>5
<1>7. Append(s, c) # <<>> /\ Head(Append(s, c)) = Append(s, c)[1]
      /\ Len(Append(s, c)) >= 1
  BY <1>5
<1>8. c = NewCall(op) /\ \A i \in 1 .. Len(calls[t]) - 1 : s[i] = calls[t][i + 1]
  BY <1>2 DEF s, c
<1> QED
  BY <1>3, <1>4, <1>5, <1>6, <1>7, <1>8

-----------------------------------------------------------------------------
(* A tab that does nothing.  What can change for it.                       *)

Ages == /\ attempt = "CLOSED" => attempt' = "CLOSED"
        /\ revoked => revoked'
        /\ faults > 0 => faults' > 0
        /\ published' = published

LEMMA TruthLasts ==
  ASSUME NEW c, Ages, IsTrue(c)
  PROVE  IsTrue(c)'
BY DEF IsTrue, Ages

LEMMA ReasonLasts ==
  ASSUME NEW c, Ages, Comes(c)
  PROVE  Comes(c)'
BY DEF Comes, Trouble, Ages

LEMMA RestingTab ==
  ASSUME TypeOK, NEW u \in Tabs, TabInv(u), calls'[u] = calls[u], tab'[u] = tab[u], Ages,
         sure'[u] \subseteq sure[u], attempt' = "CLOSED" => sure'[u] = {},
         \A q \in sure'[u] : stored'[q] = stored[q]
  PROVE  TabInv(u)'
<1>1. Waits(u)' /\ CallsFit(u)' /\ ClosedIsForgotten(u)'
  BY DEF TabInv, Waits, CallsFit, ClosedIsForgotten, Has
<1>2. AnswerIsTrue(u)'
  BY TruthLasts DEF TabInv, AnswerIsTrue, At
<1>3. StatusHasReason(u)'
  BY ReasonLasts DEF TabInv, StatusHasReason, Has, Trouble, Ages
<1>4. OverIsOver(u)'
  BY DEF TabInv, OverIsOver, Ages, Has, At
<1>5. ShownIsComing(u)'
  BY DEF TabInv, ShownIsComing, LastSaveOf
<1>6. LoadedIsStored(u)'
  BY DEF TabInv, LoadedIsStored, HasAnswer, At
<1>7. SubmitIsLast(u)'
  BY DEF TabInv, SubmitIsLast, Has
<1> QED
  BY <1>1, <1>2, <1>3, <1>4, <1>5, <1>6, <1>7 DEF TabInv

-----------------------------------------------------------------------------
(* The server works on the call at the front.                              *)

LEMMA FrontStep ==
  ASSUME TypeOK, NEW t \in Tabs, TabInv(t), calls[t] # <<>>, NEW c \in Call,
         Replaced(t, c), c.op = calls[t][1].op, tab' = tab, Ages,
         c.stage = "answered" => IsTrue(c)',
         c.op = "status" => Comes(c)',
         revoked => \/ c.stage = "answered"
                    \/ At(t, "validated") \/ At(t, "closing")
  PROVE  /\ Waits(t)' /\ AnswerIsTrue(t)' /\ StatusHasReason(t)'
         /\ CallsFit(t)' /\ OverIsOver(t)'
<1>1. /\ Len(calls'[t]) = Len(calls[t]) /\ calls'[t] # <<>> /\ Len(calls[t]) \in Nat
      /\ Len(calls[t]) >= 1
      /\ calls'[t][1] = c /\ Head(calls'[t]) = c /\ Head(calls[t]) = calls[t][1]
      /\ \A i \in 2 .. Len(calls[t]) : calls'[t][i] = calls[t][i]
  BY FrontReplaced, FrontOfQueue
<1>2. \A i \in 1 .. Len(calls[t]) : calls'[t][i].op = calls[t][i].op
  BY <1>1
<1>3. \A ops : Has(t, ops)' <=> Has(t, ops)
  BY <1>1, <1>2 DEF Has
<1>4. Waits(t)'
  BY <1>1 DEF TabInv, Waits
<1>5. AnswerIsTrue(t)'
  BY <1>1 DEF AnswerIsTrue, At
<1>6. StatusHasReason(t)'
  <2>1. ASSUME NEW i \in 1 .. Len(calls[t]), calls'[t][i].op = "status"
        PROVE  Comes(calls[t][i])'
    <3>1. CASE i = 1
      BY <1>1, <2>1, <3>1 DEF Comes, Trouble
    <3>2. CASE i # 1
      <4>1. i \in 2 .. Len(calls[t]) /\ calls'[t][i] = calls[t][i]
        BY <1>1, <3>2
      <4>2. calls[t][i].stage = "queued"
        BY <4>1 DEF TabInv, Waits
      <4> QED
        BY <4>1, <4>2 DEF Comes
    <3> QED
      BY <3>1, <3>2
  <2>2. Has(t, {"status"}) => attempt' = "CLOSED" \/ (Trouble' /\ ~ tab'[t].ready)
    BY DEF TabInv, StatusHasReason, Trouble, Ages
  <2> QED
    BY <1>1, <1>3, <2>1, <2>2 DEF StatusHasReason
<1>7. CallsFit(t)'
  BY <1>1, <1>2, <1>3 DEF TabInv, CallsFit
<1>8. OverIsOver(t)'
  BY <1>1, <1>3 DEF TabInv, OverIsOver, Ages, At
<1> QED
  BY <1>4, <1>5, <1>6, <1>7, <1>8

LEMMA QuietFront ==
  ASSUME TypeOK, NEW t \in Tabs, TabInv(t), calls[t] # <<>>, NEW c \in Call,
         Replaced(t, c), c.op = calls[t][1].op, tab' = tab,
         sure'[t] = sure[t], stored' = stored, attempt' = "CLOSED" => attempt = "CLOSED",
         c.op = "save" => /\ c.question = calls[t][1].question
                          /\ \/ c.stage = "answered"
                             \/ /\ c.option = calls[t][1].option
                                /\ calls[t][1].stage # "answered",
         c.op = "load" /\ c.stage = "answered" => c.reply # "OK"
  PROVE  /\ ShownIsComing(t)' /\ LoadedIsStored(t)' /\ SubmitIsLast(t)'
         /\ ClosedIsForgotten(t)'
<1>1. /\ Len(calls'[t]) = Len(calls[t]) /\ calls'[t] # <<>> /\ Len(calls[t]) \in Nat
      /\ Len(calls[t]) >= 1
      /\ calls'[t][1] = c /\ Head(calls'[t]) = c /\ Head(calls[t]) = calls[t][1]
      /\ \A i \in 2 .. Len(calls[t]) : calls'[t][i] = calls[t][i]
  BY FrontReplaced, FrontOfQueue
<1>2. \A i \in 1 .. Len(calls[t]) : calls'[t][i].op = calls[t][i].op
  BY <1>1
<1>3. \A i \in 1 .. Len(calls[t]) : \A q :
         SaveOf(calls'[t][i], q) <=> SaveOf(calls[t][i], q)
  BY <1>1 DEF SaveOf
<1>4. ShownIsComing(t)'
  <2> SUFFICES ASSUME tab'[t].ready, NEW q \in sure'[t]
               PROVE  \/ /\ \A i \in 1 .. Len(calls'[t]) : ~ SaveOf(calls'[t][i], q)
                         /\ stored'[q] = tab'[t].shown[q]
                      \/ \E i \in 1 .. Len(calls'[t]) :
                           /\ LastSaveOf(t, q, i)'
                           /\ \/ calls'[t][i].stage = "answered"
                              \/ calls'[t][i].option = tab'[t].shown[q]
    BY DEF ShownIsComing
  <2>1. CASE \A i \in 1 .. Len(calls[t]) : ~ SaveOf(calls[t][i], q)
    BY <1>1, <1>3, <2>1 DEF TabInv, ShownIsComing, LastSaveOf
  <2>2. ASSUME NEW i \in 1 .. Len(calls[t]), LastSaveOf(t, q, i),
               calls[t][i].stage = "answered" \/ calls[t][i].option = tab[t].shown[q]
        PROVE  \E j \in 1 .. Len(calls'[t]) :
                 /\ LastSaveOf(t, q, j)'
                 /\ \/ calls'[t][j].stage = "answered"
                    \/ calls'[t][j].option = tab'[t].shown[q]
    <3>1. LastSaveOf(t, q, i)'
      BY <1>1, <1>3, <2>2 DEF LastSaveOf
    <3>2. i = 1 \/ i \in 2 .. Len(calls[t])
      BY <1>1
    <3>3. calls'[t][i].stage = "answered" \/ calls'[t][i].option = tab'[t].shown[q]
      <4>1. CASE i = 1
        <5>1. c.op = "save" /\ Len(calls[t]) >= 1
          BY <2>2, <4>1, <1>1 DEF LastSaveOf, SaveOf
        <5>3. CASE c.stage = "answered"
          BY <1>1, <4>1, <5>3
        <5>4. CASE c.option = calls[t][1].option /\ calls[t][1].stage # "answered"
          BY <1>1, <2>2, <4>1, <5>4
        <5> QED
          BY <1>1, <5>1, <5>3, <5>4
      <4>2. CASE i \in 2 .. Len(calls[t])
        BY <1>1, <2>2, <4>2
      <4> QED
        BY <3>2, <4>1, <4>2
    <3> QED
      BY <1>1, <3>1, <3>3
  <2> QED
    BY <1>1, <2>1, <2>2 DEF TabInv, ShownIsComing
<1>5. LoadedIsStored(t)'
  BY <1>1 DEF LoadedIsStored, HasAnswer, At
<1>6. SubmitIsLast(t)'
  BY <1>1, <1>2 DEF TabInv, SubmitIsLast, Has
<1>7. ClosedIsForgotten(t)'
  BY DEF TabInv, ClosedIsForgotten
<1> QED
  BY <1>4, <1>5, <1>6, <1>7

LEMMA QuietServer ==
  ASSUME RunnerInv, NEW t \in Tabs, calls[t] # <<>>, NEW c \in Call,
         Replaced(t, c), c.op = calls[t][1].op,
         UNCHANGED <<tab, sure, stored, published, revoked>>,
         attempt' \in {"NONE", "OPEN", "CLOSED"},
         {late', profile'} \subseteq BOOLEAN, faults' \in faults .. MaxFaults,
         attempt' = "CLOSED" <=> attempt = "CLOSED",
         c.stage = "answered" => IsTrue(c)',
         c.op = "status" => Comes(c)',
         revoked => \/ c.stage = "answered"
                    \/ At(t, "validated") \/ At(t, "closing"),
         c.op = "save" => /\ c.question = calls[t][1].question
                          /\ \/ c.stage = "answered"
                             \/ /\ c.option = calls[t][1].option
                                /\ calls[t][1].stage # "answered",
         c.op = "load" /\ c.stage = "answered" => c.reply # "OK"
  PROVE  RunnerInv'
<1>1. TypeOK /\ TabInv(t)
  BY DEF RunnerInv
<1>2. calls' \in [Tabs -> Seq(Call)] /\ \A u \in Tabs : u # t => calls'[u] = calls[u]
  BY <1>1, FrontReplaced
<1>3. faults \in Nat /\ faults' \in Nat /\ faults' >= faults
  BY <1>1, RunnerAssumption DEF TypeOK
<1>4. Ages
  BY <1>3 DEF Ages
<1>5. TypeOK'
  BY <1>1, <1>2, <1>3 DEF TypeOK
<1>6. TabInv(t)'
  <2>1. /\ Waits(t)' /\ AnswerIsTrue(t)' /\ StatusHasReason(t)'
        /\ CallsFit(t)' /\ OverIsOver(t)'
    BY <1>1, <1>4, FrontStep
  <2>2. /\ ShownIsComing(t)' /\ LoadedIsStored(t)' /\ SubmitIsLast(t)'
        /\ ClosedIsForgotten(t)'
    BY <1>1, QuietFront
  <2> QED
    BY <2>1, <2>2 DEF TabInv
<1>7. ASSUME NEW u \in Tabs, u # t PROVE TabInv(u)'
  <2>1. TabInv(u)
    BY DEF RunnerInv
  <2>2. attempt' = "CLOSED" => sure'[u] = {}
    BY <2>1 DEF TabInv, ClosedIsForgotten
  <2> QED
    BY <1>1, <1>2, <1>4, <1>7, <2>1, <2>2, RestingTab
<1> QED
  BY <1>5, <1>6, <1>7 DEF RunnerInv

LEMMA ValidateStep ==
  ASSUME RunnerInv, NEW t \in Tabs, Validate(t)
  PROVE  RunnerInv'
<1> DEFINE d == calls[t][1]
<1>1. TypeOK /\ TabInv(t) /\ calls[t] # <<>> /\ d.stage = "queued" /\ At(t, "queued")
  BY FrontOfQueue DEF RunnerInv, Validate, At
<1>2. Head(calls[t]) = d /\ d \in Call /\ Len(calls[t]) >= 1 /\ Len(calls[t]) \in Nat
  BY <1>1, FrontOfQueue
<1>3. /\ attempt' = attempt /\ late' = late /\ profile' = profile /\ faults' = faults
      /\ UNCHANGED <<tab, sure, stored, published, revoked>>
  BY DEF Validate, server, admin
<1>4. /\ attempt' \in {"NONE", "OPEN", "CLOSED"} /\ {late', profile'} \subseteq BOOLEAN
      /\ faults' \in faults .. MaxFaults
  BY <1>1, <1>3, RunnerAssumption DEF TypeOK
<1>5. d.op = "status" => attempt = "CLOSED" \/ Trouble
  BY <1>1, <1>2 DEF TabInv, StatusHasReason, Has
<1>6. CASE LinkStatus = "ACTIVE"
  <2>1. Moves(t, "validated") /\ ~ revoked /\ attempt # "CLOSED"
    BY <1>6 DEF Validate, LinkStatus
  <2>2. PICK c \in Call : /\ Replaced(t, c) /\ c.op = d.op /\ c.stage = "validated"
                          /\ c.question = d.question /\ c.option = d.option
    BY <1>1, <2>1, Moved
  <2>3. c.op = "status" => Comes(c)'
    BY <1>3, <1>5, <2>1, <2>2 DEF Comes, Trouble
  <2> QED
    BY <1>1, <1>3, <1>4, <2>1, <2>2, <2>3, QuietServer
<1>7. CASE LinkStatus # "ACTIVE"
  <2>1. PICK r \in {"INVITATION_REVOKED", "COMPLETED", "INVITATION_USED"} :
           /\ Reply(t, r)
           /\ r = "INVITATION_REVOKED" => revoked
           /\ r # "INVITATION_REVOKED" => attempt = "CLOSED"
           /\ r = "COMPLETED" => d.op \in {"page", "status"}
           /\ r = "INVITATION_USED" => d.op \notin {"page", "status"}
    BY <1>2, <1>7 DEF Validate, LinkStatus
  <2>2. r \in Replies /\ r # "OK"
    BY DEF Replies, Refusals
  <2>3. PICK c \in Call : /\ Replaced(t, c) /\ c.op = d.op /\ c.stage = "answered"
                          /\ c.reply = r /\ c.question = d.question
    BY <1>1, <2>1, <2>2, Replied
  <2>4. IsTrue(c)'
    BY <1>3, <2>1, <2>3 DEF IsTrue, AlreadyClosed
  <2>5. c.op = "status" => Comes(c)'
    BY <1>3, <2>1, <2>3 DEF Comes, Trouble
  <2> QED
    BY <1>1, <1>3, <1>4, <2>2, <2>3, <2>4, <2>5, QuietServer
<1> QED
  BY <1>6, <1>7

LEMMA QuietReply ==
  ASSUME RunnerInv, NEW t \in Tabs, At(t, "validated"), NEW r \in Replies, Reply(t, r),
         UNCHANGED <<tab, sure, stored, published, revoked>>,
         attempt' \in {"NONE", "OPEN", "CLOSED"},
         {late', profile'} \subseteq BOOLEAN, faults' \in faults .. MaxFaults,
         attempt' = "CLOSED" <=> attempt = "CLOSED",
         \A c \in Call : c.op = calls[t][1].op /\ c.reply = r
                          /\ (c.reply = "OK" => c.question = NONE) => IsTrue(c)',
         r = "OK" => calls[t][1].op \notin {"save", "load"}
  PROVE  RunnerInv'
<1> DEFINE d == calls[t][1]
<1>1. TypeOK /\ TabInv(t) /\ calls[t] # <<>> /\ d.stage = "validated"
  BY FrontOfQueue DEF RunnerInv, At
<1>2. Len(calls[t]) >= 1 /\ Len(calls[t]) \in Nat
  BY <1>1, FrontOfQueue
<1>3. d.op = "status" => Trouble
  BY <1>1, <1>2 DEF TabInv, StatusHasReason, Comes
<1>4. faults \in Nat /\ faults' \in Nat /\ faults' >= faults
  BY <1>1, RunnerAssumption DEF TypeOK
<1>5. PICK c \in Call : /\ Replaced(t, c) /\ c.op = d.op /\ c.stage = "answered"
                        /\ c.reply = r /\ (r # "OK" => c.question = d.question)
                        /\ (r = "OK" => c.question = NONE)
  BY <1>1, Replied
<1>6. IsTrue(c)'
  BY <1>5
<1>7. c.op = "status" => Comes(c)'
  BY <1>3, <1>4, <1>5 DEF Comes, Trouble
<1>8. c.op = "save" => c.question = d.question
  BY <1>5
<1>9. c.op = "load" => c.reply # "OK"
  BY <1>5
<1> QED
  BY <1>1, <1>5, <1>6, <1>7, <1>8, <1>9, QuietServer

LEMMA UpdateCandidateStep ==
  ASSUME RunnerInv, NEW t \in Tabs, UpdateCandidate(t)
  PROVE  RunnerInv'
<1>1. TypeOK /\ At(t, "validated") /\ calls[t] # <<>> /\ Reply(t, "OK")
  BY DEF RunnerInv, UpdateCandidate, Working, At
<1>2. calls[t][1].op = "profile"
  BY <1>1, FrontOfQueue DEF UpdateCandidate, Working
<1>3. /\ attempt' = attempt /\ late' = late /\ profile' \in BOOLEAN /\ faults' = faults
      /\ UNCHANGED <<tab, sure, stored, published, revoked>>
  BY DEF UpdateCandidate, admin
<1>4. /\ attempt' \in {"NONE", "OPEN", "CLOSED"} /\ {late', profile'} \subseteq BOOLEAN
      /\ faults' \in faults .. MaxFaults
  BY <1>1, <1>3, RunnerAssumption DEF TypeOK
<1>5. \A c \in Call : c.op = calls[t][1].op /\ c.reply = "OK" => IsTrue(c)'
  BY <1>2 DEF IsTrue, AlreadyClosed
<1>6. "OK" \in Replies
  BY DEF Replies
<1> QED
  BY <1>1, <1>2, <1>3, <1>4, <1>5, <1>6, QuietReply

LEMMA NoAttemptYetStep ==
  ASSUME RunnerInv, NEW t \in Tabs, NoAttemptYet(t)
  PROVE  RunnerInv'
<1>1. TypeOK /\ At(t, "validated") /\ calls[t] # <<>> /\ attempt = "NONE"
  BY DEF RunnerInv, NoAttemptYet, Working, At
<1>2. calls[t][1].op \in {"page", "status", "begin"} /\ Head(calls[t]) = calls[t][1]
  BY <1>1, FrontOfQueue DEF NoAttemptYet, Working
<1>3. /\ attempt' \in {"NONE", "OPEN"} /\ late' = late /\ profile' = profile
      /\ faults' = faults /\ UNCHANGED <<tab, sure, stored, published, revoked>>
  BY <1>1 DEF NoAttemptYet, admin
<1>4. /\ attempt' \in {"NONE", "OPEN", "CLOSED"} /\ {late', profile'} \subseteq BOOLEAN
      /\ faults' \in faults .. MaxFaults
  BY <1>1, <1>3, RunnerAssumption DEF TypeOK
<1>5. PICK r \in {"IN_PROGRESS", "TEST_NOT_PUBLISHED", "TEST_UNAVAILABLE",
                  "NEEDS_PROFILE", "NOT_STARTED"} :
         Reply(t, r) /\ (r \in {"TEST_UNAVAILABLE", "TEST_NOT_PUBLISHED"} => ~ published)
  <2>1. published \in BOOLEAN /\ profile \in BOOLEAN
    BY <1>1 DEF TypeOK
  <2> QED
    BY <1>1, <1>2, <2>1 DEF NoAttemptYet
<1>6. \A c \in Call : c.op = calls[t][1].op /\ c.reply = r => IsTrue(c)'
  BY <1>2, <1>3, <1>5 DEF IsTrue, AlreadyClosed
<1>7. r \in Replies /\ r # "OK"
  BY DEF Replies, Refusals
<1> QED
  BY <1>1, <1>3, <1>4, <1>5, <1>6, <1>7, QuietReply

LEMMA AttemptRunsStep ==
  ASSUME RunnerInv, NEW t \in Tabs, AttemptRuns(t)
  PROVE  RunnerInv'
<1>1. TypeOK /\ At(t, "validated") /\ calls[t] # <<>> /\ Reply(t, "IN_PROGRESS")
  BY DEF RunnerInv, AttemptRuns, Working, At
<1>2. calls[t][1].op \in {"page", "status", "begin"}
  BY <1>1, FrontOfQueue DEF AttemptRuns, Working
<1>3. /\ attempt' = attempt /\ late' = late /\ profile' = profile /\ faults' = faults
      /\ UNCHANGED <<tab, sure, stored, published, revoked>>
  BY DEF AttemptRuns, server, admin
<1>4. /\ attempt' \in {"NONE", "OPEN", "CLOSED"} /\ {late', profile'} \subseteq BOOLEAN
      /\ faults' \in faults .. MaxFaults
  BY <1>1, <1>3, RunnerAssumption DEF TypeOK
<1>5. \A c \in Call : c.op = calls[t][1].op /\ c.reply = "IN_PROGRESS" => IsTrue(c)'
  BY <1>2 DEF IsTrue, AlreadyClosed
<1>6. "IN_PROGRESS" \in Replies /\ "IN_PROGRESS" # "OK"
  BY DEF Replies
<1> QED
  BY <1>1, <1>3, <1>4, <1>5, <1>6, QuietReply

LEMMA AttemptIsClosedStep ==
  ASSUME RunnerInv, NEW t \in Tabs, AttemptIsClosed(t)
  PROVE  RunnerInv'
<1>1. TypeOK /\ At(t, "validated") /\ calls[t] # <<>> /\ attempt = "CLOSED"
  BY DEF RunnerInv, AttemptIsClosed, Working, At
<1>2. Head(calls[t]) = calls[t][1]
  BY <1>1, FrontOfQueue
<1>3. /\ attempt' = attempt /\ late' = late /\ profile' = profile /\ faults' = faults
      /\ UNCHANGED <<tab, sure, stored, published, revoked>>
  BY DEF AttemptIsClosed, server, admin
<1>4. /\ attempt' \in {"NONE", "OPEN", "CLOSED"} /\ {late', profile'} \subseteq BOOLEAN
      /\ faults' \in faults .. MaxFaults
  BY <1>1, <1>3, RunnerAssumption DEF TypeOK
<1>5. PICK r \in {"DUPLICATE_SUBMISSION", "COMPLETED", "INVALID_ATTEMPT_STATE"} :
         /\ Reply(t, r)
         /\ calls[t][1].op = "submit" => r = "DUPLICATE_SUBMISSION"
         /\ calls[t][1].op = "page" => r = "COMPLETED"
         /\ calls[t][1].op = "load" => r = "INVALID_ATTEMPT_STATE"
  BY <1>2 DEF AttemptIsClosed
<1>6. \A c \in Call : c.op = calls[t][1].op /\ c.reply = r => IsTrue(c)'
  BY <1>1, <1>3, <1>5 DEF IsTrue, AlreadyClosed
<1>7. r \in Replies /\ r # "OK"
  BY DEF Replies, Refusals
<1> QED
  BY <1>1, <1>3, <1>4, <1>5, <1>6, <1>7, QuietReply

LEMMA FailCallStep ==
  ASSUME RunnerInv, NEW t \in Tabs, FailCall(t)
  PROVE  RunnerInv'
<1>1. TypeOK /\ At(t, "validated") /\ Reply(t, "SERVER_ERROR")
  BY DEF RunnerInv, FailCall
<1>2. /\ attempt' = attempt /\ late' = late /\ profile' = profile /\ faults' = faults + 1
      /\ faults < MaxFaults /\ UNCHANGED <<tab, sure, stored, published, revoked>>
  BY DEF FailCall, server, admin
<1>3. /\ attempt' \in {"NONE", "OPEN", "CLOSED"} /\ {late', profile'} \subseteq BOOLEAN
      /\ faults' \in faults .. MaxFaults /\ faults' > 0
  BY <1>1, <1>2, RunnerAssumption DEF TypeOK
<1>4. \A c \in Call : c.op = calls[t][1].op /\ c.reply = "SERVER_ERROR" => IsTrue(c)'
  BY <1>3 DEF IsTrue, AlreadyClosed
<1>5. "SERVER_ERROR" \in Replies /\ "SERVER_ERROR" # "OK"
  BY DEF Replies, Refusals
<1> QED
  BY <1>1, <1>2, <1>3, <1>4, <1>5, QuietReply

LEMMA GradeStep ==
  ASSUME RunnerInv, NEW t \in Tabs, Grade(t)
  PROVE  RunnerInv'
<1> DEFINE d == calls[t][1]
<1>1. TypeOK /\ TabInv(t) /\ At(t, "validated") /\ calls[t] # <<>> /\ Moves(t, "closing")
  BY DEF RunnerInv, Grade, Working, At
<1>2. Head(calls[t]) = d /\ d.stage = "validated" /\ Len(calls[t]) >= 1
      /\ Len(calls[t]) \in Nat
  BY <1>1, FrontOfQueue DEF At
<1>3. /\ attempt' = attempt /\ late' = late /\ profile' = profile /\ faults' = faults
      /\ UNCHANGED <<tab, sure, stored, published, revoked>>
  BY DEF Grade, server, admin
<1>4. /\ attempt' \in {"NONE", "OPEN", "CLOSED"} /\ {late', profile'} \subseteq BOOLEAN
      /\ faults' \in faults .. MaxFaults
  BY <1>1, <1>3, RunnerAssumption DEF TypeOK
<1>5. PICK c \in Call : /\ Replaced(t, c) /\ c.op = d.op /\ c.stage = "closing"
                        /\ c.question = d.question /\ c.option = d.option
  BY <1>1, Moved
<1>6. c.op = "status" => Comes(c)'
  <2>1. d.op = "status" => Trouble
    BY <1>1, <1>2 DEF TabInv, StatusHasReason, Comes
  <2> QED
    BY <1>3, <1>5, <2>1 DEF Comes, Trouble
<1> QED
  BY <1>1, <1>2, <1>3, <1>4, <1>5, <1>6, QuietServer

LEMMA NothingSure ==
  ASSUME NEW t \in Tabs, sure'[t] = {}
  PROVE  /\ ShownIsComing(t)' /\ LoadedIsStored(t)' /\ SubmitIsLast(t)'
         /\ ClosedIsForgotten(t)'
BY DEF ShownIsComing, LoadedIsStored, SubmitIsLast, ClosedIsForgotten

LEMMA CloseAttemptStep ==
  ASSUME RunnerInv, NEW t \in Tabs, CloseAttempt(t)
  PROVE  RunnerInv'
<1> DEFINE d == calls[t][1]
<1>1. TypeOK /\ TabInv(t) /\ At(t, "closing") /\ calls[t] # <<>>
  BY DEF RunnerInv, CloseAttempt, At
<1>2. Head(calls[t]) = d /\ d.stage = "closing" /\ Len(calls[t]) >= 1
      /\ Len(calls[t]) \in Nat /\ d \in Call
  BY <1>1, FrontOfQueue DEF At
<1>3. /\ attempt' = "CLOSED" /\ late' \in BOOLEAN /\ profile' = profile /\ faults' = faults
      /\ sure' = [u \in Tabs |-> {}] /\ stored' = NoAnswers
      /\ UNCHANGED <<tab, published, revoked>>
  BY DEF CloseAttempt, admin
<1>4. PICK r \in {"DUPLICATE_SUBMISSION", "OK", "ATTEMPT_EXPIRED", "COMPLETED"} :
         /\ Reply(t, r)
         /\ d.op = "submit" => r \in {"OK", "DUPLICATE_SUBMISSION"}
         /\ d.op \in {"load", "save"} => r \in {"ATTEMPT_EXPIRED", "DUPLICATE_SUBMISSION"}
         /\ d.op = "page" => r \in {"COMPLETED", "DUPLICATE_SUBMISSION"}
  BY <1>2 DEF CloseAttempt
<1>5. r \in Replies
  BY DEF Replies, Refusals
<1>6. PICK c \in Call : /\ Replaced(t, c) /\ c.op = d.op /\ c.stage = "answered"
                        /\ c.reply = r
  BY <1>1, <1>4, <1>5, Replied
<1>7. IsTrue(c)'
  BY <1>3, <1>4, <1>6 DEF IsTrue, AlreadyClosed
<1>8. c.op = "status" => Comes(c)'
  <2>1. d.op = "status" => Trouble
    BY <1>1, <1>2 DEF TabInv, StatusHasReason, Comes
  <2> QED
    BY <1>3, <1>6, <2>1 DEF Comes, Trouble
<1>9. Ages
  BY <1>3 DEF Ages
<1>10. TabInv(t)'
  <2>1. /\ Waits(t)' /\ AnswerIsTrue(t)' /\ StatusHasReason(t)'
        /\ CallsFit(t)' /\ OverIsOver(t)'
    BY <1>1, <1>3, <1>6, <1>7, <1>8, <1>9, FrontStep
  <2>2. /\ ShownIsComing(t)' /\ LoadedIsStored(t)' /\ SubmitIsLast(t)'
        /\ ClosedIsForgotten(t)'
    BY <1>3, NothingSure
  <2> QED
    BY <2>1, <2>2 DEF TabInv
<1>11. calls' \in [Tabs -> Seq(Call)] /\ \A u \in Tabs : u # t => calls'[u] = calls[u]
  BY <1>1, <1>6, FrontReplaced
<1>12. ASSUME NEW u \in Tabs, u # t PROVE TabInv(u)'
  <2>1. TabInv(u)
    BY DEF RunnerInv
  <2> QED
    BY <1>1, <1>3, <1>9, <1>11, <1>12, <2>1, RestingTab
<1>13. TypeOK'
  <2>1. stored' \in Answers
    BY <1>3 DEF NoAnswers, Answers
  <2>2. {late', profile', published', revoked'} \subseteq BOOLEAN
    BY <1>1, <1>3 DEF TypeOK
  <2> QED
    BY <1>1, <1>3, <1>11, <2>1, <2>2 DEF TypeOK
<1> QED
  BY <1>10, <1>12, <1>13 DEF RunnerInv

LEMMA ReadQuestionsStep ==
  ASSUME RunnerInv, NEW t \in Tabs, ReadQuestions(t)
  PROVE  RunnerInv'
<1> DEFINE d == calls[t][1]
           read == [d EXCEPT !.stage = "answered", !.reply = "OK", !.answers = stored]
<1>1. TypeOK /\ TabInv(t) /\ At(t, "validated") /\ calls[t] # <<>>
  BY DEF RunnerInv, ReadQuestions, Working, At
<1>2. d.op = "load" /\ Len(calls[t]) >= 1 /\ Len(calls[t]) \in Nat /\ d \in Call
  BY <1>1, FrontOfQueue DEF ReadQuestions, Working
<1>3. /\ attempt = "OPEN" /\ sure' = [sure EXCEPT ![t] = QuestionIds]
      /\ UNCHANGED <<attempt, late, stored, profile, published, revoked, tab, faults>>
  BY DEF ReadQuestions, server, admin
<1>4. PICK c \in Call : /\ Replaced(t, c) /\ c.op = d.op /\ c.stage = "answered"
                        /\ c.reply = "OK" /\ c.answers = stored
  <2>1. read \in Call /\ read.op = d.op /\ read.stage = "answered" /\ read.reply = "OK"
        /\ read.answers = stored
    BY <1>1, <1>2 DEF Call, Replies, TypeOK
  <2>2. Replaced(t, read)
    BY DEF ReadQuestions, Replaced
  <2> QED
    BY <2>1, <2>2
<1>5. Replaced(t, c)
  BY <1>4
<1>6. IsTrue(c)'
  BY <1>2, <1>4 DEF IsTrue, AlreadyClosed
<1>7. Ages
  BY <1>3 DEF Ages
<1>8. Waits(t)' /\ AnswerIsTrue(t)' /\ StatusHasReason(t)' /\ CallsFit(t)' /\ OverIsOver(t)'
  BY <1>1, <1>2, <1>3, <1>4, <1>5, <1>6, <1>7, FrontStep
<1>9. ~ tab[t].ready
  <2>1. Has(t, {"load"})
    BY <1>2 DEF Has
  <2> QED
    BY <1>1, <2>1 DEF TabInv, CallsFit
<1>10. /\ calls' \in [Tabs -> Seq(Call)] /\ \A u \in Tabs : u # t => calls'[u] = calls[u]
       /\ calls'[t][1] = c
  BY <1>1, <1>4, <1>5, FrontReplaced
<1>11. TabInv(t)'
  <2>1. ShownIsComing(t)' /\ SubmitIsLast(t)' /\ ClosedIsForgotten(t)'
    BY <1>3, <1>9 DEF ShownIsComing, SubmitIsLast, ClosedIsForgotten
  <2>2. LoadedIsStored(t)'
    BY <1>3, <1>4, <1>10 DEF LoadedIsStored
  <2> QED
    BY <1>8, <2>1, <2>2 DEF TabInv
<1>12. ASSUME NEW u \in Tabs, u # t PROVE TabInv(u)'
  <2>1. TabInv(u) /\ sure'[u] = sure[u]
    BY <1>1, <1>3, <1>12 DEF RunnerInv, TypeOK
  <2> QED
    BY <1>1, <1>3, <1>7, <1>10, <1>12, <2>1, RestingTab
<1>13. TypeOK'
  BY <1>1, <1>3, <1>10 DEF TypeOK
<1> QED
  BY <1>11, <1>12, <1>13 DEF RunnerInv

LEMMA StoreAnswerStep ==
  ASSUME RunnerInv, NEW t \in Tabs, StoreAnswer(t)
  PROVE  RunnerInv'
<1> DEFINE d == calls[t][1]
<1>1. TypeOK /\ TabInv(t) /\ At(t, "validated") /\ calls[t] # <<>> /\ Reply(t, "OK")
  BY DEF RunnerInv, StoreAnswer, Working, At
<1>2. /\ d.op = "save" /\ d.stage = "validated" /\ Head(calls[t]) = d /\ d \in Call
      /\ Len(calls[t]) >= 1 /\ Len(calls[t]) \in Nat
  BY <1>1, FrontOfQueue DEF StoreAnswer, Working, At
<1>3. /\ attempt = "OPEN" /\ stored' = [stored EXCEPT ![d.question] = d.option]
      /\ sure' = [u \in Tabs |-> IF u = t THEN sure[u] ELSE sure[u] \ {d.question}]
      /\ UNCHANGED <<attempt, late, profile, published, revoked, tab, faults>>
  BY <1>2 DEF StoreAnswer, admin
<1>4. "OK" \in Replies
  BY DEF Replies
<1>5. PICK c \in Call : /\ Replaced(t, c) /\ c.op = d.op /\ c.stage = "answered"
                        /\ c.reply = "OK" /\ c.question = NONE
  BY <1>1, <1>4, Replied
<1>6. IsTrue(c)'
  BY <1>2, <1>5 DEF IsTrue, AlreadyClosed
<1>7. Ages
  BY <1>3 DEF Ages
<1>8. Waits(t)' /\ AnswerIsTrue(t)' /\ StatusHasReason(t)' /\ CallsFit(t)' /\ OverIsOver(t)'
  BY <1>1, <1>2, <1>3, <1>5, <1>6, <1>7, FrontStep
<1>9. /\ calls' \in [Tabs -> Seq(Call)] /\ \A u \in Tabs : u # t => calls'[u] = calls[u]
      /\ calls'[t][1] = c /\ calls'[t] # <<>> /\ Head(calls'[t]) = c
      /\ Len(calls'[t]) = Len(calls[t])
      /\ \A i \in 2 .. Len(calls[t]) : calls'[t][i] = calls[t][i]
  BY <1>1, <1>5, FrontReplaced
<1>10. \A q \in QuestionIds : stored'[q] = IF d.question = q THEN d.option ELSE stored[q]
  BY <1>1, <1>3 DEF TypeOK, Answers
<1>11. ShownIsComing(t)'
  <2> SUFFICES ASSUME tab'[t].ready, NEW q \in sure'[t]
               PROVE  \/ /\ \A i \in 1 .. Len(calls'[t]) : ~ SaveOf(calls'[t][i], q)
                         /\ stored'[q] = tab'[t].shown[q]
                      \/ \E i \in 1 .. Len(calls'[t]) :
                           /\ LastSaveOf(t, q, i)'
                           /\ \/ calls'[t][i].stage = "answered"
                              \/ calls'[t][i].option = tab'[t].shown[q]
    BY DEF ShownIsComing
  <2>1. q \in sure[t] /\ q \in QuestionIds /\ tab[t].ready /\ q # NONE
    BY <1>1, <1>3, RunnerAssumption DEF TypeOK
  <2>2. ~ SaveOf(c, q)
    BY <1>5, <2>1 DEF SaveOf
  <2>3. \A i \in 2 .. Len(calls[t]) : SaveOf(calls'[t][i], q) <=> SaveOf(calls[t][i], q)
    BY <1>9
  <2>4. CASE \A i \in 1 .. Len(calls[t]) : ~ SaveOf(calls[t][i], q)
    <3>1. d.question # q
      BY <1>2, <2>4 DEF SaveOf
    <3>2. stored[q] = tab[t].shown[q]
      BY <1>1, <2>1, <2>4 DEF TabInv, ShownIsComing, LastSaveOf
    <3>3. \A i \in 1 .. Len(calls'[t]) : ~ SaveOf(calls'[t][i], q)
      BY <1>2, <1>9, <2>2, <2>3, <2>4
    <3> QED
      BY <1>3, <1>10, <2>1, <3>1, <3>2, <3>3
  <2>5. ASSUME NEW i \in 1 .. Len(calls[t]), LastSaveOf(t, q, i),
               calls[t][i].stage = "answered" \/ calls[t][i].option = tab[t].shown[q],
               i = 1
        PROVE  /\ \A j \in 1 .. Len(calls'[t]) : ~ SaveOf(calls'[t][j], q)
               /\ stored'[q] = tab'[t].shown[q]
    <3>1. d.question = q /\ d.option = tab[t].shown[q]
      BY <1>2, <2>5 DEF LastSaveOf, SaveOf
    <3>2. \A j \in 1 .. Len(calls'[t]) : ~ SaveOf(calls'[t][j], q)
      BY <1>2, <1>9, <2>2, <2>3, <2>5 DEF LastSaveOf
    <3> QED
      BY <1>3, <1>10, <2>1, <3>1, <3>2
  <2>6. ASSUME NEW i \in 1 .. Len(calls[t]), LastSaveOf(t, q, i),
               calls[t][i].stage = "answered" \/ calls[t][i].option = tab[t].shown[q],
               i # 1
        PROVE  \E j \in 1 .. Len(calls'[t]) :
                 /\ LastSaveOf(t, q, j)'
                 /\ \/ calls'[t][j].stage = "answered"
                    \/ calls'[t][j].option = tab'[t].shown[q]
    <3>1. i \in 2 .. Len(calls[t]) /\ calls'[t][i] = calls[t][i]
      BY <1>2, <1>9, <2>6
    <3>2. LastSaveOf(t, q, i)'
      BY <1>2, <1>9, <2>3, <2>6, <3>1 DEF LastSaveOf
    <3> QED
      BY <1>3, <1>9, <2>6, <3>1, <3>2
  <2> QED
    BY <1>1, <2>1, <2>4, <2>5, <2>6 DEF TabInv, ShownIsComing
<1>12. TabInv(t)'
  <2>1. LoadedIsStored(t)'
    BY <1>2, <1>5, <1>9 DEF LoadedIsStored, HasAnswer
  <2>2. ClosedIsForgotten(t)'
    BY <1>3 DEF ClosedIsForgotten
  <2>3. SubmitIsLast(t)'
    <3>1. \A i \in 1 .. Len(calls[t]) : calls'[t][i].op = calls[t][i].op
      BY <1>2, <1>5, <1>9
    <3>2. sure'[t] = sure[t]
      BY <1>3
    <3> QED
      BY <1>1, <1>3, <1>9, <3>1, <3>2 DEF TabInv, SubmitIsLast, Has
  <2> QED
    BY <1>8, <1>11, <2>1, <2>2, <2>3 DEF TabInv
<1>13. ASSUME NEW u \in Tabs, u # t PROVE TabInv(u)'
  <2>1. TabInv(u) /\ sure'[u] = sure[u] \ {d.question} /\ sure[u] \subseteq QuestionIds
    BY <1>1, <1>3, <1>13 DEF RunnerInv, TypeOK
  <2>2. \A q \in sure'[u] : stored'[q] = stored[q]
    BY <1>10, <2>1
  <2> QED
    BY <1>1, <1>3, <1>7, <1>9, <1>13, <2>1, <2>2, RestingTab
<1>14. TypeOK'
  <2>1. stored' \in Answers
    BY <1>1, <1>2, <1>3 DEF TypeOK, Answers, Call
  <2>2. sure' \in [Tabs -> SUBSET QuestionIds]
    BY <1>1, <1>3 DEF TypeOK
  <2> QED
    BY <1>1, <1>3, <1>9, <2>1, <2>2 DEF TypeOK
<1> QED
  BY <1>12, <1>13, <1>14 DEF RunnerInv

-----------------------------------------------------------------------------
(* The page handles the answer at the front.                               *)

(* The front is taken, and perhaps one more call is asked for.             *)
Onward(t, next) == \/ next = {} /\ Receive(t)
                   \/ \E op \in next : next = {op} /\ ReceiveThen(t, op)

LEMMA GoesOn ==
  ASSUME TypeOK, NEW t \in Tabs, TabInv(t), calls[t] # <<>>, NEW next \in SUBSET Ops,
         Onward(t, next)
  PROVE  /\ calls' \in [Tabs -> Seq(Call)]
         /\ \A u \in Tabs : u # t => calls'[u] = calls[u]
         /\ Len(calls'[t]) \in Nat /\ Len(calls[t]) \in Nat
         /\ \A i \in 1 .. Len(calls'[t]) :
               \/ i + 1 \in 2 .. Len(calls[t]) /\ calls'[t][i] = calls[t][i + 1]
               \/ i = Len(calls'[t]) /\ \E op \in next : calls'[t][i] = NewCall(op)
         /\ \A i \in 2 .. Len(calls[t]) :
               i - 1 \in 1 .. Len(calls'[t]) /\ calls'[t][i - 1] = calls[t][i]
         /\ next = {} => Len(calls'[t]) = Len(calls[t]) - 1
         /\ calls'[t] # <<>> => Len(calls'[t]) >= 1 /\ Head(calls'[t]) = calls'[t][1]
<1>0. Len(calls[t]) \in Nat /\ Len(calls[t]) >= 1
  BY FrontOfQueue
<1>1. CASE next = {} /\ Receive(t)
  BY <1>0, <1>1, Taken
<1>2. ASSUME NEW op \in next, next = {op}, ReceiveThen(t, op)
      PROVE  /\ calls' \in [Tabs -> Seq(Call)]
             /\ \A u \in Tabs : u # t => calls'[u] = calls[u]
             /\ Len(calls'[t]) \in Nat /\ Len(calls[t]) \in Nat
             /\ \A i \in 1 .. Len(calls'[t]) :
                   \/ i + 1 \in 2 .. Len(calls[t]) /\ calls'[t][i] = calls[t][i + 1]
                   \/ i = Len(calls'[t]) /\ calls'[t][i] = NewCall(op)
             /\ \A i \in 2 .. Len(calls[t]) :
                   i - 1 \in 1 .. Len(calls'[t]) /\ calls'[t][i - 1] = calls[t][i]
             /\ calls'[t] # <<>> => Len(calls'[t]) >= 1 /\ Head(calls'[t]) = calls'[t][1]
  <2>1. op \in Ops
    BY <1>2
  <2> HIDE DEF Ops
  <2> QED
    BY <1>0, <1>2, <2>1, TakenThen
<1> QED
  BY <1>1, <1>2 DEF Onward

LEMMA Queueing ==
  ASSUME TypeOK, NEW t \in Tabs, TabInv(t), calls[t] # <<>>, NEW next \in SUBSET Ops,
         Onward(t, next)
  PROVE  /\ \A i \in 1 .. Len(calls'[t]) : calls'[t][i].stage = "queued"
         /\ \A ops : Has(t, ops)' => Has(t, ops) \/ next \cap ops # {}
<1>1. /\ Len(calls'[t]) \in Nat /\ Len(calls[t]) \in Nat
      /\ \A i \in 1 .. Len(calls'[t]) :
            \/ i + 1 \in 2 .. Len(calls[t]) /\ calls'[t][i] = calls[t][i + 1]
            \/ i = Len(calls'[t]) /\ \E op \in next : calls'[t][i] = NewCall(op)
  BY GoesOn
<1>2. \A op : NewCall(op).stage = "queued" /\ NewCall(op).op = op
  BY DEF NewCall
<1>3. \A i \in 2 .. Len(calls[t]) : calls[t][i].stage = "queued"
  BY DEF TabInv, Waits
<1>4. \A i \in 1 .. Len(calls'[t]) : calls'[t][i].stage = "queued"
  BY <1>1, <1>2, <1>3
<1>5. ASSUME NEW ops, NEW i \in 1 .. Len(calls'[t]), calls'[t][i].op \in ops
      PROVE  Has(t, ops) \/ next \cap ops # {}
  <2>1. CASE i + 1 \in 2 .. Len(calls[t]) /\ calls'[t][i] = calls[t][i + 1]
    <3>1. i + 1 \in 1 .. Len(calls[t])
      BY <1>1, <2>1
    <3> QED
      BY <1>5, <2>1, <3>1 DEF Has
  <2>2. CASE \E op \in next : calls'[t][i] = NewCall(op)
    BY <1>2, <1>5, <2>2
  <2> QED
    BY <1>1, <2>1, <2>2
<1> QED
  BY <1>4, <1>5 DEF Has

LEMMA AllQueued ==
  ASSUME NEW t \in Tabs, Len(calls'[t]) \in Nat,
         calls'[t] # <<>> => Len(calls'[t]) >= 1 /\ Head(calls'[t]) = calls'[t][1],
         \A i \in 1 .. Len(calls'[t]) : calls'[t][i].stage = "queued"
  PROVE  /\ Waits(t)' /\ AnswerIsTrue(t)' /\ LoadedIsStored(t)'
         /\ ~ At(t, "validated")' /\ ~ At(t, "closing")'
         /\ \A i \in 1 .. Len(calls'[t]) : Comes(calls[t][i])'
<1>1. \A stage : At(t, stage)' => stage = "queued"
  BY DEF At
<1>2. Waits(t)'
  BY DEF Waits
<1>3. AnswerIsTrue(t)' /\ LoadedIsStored(t)'
  BY <1>1 DEF AnswerIsTrue, LoadedIsStored, HasAnswer
<1>4. \A i \in 1 .. Len(calls'[t]) : Comes(calls[t][i])'
  BY DEF Comes
<1> QED
  BY <1>1, <1>2, <1>3, <1>4

(* Only t's own tab, its calls and what it is sure of have changed.        *)
LEMMA OwnStep ==
  ASSUME RunnerInv, NEW t \in Tabs,
         UNCHANGED <<attempt, late, stored, profile, published, revoked>>,
         faults' \in faults .. MaxFaults,
         calls' \in [Tabs -> Seq(Call)], tab' \in [Tabs -> Tab],
         sure' \in [Tabs -> SUBSET QuestionIds],
         \A u \in Tabs : u # t =>
            calls'[u] = calls[u] /\ tab'[u] = tab[u] /\ sure'[u] = sure[u],
         TabInv(t)'
  PROVE  RunnerInv'
<1>1. faults \in Nat /\ faults' \in Nat /\ faults' >= faults
  BY RunnerAssumption DEF RunnerInv, TypeOK
<1>2. Ages
  BY <1>1 DEF Ages
<1>3. TypeOK'
  BY <1>1 DEF RunnerInv, TypeOK
<1>4. ASSUME NEW u \in Tabs, u # t PROVE TabInv(u)'
  <2>1. TypeOK /\ TabInv(u)
    BY DEF RunnerInv
  <2>2. attempt' = "CLOSED" => sure'[u] = {}
    BY <1>4, <2>1 DEF TabInv, ClosedIsForgotten
  <2> QED
    BY <1>2, <1>4, <2>1, <2>2, RestingTab
<1> QED
  BY <1>3, <1>4 DEF RunnerInv

(* A page of another phase is shown.                                       *)
LEMMA Showing ==
  ASSUME TypeOK, NEW t \in Tabs, NEW phase \in Phases, Shows(t, phase)
  PROVE  /\ tab' \in [Tabs -> Tab] /\ \A u \in Tabs : u # t => tab'[u] = tab[u]
         /\ tab'[t].phase = phase /\ ~ tab'[t].ready
BY DEF TypeOK, Tab, Shows, Closed, NoAnswers, Answers

LEMMA ShowsStep ==
  ASSUME RunnerInv, NEW t \in Tabs, calls[t] # <<>>, Receive(t),
         NEW phase \in Phases \ {"test", "left"}, Shows(t, phase),
         UNCHANGED <<attempt, late, stored, profile, published, revoked, faults, sure>>,
         phase \in Early => ~ Has(t, {"load", "save", "submit", "status"}),
         ~ Has(t, {"load"}),
         Has(t, {"submit"}) => attempt = "CLOSED" \/ revoked
  PROVE  RunnerInv'
<1>1. TypeOK /\ TabInv(t) /\ Onward(t, {}) /\ {} \in SUBSET Ops
  BY DEF RunnerInv, Onward
<1>2. /\ calls' \in [Tabs -> Seq(Call)] /\ \A u \in Tabs : u # t => calls'[u] = calls[u]
      /\ Len(calls'[t]) \in Nat
      /\ calls'[t] # <<>> => Len(calls'[t]) >= 1 /\ Head(calls'[t]) = calls'[t][1]
  BY <1>1, GoesOn
<1>3. /\ \A i \in 1 .. Len(calls'[t]) : calls'[t][i].stage = "queued"
      /\ \A ops : Has(t, ops)' => Has(t, ops)
  BY <1>1, Queueing
<1>4. /\ Waits(t)' /\ AnswerIsTrue(t)' /\ LoadedIsStored(t)'
      /\ ~ At(t, "validated")' /\ ~ At(t, "closing")'
      /\ \A i \in 1 .. Len(calls'[t]) : Comes(calls[t][i])'
  BY <1>2, <1>3, AllQueued
<1>5. /\ tab' \in [Tabs -> Tab] /\ \A u \in Tabs : u # t => tab'[u] = tab[u]
      /\ tab'[t].phase = phase /\ ~ tab'[t].ready
  BY <1>1, Showing
<1>6. StatusHasReason(t)'
  <2>1. Has(t, {"status"}) => attempt = "CLOSED" \/ Trouble
    BY <1>1 DEF TabInv, StatusHasReason
  <2>2. Has(t, {"status"})' => attempt' = "CLOSED" \/ (Trouble' /\ ~ tab'[t].ready)
    BY <1>3, <1>5, <2>1 DEF Trouble
  <2> QED
    BY <1>4, <2>2 DEF StatusHasReason
<1>7. CallsFit(t)'
  BY <1>3, <1>5 DEF CallsFit
<1>8. OverIsOver(t)'
  BY <1>3, <1>4 DEF OverIsOver
<1>9. ShownIsComing(t)' /\ SubmitIsLast(t)' /\ ClosedIsForgotten(t)'
  BY <1>1, <1>5 DEF ShownIsComing, SubmitIsLast, ClosedIsForgotten, TabInv
<1>10. TabInv(t)'
  BY <1>4, <1>6, <1>7, <1>8, <1>9 DEF TabInv
<1>11. sure' \in [Tabs -> SUBSET QuestionIds] /\ faults' \in faults .. MaxFaults
  BY <1>1, RunnerAssumption DEF TypeOK
<1> QED
  BY <1>2, <1>5, <1>10, <1>11, OwnStep

(* The test is mounted and asks for its questions.                         *)
LEMMA MountsStep ==
  ASSUME RunnerInv, NEW t \in Tabs, calls[t] # <<>>, Mounts(t), tab[t].phase \in Early,
         UNCHANGED <<attempt, late, stored, profile, published, revoked, faults, sure>>
  PROVE  RunnerInv'
<1>1. TypeOK /\ TabInv(t) /\ ReceiveThen(t, "load") /\ Shows(t, "test")
  BY DEF RunnerInv, Mounts
<1>2. "load" \in Ops /\ {"load"} \in SUBSET Ops /\ "test" \in Phases /\ Onward(t, {"load"})
  BY <1>1 DEF Ops, Phases, Onward
<1>3. /\ calls' \in [Tabs -> Seq(Call)] /\ \A u \in Tabs : u # t => calls'[u] = calls[u]
      /\ Len(calls'[t]) \in Nat /\ Len(calls[t]) \in Nat
      /\ \A i \in 1 .. Len(calls'[t]) :
            \/ i + 1 \in 2 .. Len(calls[t]) /\ calls'[t][i] = calls[t][i + 1]
            \/ i = Len(calls'[t])
      /\ calls'[t] # <<>> => Len(calls'[t]) >= 1 /\ Head(calls'[t]) = calls'[t][1]
  BY <1>1, <1>2, GoesOn
<1>4. /\ \A i \in 1 .. Len(calls'[t]) : calls'[t][i].stage = "queued"
      /\ \A ops : Has(t, ops)' => Has(t, ops) \/ {"load"} \cap ops # {}
  BY <1>1, <1>2, Queueing
<1>5. /\ Waits(t)' /\ AnswerIsTrue(t)' /\ LoadedIsStored(t)'
      /\ \A i \in 1 .. Len(calls'[t]) : Comes(calls[t][i])'
  BY <1>3, <1>4, AllQueued
<1>6. /\ tab' \in [Tabs -> Tab] /\ \A u \in Tabs : u # t => tab'[u] = tab[u]
      /\ tab'[t].phase = "test" /\ ~ tab'[t].ready
  BY <1>1, <1>2, Showing
<1>7. ~ Has(t, {"load", "save", "submit", "status"})
  BY <1>1 DEF TabInv, CallsFit
<1>8. ~ Has(t, {"save", "submit"})' /\ ~ Has(t, {"status"})'
  <2>1. ~ Has(t, {"save", "submit"}) /\ ~ Has(t, {"status"})
    BY <1>7 DEF Has
  <2> QED
    BY <1>4, <2>1
<1>9. \A i \in 1 .. Len(calls'[t]) : calls'[t][i].op = "load" => i = Len(calls'[t])
  <2> SUFFICES ASSUME NEW i \in 1 .. Len(calls'[t]), i # Len(calls'[t])
               PROVE  calls'[t][i].op # "load"
    OBVIOUS
  <2>1. i + 1 \in 1 .. Len(calls[t]) /\ calls'[t][i] = calls[t][i + 1]
    BY <1>3
  <2> QED
    BY <1>7, <2>1 DEF Has
<1>10. CallsFit(t)' /\ StatusHasReason(t)'
  BY <1>5, <1>6, <1>8, <1>9 DEF CallsFit, StatusHasReason, Early
<1>11. /\ OverIsOver(t)' /\ ShownIsComing(t)' /\ SubmitIsLast(t)'
       /\ ClosedIsForgotten(t)'
  BY <1>1, <1>6 DEF OverIsOver, ShownIsComing, SubmitIsLast, ClosedIsForgotten, TabInv
<1>12. TabInv(t)'
  BY <1>5, <1>10, <1>11 DEF TabInv
<1>13. sure' \in [Tabs -> SUBSET QuestionIds] /\ faults' \in faults .. MaxFaults
  BY <1>1, RunnerAssumption DEF TypeOK
<1> QED
  BY <1>3, <1>6, <1>12, <1>13, OwnStep

(* The page stays the one it is; what it shows of the questions it is      *)
(* still sure of stays, and the front was no save of one of these.         *)
LEMMA StaysStep ==
  ASSUME RunnerInv, NEW t \in Tabs, calls[t] # <<>>,
         NEW next \in SUBSET {"status"}, Onward(t, next),
         UNCHANGED <<attempt, late, stored, profile, published, revoked>>,
         faults' \in faults .. MaxFaults,
         tab' \in [Tabs -> Tab], sure' \in [Tabs -> SUBSET QuestionIds],
         \A u \in Tabs : u # t => tab'[u] = tab[u] /\ sure'[u] = sure[u],
         tab'[t].phase = tab[t].phase, tab'[t].ready <=> tab[t].ready,
         sure'[t] \subseteq sure[t],
         tab[t].ready =>
            \A q \in sure'[t] : /\ tab'[t].shown[q] = tab[t].shown[q]
                                /\ ~ SaveOf(calls[t][1], q),
         tab[t].ready /\ sure'[t] # {} /\ tab[t].busy =>
            tab'[t].busy \/ \A i \in 2 .. Len(calls[t]) : calls[t][i].op # "submit",
         next # {} =>
            /\ tab[t].phase \notin Early
            /\ attempt = "CLOSED" \/ (Trouble /\ ~ tab[t].ready)
            /\ \A i \in 2 .. Len(calls[t]) : calls[t][i].op # "load"
  PROVE  RunnerInv'
<1>1. TypeOK /\ TabInv(t) /\ next \in SUBSET Ops
  BY DEF RunnerInv, Ops
<1>2. /\ calls' \in [Tabs -> Seq(Call)] /\ \A u \in Tabs : u # t => calls'[u] = calls[u]
      /\ Len(calls'[t]) \in Nat /\ Len(calls[t]) \in Nat
      /\ \A i \in 1 .. Len(calls'[t]) :
            \/ i + 1 \in 2 .. Len(calls[t]) /\ calls'[t][i] = calls[t][i + 1]
            \/ i = Len(calls'[t]) /\ \E op \in next : calls'[t][i] = NewCall(op)
      /\ \A i \in 2 .. Len(calls[t]) :
            i - 1 \in 1 .. Len(calls'[t]) /\ calls'[t][i - 1] = calls[t][i]
      /\ next = {} => Len(calls'[t]) = Len(calls[t]) - 1
      /\ calls'[t] # <<>> => Len(calls'[t]) >= 1 /\ Head(calls'[t]) = calls'[t][1]
  BY <1>1, GoesOn
<1>3. /\ \A i \in 1 .. Len(calls'[t]) : calls'[t][i].stage = "queued"
      /\ \A ops : Has(t, ops)' => Has(t, ops) \/ next \cap ops # {}
  BY <1>1, Queueing
<1>4. /\ Waits(t)' /\ AnswerIsTrue(t)' /\ LoadedIsStored(t)'
      /\ ~ At(t, "validated")' /\ ~ At(t, "closing")'
      /\ \A i \in 1 .. Len(calls'[t]) : Comes(calls[t][i])'
  BY <1>2, <1>3, AllQueued
<1>5. faults \in Nat /\ faults' \in Nat /\ faults' >= faults
  BY <1>1, RunnerAssumption DEF TypeOK
<1>6. Trouble => Trouble'
  BY <1>5 DEF Trouble
<1>7. \A i \in 1 .. Len(calls'[t]) : calls'[t][i].op # "status" =>
         i + 1 \in 2 .. Len(calls[t]) /\ calls'[t][i] = calls[t][i + 1]
  <2>1. \A op \in next : NewCall(op).op = "status"
    BY DEF NewCall
  <2> QED
    BY <1>2, <2>1
<1>8. StatusHasReason(t)'
  <2>1. Has(t, {"status"}) => attempt = "CLOSED" \/ (Trouble /\ ~ tab[t].ready)
    BY <1>1 DEF TabInv, StatusHasReason
  <2>2. Has(t, {"status"})' => attempt' = "CLOSED" \/ (Trouble' /\ ~ tab'[t].ready)
    BY <1>3, <1>6, <2>1
  <2> QED
    BY <1>4, <2>2 DEF StatusHasReason
<1>9. CallsFit(t)'
  <2>1. /\ Has(t, {"save", "submit"})' => Has(t, {"save", "submit"})
        /\ Has(t, {"load"})' => Has(t, {"load"})
        /\ next = {} => (Has(t, {"status"})' => Has(t, {"status"}))
        /\ next = {} => (Has(t, {"load", "save", "submit", "status"})' =>
                           Has(t, {"load", "save", "submit", "status"}))
    BY <1>3
  <2>2. ASSUME Has(t, {"load"})' PROVE next = {}
    <3>1. PICK i \in 1 .. Len(calls'[t]) : calls'[t][i].op = "load"
      BY <2>2 DEF Has
    <3> QED
      BY <1>7, <3>1
  <2>3. ASSUME Has(t, {"load"})', tab'[t].phase # "left",
               NEW i \in 1 .. Len(calls'[t]), calls'[t][i].op = "load"
        PROVE  i = Len(calls'[t])
    <3>1. i + 1 \in 1 .. Len(calls[t]) /\ calls[t][i + 1].op = "load"
      BY <1>2, <1>7, <2>3
    <3>2. i + 1 = Len(calls[t])
      BY <1>1, <2>1, <2>3, <3>1 DEF TabInv, CallsFit
    <3> QED
      BY <1>2, <2>2, <2>3, <3>2
  <2> QED
    BY <1>1, <2>1, <2>2, <2>3 DEF TabInv, CallsFit
<1>10. OverIsOver(t)'
  <2>1. Has(t, {"submit"})' => Has(t, {"submit"})
    BY <1>3
  <2> QED
    BY <1>1, <1>4, <2>1 DEF TabInv, OverIsOver
<1>11. ASSUME NEW q \in sure'[t], tab'[t].ready
       PROVE  \/ /\ \A i \in 1 .. Len(calls'[t]) : ~ SaveOf(calls'[t][i], q)
                 /\ stored'[q] = tab'[t].shown[q]
              \/ \E i \in 1 .. Len(calls'[t]) :
                    /\ LastSaveOf(t, q, i)'
                    /\ \/ calls'[t][i].stage = "answered"
                       \/ calls'[t][i].option = tab'[t].shown[q]
  <2>1. \A i \in 1 .. Len(calls'[t]) : SaveOf(calls'[t][i], q) =>
           i + 1 \in 2 .. Len(calls[t]) /\ calls'[t][i] = calls[t][i + 1]
    BY <1>7 DEF SaveOf
  <2>2. ~ SaveOf(calls[t][1], q) /\ q \in sure[t] /\ tab'[t].shown[q] = tab[t].shown[q]
    BY <1>11
  <2>3. CASE /\ \A i \in 1 .. Len(calls[t]) : ~ SaveOf(calls[t][i], q)
             /\ stored[q] = tab[t].shown[q]
    <3>1. \A i \in 1 .. Len(calls'[t]) : ~ SaveOf(calls'[t][i], q)
      BY <1>2, <2>1, <2>3
    <3> QED
      BY <2>2, <2>3, <3>1
  <2>4. ASSUME NEW i \in 1 .. Len(calls[t]), LastSaveOf(t, q, i),
               calls[t][i].stage = "answered" \/ calls[t][i].option = tab[t].shown[q]
        PROVE  \E j \in 1 .. Len(calls'[t]) :
                    /\ LastSaveOf(t, q, j)'
                    /\ \/ calls'[t][j].stage = "answered"
                       \/ calls'[t][j].option = tab'[t].shown[q]
    <3>1. i \in 2 .. Len(calls[t])
      BY <1>2, <2>2, <2>4 DEF LastSaveOf
    <3>2. i - 1 \in 1 .. Len(calls'[t]) /\ calls'[t][i - 1] = calls[t][i]
      BY <1>2, <3>1
    <3>3. \A j \in 1 .. Len(calls'[t]) : j > i - 1 => ~ SaveOf(calls'[t][j], q)
      BY <1>2, <2>1, <2>4, <3>1 DEF LastSaveOf
    <3>4. LastSaveOf(t, q, i - 1)'
      BY <2>4, <3>2, <3>3 DEF LastSaveOf
    <3> QED
      BY <2>2, <2>4, <3>2, <3>4
  <2> QED
    BY <1>1, <1>11, <2>2, <2>3, <2>4 DEF TabInv, ShownIsComing
<1>12. ShownIsComing(t)'
  BY <1>11 DEF ShownIsComing
<1>13. SubmitIsLast(t)'
  <2> SUFFICES ASSUME tab'[t].ready, sure'[t] # {}, Has(t, {"submit"})'
               PROVE  /\ tab'[t].busy
                      /\ \A i, j \in 1 .. Len(calls'[t]) :
                           calls'[t][i].op = "submit" /\ i < j => calls'[t][j].op # "save"
    BY DEF SubmitIsLast
  <2>1. Has(t, {"submit"})
    BY <1>3
  <2>2. /\ tab[t].busy
        /\ \A i, j \in 1 .. Len(calls[t]) :
              calls[t][i].op = "submit" /\ i < j => calls[t][j].op # "save"
    BY <1>1, <2>1 DEF TabInv, SubmitIsLast
  <2>3. \E i \in 2 .. Len(calls[t]) : calls[t][i].op = "submit"
    BY <1>7 DEF Has
  <2>4. tab'[t].busy
    BY <2>2, <2>3
  <2>5. ASSUME NEW i \in 1 .. Len(calls'[t]), NEW j \in 1 .. Len(calls'[t]),
               calls'[t][i].op = "submit", i < j, calls'[t][j].op = "save"
        PROVE  FALSE
    <3>1. /\ i + 1 \in 1 .. Len(calls[t]) /\ calls[t][i + 1].op = "submit"
          /\ j + 1 \in 1 .. Len(calls[t]) /\ calls[t][j + 1].op = "save"
      BY <1>2, <1>7, <2>5
    <3> QED
      BY <1>2, <2>2, <2>5, <3>1
  <2> QED
    BY <2>4, <2>5
<1>14. ClosedIsForgotten(t)'
  BY <1>1 DEF TabInv, ClosedIsForgotten
<1>15. TabInv(t)'
  BY <1>4, <1>8, <1>9, <1>10, <1>12, <1>13, <1>14 DEF TabInv
<1> QED
  BY <1>2, <1>15, OwnStep

LEMMA AnsweredFront ==
  ASSUME RunnerInv, NEW t \in Tabs, NEW op, HasAnswer(t, op)
  PROVE  /\ TypeOK /\ TabInv(t) /\ calls[t] # <<>> /\ Head(calls[t]) = calls[t][1]
         /\ calls[t][1] \in Call /\ calls[t][1].op = op
         /\ calls[t][1].stage = "answered" /\ IsTrue(calls[t][1])
         /\ Len(calls[t]) \in Nat /\ Len(calls[t]) >= 1
         /\ \A ops : op \in ops => Has(t, ops)
<1>1. TypeOK /\ TabInv(t) /\ calls[t] # <<>> /\ At(t, "answered")
  BY DEF RunnerInv, HasAnswer, At
<1>2. /\ Head(calls[t]) = calls[t][1] /\ calls[t][1] \in Call
      /\ Len(calls[t]) \in Nat /\ Len(calls[t]) >= 1
  BY <1>1, FrontOfQueue
<1>3. calls[t][1].op = op /\ calls[t][1].stage = "answered"
  BY <1>1, <1>2 DEF HasAnswer, At
<1>4. IsTrue(calls[t][1])
  BY <1>1 DEF TabInv, AnswerIsTrue
<1> QED
  BY <1>1, <1>2, <1>3, <1>4 DEF Has

LEMMA PageShownStep ==
  ASSUME RunnerInv, NEW t \in Tabs, PageShown(t)
  PROVE  RunnerInv'
<1> DEFINE r == calls[t][1].reply
<1>1. /\ TypeOK /\ TabInv(t) /\ calls[t] # <<>> /\ Head(calls[t]) = calls[t][1]
  BY AnsweredFront DEF PageShown
<1>2. /\ tab[t].phase = "loading"
      /\ UNCHANGED <<attempt, late, stored, profile, published, revoked, faults, sure>>
  BY DEF PageShown, server, admin
<1>3. tab[t].phase \in Early
  BY <1>2 DEF Early
<1>4. CASE r = "IN_PROGRESS"
  <2>1. Mounts(t)
    BY <1>1, <1>4 DEF PageShown
  <2> QED
    BY <1>1, <1>2, <1>3, <2>1, MountsStep
<1>5. CASE r # "IN_PROGRESS"
  <2>1. PICK phase \in {"form", "welcome", "result", "error"} : Shows(t, phase)
    BY <1>1, <1>5 DEF PageShown
  <2>2. Receive(t)
    BY <1>1, <1>5 DEF PageShown
  <2>3. phase \in Phases \ {"test", "left"}
    BY DEF Phases
  <2>4. ~ Has(t, {"load", "save", "submit", "status"})
    BY <1>1, <1>3 DEF TabInv, CallsFit
  <2>5. ~ Has(t, {"load"}) /\ ~ Has(t, {"submit"})
    BY <2>4 DEF Has
  <2> QED
    BY <1>1, <1>2, <2>1, <2>2, <2>3, <2>4, <2>5, ShowsStep
<1> QED
  BY <1>4, <1>5

(* Another page of the wizard, or the same one with its button released.   *)
LEMMA ReleaseStep ==
  ASSUME RunnerInv, NEW t \in Tabs, calls[t] # <<>>, Receive(t),
         tab' = [tab EXCEPT ![t].busy = FALSE], sure' \in [Tabs -> SUBSET QuestionIds],
         \A u \in Tabs : u # t => sure'[u] = sure[u],
         sure'[t] \subseteq sure[t], calls[t][1].op # "save",
         \/ ~ tab[t].ready
         \/ sure'[t] = {}
         \/ \A i \in 2 .. Len(calls[t]) : calls[t][i].op # "submit",
         UNCHANGED <<attempt, late, stored, profile, published, revoked, faults>>
  PROVE  RunnerInv'
<1>1. TypeOK /\ TabInv(t)
  BY DEF RunnerInv
<1>2. /\ tab' \in [Tabs -> Tab] /\ \A u \in Tabs : u # t => tab'[u] = tab[u]
      /\ tab'[t].phase = tab[t].phase /\ (tab'[t].ready <=> tab[t].ready)
      /\ tab'[t].shown = tab[t].shown
  BY <1>1 DEF TypeOK, Tab
<1>3. faults' \in faults .. MaxFaults
  BY <1>1, RunnerAssumption DEF TypeOK
<1>4. Onward(t, {}) /\ {} \in SUBSET {"status"}
  BY DEF Onward
<1>5. \A q : ~ SaveOf(calls[t][1], q)
  BY DEF SaveOf
<1> QED
  BY <1>1, <1>2, <1>3, <1>4, <1>5, StaysStep

LEMMA ProfileSavedStep ==
  ASSUME RunnerInv, NEW t \in Tabs, ProfileSaved(t)
  PROVE  RunnerInv'
<1>1. /\ TypeOK /\ TabInv(t) /\ calls[t] # <<>> /\ calls[t][1].op = "profile"
  BY AnsweredFront DEF ProfileSaved
<1>2. /\ tab[t].phase = "form" /\ Receive(t)
      /\ UNCHANGED <<attempt, late, stored, profile, published, revoked, faults, sure>>
  BY DEF ProfileSaved, server, admin
<1>3. ~ Has(t, {"load", "save", "submit", "status"})
  BY <1>1, <1>2 DEF TabInv, CallsFit, Early
<1>4. CASE Shows(t, "welcome")
  <2>1. "welcome" \in Phases \ {"test", "left"}
    BY DEF Phases
  <2>2. ~ Has(t, {"load"}) /\ ~ Has(t, {"submit"})
    BY <1>3 DEF Has
  <2> QED
    BY <1>1, <1>2, <1>3, <1>4, <2>1, <2>2, ShowsStep
<1>5. CASE tab' = [tab EXCEPT ![t].busy = FALSE]
  <2>1. ~ tab[t].ready
    BY <1>1, <1>2 DEF TabInv, CallsFit
  <2>2. sure' \in [Tabs -> SUBSET QuestionIds]
    BY <1>1, <1>2 DEF TypeOK
  <2> QED
    BY <1>1, <1>2, <1>5, <2>1, <2>2, ReleaseStep
<1> QED
  BY <1>4, <1>5 DEF ProfileSaved

LEMMA BegunStep ==
  ASSUME RunnerInv, NEW t \in Tabs, Begun(t)
  PROVE  RunnerInv'
<1>1. /\ TypeOK /\ TabInv(t) /\ calls[t] # <<>> /\ calls[t][1].op = "begin"
  BY AnsweredFront DEF Begun
<1>2. /\ tab[t].phase = "instructions"
      /\ UNCHANGED <<attempt, late, stored, profile, published, revoked, faults, sure>>
  BY DEF Begun, server, admin
<1>3. ~ Has(t, {"load", "save", "submit", "status"}) /\ tab[t].phase \in Early
  BY <1>1, <1>2 DEF TabInv, CallsFit, Early
<1>4. CASE Mounts(t)
  BY <1>1, <1>2, <1>3, <1>4, MountsStep
<1>5. CASE Shows(t, "result") /\ Receive(t)
  <2>1. "result" \in Phases \ {"test", "left"} /\ "result" \notin Early
    BY DEF Phases, Early
  <2>2. ~ Has(t, {"load"}) /\ ~ Has(t, {"submit"})
    BY <1>3 DEF Has
  <2> QED
    BY <1>1, <1>2, <1>5, <2>1, <2>2, ShowsStep
<1>6. CASE tab' = [tab EXCEPT ![t].busy = FALSE] /\ Receive(t)
  <2>1. ~ tab[t].ready
    BY <1>1, <1>2 DEF TabInv, CallsFit
  <2>2. sure' \in [Tabs -> SUBSET QuestionIds]
    BY <1>1, <1>2 DEF TypeOK
  <2> QED
    BY <1>1, <1>2, <1>6, <2>1, <2>2, ReleaseStep
<1> QED
  BY <1>4, <1>5, <1>6 DEF Begun

(* handleAlreadyFinalized, with nothing or the asking for the result.      *)
LEMMA Recovering ==
  ASSUME TypeOK, NEW t \in Tabs, NEW page \in Tab, Recover(t, page)
  PROVE  \E next \in SUBSET {"status"} :
           /\ Onward(t, next)
           /\ tab' \in [Tabs -> Tab] /\ \A u \in Tabs : u # t => tab'[u] = tab[u]
           /\ tab'[t].phase = page.phase /\ (tab'[t].ready <=> page.ready)
           /\ (tab'[t].busy <=> page.busy) /\ tab'[t].shown = page.shown
<1>1. CASE tab' = [tab EXCEPT ![t] = page] /\ Receive(t)
  <2>1. Onward(t, {}) /\ {} \in SUBSET {"status"}
    BY <1>1 DEF Onward
  <2>2. /\ tab' \in [Tabs -> Tab] /\ \A u \in Tabs : u # t => tab'[u] = tab[u]
        /\ tab'[t] = page
    BY <1>1 DEF TypeOK
  <2> QED
    BY <2>1, <2>2
<1>2. CASE /\ tab' = [tab EXCEPT ![t] = [page EXCEPT !.recovering = TRUE]]
           /\ ReceiveThen(t, "status")
  <2>1. Onward(t, {"status"}) /\ {"status"} \in SUBSET {"status"}
    BY <1>2 DEF Onward
  <2>2. /\ tab' \in [Tabs -> Tab] /\ \A u \in Tabs : u # t => tab'[u] = tab[u]
        /\ tab'[t].phase = page.phase /\ (tab'[t].ready <=> page.ready)
        /\ (tab'[t].busy <=> page.busy) /\ tab'[t].shown = page.shown
    BY <1>2 DEF TypeOK, Tab
  <2> QED
    BY <2>1, <2>2
<1> QED
  BY <1>1, <1>2 DEF Recover

LEMMA LoadedStep ==
  ASSUME RunnerInv, NEW t \in Tabs, Loaded(t)
  PROVE  RunnerInv'
<1> DEFINE c == calls[t][1]
<1>1. /\ TypeOK /\ TabInv(t) /\ calls[t] # <<>> /\ Head(calls[t]) = c /\ c \in Call
      /\ c.op = "load" /\ c.stage = "answered" /\ IsTrue(c)
      /\ Len(calls[t]) \in Nat /\ Len(calls[t]) >= 1
      /\ Has(t, {"load"}) /\ tab[t] \in Tab
  BY AnsweredFront DEF Loaded, TypeOK
<1>2. /\ tab[t].phase # "left"
      /\ UNCHANGED <<attempt, late, stored, profile, published, revoked, faults, sure>>
  BY DEF Loaded, server, admin
<1>3. /\ tab[t].phase = "test" /\ ~ tab[t].ready /\ ~ Has(t, {"save", "submit"})
      /\ ~ Has(t, {"status"})
      /\ \A i \in 1 .. Len(calls[t]) : calls[t][i].op = "load" => i = Len(calls[t])
  BY <1>1, <1>2 DEF TabInv, CallsFit
<1>4. Len(calls[t]) = 1
  <2>1. 1 \in 1 .. Len(calls[t]) /\ calls[t][1].op = "load"
    BY <1>1
  <2> HIDE DEF c
  <2> QED
    BY <1>3, <2>1
<1>5. /\ sure' \in [Tabs -> SUBSET QuestionIds] /\ faults' \in faults .. MaxFaults
      /\ \A u \in Tabs : sure'[u] = sure[u]
  BY <1>1, <1>2, RunnerAssumption DEF TypeOK
<1>6. CASE c.reply = "OK"
  <2>1. /\ tab' = [tab EXCEPT ![t].ready = TRUE, ![t].shown = c.answers] /\ Receive(t)
    BY <1>1, <1>3, <1>6 DEF Loaded
  <2>2. /\ tab' \in [Tabs -> Tab] /\ \A u \in Tabs : u # t => tab'[u] = tab[u]
        /\ tab'[t].phase = "test" /\ tab'[t].shown = c.answers
    BY <1>1, <1>3, <2>1 DEF TypeOK, Tab, Call
  <2>3. /\ calls' \in [Tabs -> Seq(Call)] /\ \A u \in Tabs : u # t => calls'[u] = calls[u]
        /\ Len(calls'[t]) = 0
    <3>1. TypeOK /\ calls[t] # <<>> /\ Receive(t)
      BY <1>1, <2>1
    <3>2. /\ calls' \in [Tabs -> Seq(Call)] /\ Len(calls'[t]) = Len(calls[t]) - 1
          /\ \A u \in Tabs : u # t => calls'[u] = calls[u]
      BY <3>1, Taken
    <3> QED
      BY <1>4, <3>2
  <2>4. \A ops : ~ Has(t, ops)'
    BY <2>3 DEF Has
  <2>5. calls'[t] = <<>>
    BY <2>3
  <2>6. \A q \in sure[t] : c.answers[q] = stored[q]
    BY <1>1, <1>6 DEF TabInv, LoadedIsStored, HasAnswer, At
  <2>7. \A stage : ~ At(t, stage)'
    BY <2>5 DEF At
  <2>8. TabInv(t)'
    <3>1. Waits(t)' /\ AnswerIsTrue(t)' /\ StatusHasReason(t)'
      BY <2>3, <2>4, <2>7 DEF Waits, AnswerIsTrue, StatusHasReason
    <3>2. CallsFit(t)' /\ OverIsOver(t)' /\ SubmitIsLast(t)' /\ LoadedIsStored(t)'
      BY <2>2, <2>4, <2>7 DEF CallsFit, OverIsOver, SubmitIsLast, LoadedIsStored,
                              HasAnswer, Early
    <3>3. ShownIsComing(t)'
      BY <1>2, <2>2, <2>3, <2>6 DEF ShownIsComing
    <3>4. ClosedIsForgotten(t)'
      BY <1>1, <1>2 DEF TabInv, ClosedIsForgotten
    <3> QED
      BY <3>1, <3>2, <3>3, <3>4 DEF TabInv
  <2> QED
    BY <1>2, <1>5, <2>2, <2>3, <2>8, OwnStep
<1>7. CASE c.reply # "OK"
  <2>1. Recover(t, tab[t])
    BY <1>1, <1>3, <1>7 DEF Loaded
  <2>2. PICK next \in SUBSET {"status"} :
           /\ Onward(t, next)
           /\ tab' \in [Tabs -> Tab] /\ \A u \in Tabs : u # t => tab'[u] = tab[u]
           /\ tab'[t].phase = tab[t].phase /\ (tab'[t].ready <=> tab[t].ready)
           /\ (tab'[t].busy <=> tab[t].busy) /\ tab'[t].shown = tab[t].shown
    BY <1>1, <2>1, Recovering
  <2>3. attempt = "CLOSED" \/ (Trouble /\ ~ tab[t].ready)
    BY <1>1, <1>3, <1>7 DEF IsTrue, Trouble, AlreadyClosed
  <2>4. \A q : ~ SaveOf(c, q)
    BY <1>1 DEF SaveOf
  <2>5. tab[t].phase \notin Early
    BY <1>3 DEF Early
  <2> QED
    BY <1>1, <1>2, <1>3, <1>4, <1>5, <2>2, <2>3, <2>4, <2>5, StaysStep
<1> QED
  BY <1>6, <1>7

LEMMA SavedStep ==
  ASSUME RunnerInv, NEW t \in Tabs, Saved(t)
  PROVE  RunnerInv'
<1> DEFINE c == calls[t][1]
           reverted == IF tab[t].phase = "test"
                       THEN [tab[t] EXCEPT !.shown[c.question] = c.previous]
                       ELSE tab[t]
<1>1. /\ TypeOK /\ TabInv(t) /\ calls[t] # <<>> /\ Head(calls[t]) = c /\ c \in Call
      /\ c.op = "save" /\ c.stage = "answered" /\ IsTrue(c)
      /\ Len(calls[t]) \in Nat /\ Len(calls[t]) >= 1
      /\ Has(t, {"save"}) /\ Has(t, {"save", "submit"})
      /\ Has(t, {"load", "save", "submit", "status"}) /\ tab[t] \in Tab
  BY AnsweredFront DEF Saved, TypeOK
<1>2. /\ tab[t].phase # "left"
      /\ UNCHANGED <<attempt, late, stored, profile, published, revoked, faults>>
  BY DEF Saved, server, admin
<1>3. tab[t].phase \notin Early /\ ~ Has(t, {"load"})
  BY <1>1, <1>2 DEF TabInv, CallsFit
<1>4. faults' \in faults .. MaxFaults /\ sure[t] \subseteq QuestionIds
  BY <1>1, <1>2, RunnerAssumption DEF TypeOK
<1>5. CASE c.reply = "OK"
  <2>1. UNCHANGED <<tab, sure>> /\ Receive(t)
    BY <1>1, <1>5 DEF Saved
  <2>2. Onward(t, {}) /\ {} \in SUBSET {"status"}
    BY <2>1 DEF Onward
  <2>3. \A q \in sure'[t] : ~ SaveOf(c, q)
    <3>1. c.question = NONE
      BY <1>1, <1>5 DEF IsTrue
    <3> QED
      BY <1>4, <2>1, <3>1, RunnerAssumption DEF SaveOf
  <2>4. tab' \in [Tabs -> Tab] /\ sure' \in [Tabs -> SUBSET QuestionIds]
    BY <1>1, <2>1 DEF TypeOK
  <2> QED
    BY <1>1, <1>2, <1>4, <2>1, <2>2, <2>3, <2>4, StaysStep
<1>6. CASE c.reply # "OK"
  <2>1. sure' = [sure EXCEPT ![t] = @ \ {c.question}]
    BY <1>1, <1>6 DEF Saved
  <2>2. /\ sure' \in [Tabs -> SUBSET QuestionIds] /\ sure'[t] = sure[t] \ {c.question}
        /\ \A u \in Tabs : u # t => sure'[u] = sure[u]
    BY <1>1, <2>1 DEF TypeOK
  <2>3. /\ reverted \in Tab /\ reverted.phase = tab[t].phase
        /\ (reverted.ready <=> tab[t].ready) /\ (reverted.busy <=> tab[t].busy)
        /\ \A q \in QuestionIds : q # c.question => reverted.shown[q] = tab[t].shown[q]
    BY <1>1 DEF Tab, Call, Answers
  <2>4. \A q \in sure'[t] : reverted.shown[q] = tab[t].shown[q] /\ ~ SaveOf(c, q)
    <3> HIDE DEF c, reverted
    <3> QED
      BY <1>4, <2>2, <2>3 DEF SaveOf
  <2>5. CASE c.reply \in {"ATTEMPT_EXPIRED", "INVALID_ATTEMPT_STATE"}
    <3>1. Recover(t, reverted)
      BY <1>1, <1>6, <2>5 DEF Saved
    <3> HIDE DEF reverted
    <3>2. PICK next \in SUBSET {"status"} :
             /\ Onward(t, next)
             /\ tab' \in [Tabs -> Tab] /\ \A u \in Tabs : u # t => tab'[u] = tab[u]
             /\ tab'[t].phase = reverted.phase /\ (tab'[t].ready <=> reverted.ready)
             /\ (tab'[t].busy <=> reverted.busy) /\ tab'[t].shown = reverted.shown
      BY <1>1, <2>3, <3>1, Recovering
    <3>3. attempt = "CLOSED"
      BY <1>1, <2>5 DEF IsTrue, AlreadyClosed
    <3>4. \A i \in 2 .. Len(calls[t]) : calls[t][i].op # "load"
      BY <1>1, <1>3 DEF Has
    <3>5. \A q \in sure'[t] : tab'[t].shown[q] = tab[t].shown[q] /\ ~ SaveOf(c, q)
      BY <2>4, <3>2
    <3>6. /\ tab'[t].phase = tab[t].phase /\ (tab'[t].ready <=> tab[t].ready)
          /\ (tab'[t].busy <=> tab[t].busy)
      BY <2>3, <3>2
    <3> QED
      BY <1>1, <1>2, <1>3, <1>4, <2>2, <3>2, <3>3, <3>4, <3>5, <3>6, StaysStep
  <2>6. CASE c.reply \notin {"ATTEMPT_EXPIRED", "INVALID_ATTEMPT_STATE"}
    <3>1. tab' = [tab EXCEPT ![t] = reverted] /\ Receive(t)
      BY <1>1, <1>6, <2>6 DEF Saved
    <3> HIDE DEF reverted
    <3>2. Onward(t, {}) /\ {} \in SUBSET {"status"}
      BY <3>1 DEF Onward
    <3>3. /\ tab' \in [Tabs -> Tab] /\ \A u \in Tabs : u # t => tab'[u] = tab[u]
          /\ tab'[t] = reverted
      BY <1>1, <2>3, <3>1 DEF TypeOK
    <3>4. \A q \in sure'[t] : tab'[t].shown[q] = tab[t].shown[q] /\ ~ SaveOf(c, q)
      BY <2>4, <3>3
    <3>5. /\ tab'[t].phase = tab[t].phase /\ (tab'[t].ready <=> tab[t].ready)
          /\ (tab'[t].busy <=> tab[t].busy)
      BY <2>3, <3>3
    <3> QED
      BY <1>1, <1>2, <1>4, <2>2, <3>2, <3>3, <3>4, <3>5, StaysStep
  <2> QED
    BY <2>5, <2>6
<1> QED
  BY <1>5, <1>6

LEMMA SubmittedStep ==
  ASSUME RunnerInv, NEW t \in Tabs, Submitted(t)
  PROVE  RunnerInv'
<1> DEFINE c == calls[t][1]
<1>1. /\ TypeOK /\ TabInv(t) /\ calls[t] # <<>> /\ Head(calls[t]) = c /\ c \in Call
      /\ c.op = "submit" /\ c.stage = "answered" /\ IsTrue(c)
      /\ Len(calls[t]) \in Nat /\ Len(calls[t]) >= 1
      /\ Has(t, {"submit"}) /\ Has(t, {"save", "submit"})
      /\ Has(t, {"load", "save", "submit", "status"}) /\ tab[t] \in Tab
  BY AnsweredFront DEF Submitted, TypeOK
<1>2. /\ tab[t].phase # "left"
      /\ UNCHANGED <<attempt, late, stored, profile, published, revoked, faults>>
  BY DEF Submitted, server, admin
<1>3. tab[t].phase \notin Early /\ ~ Has(t, {"load"})
  BY <1>1, <1>2 DEF TabInv, CallsFit
<1>4. faults' \in faults .. MaxFaults
  BY <1>1, <1>2, RunnerAssumption DEF TypeOK
<1>5. c.reply # "SERVER_ERROR" => UNCHANGED sure
  BY <1>1 DEF Submitted
<1>6. \A q : ~ SaveOf(c, q)
  BY <1>1 DEF SaveOf
<1>7. {"result", "error"} \subseteq Phases \ {"test", "left"}
      /\ {"result", "error"} \cap Early = {}
  BY DEF Phases, Early
<1>8. CASE c.reply = "OK"
  <2>1. Shows(t, "result") /\ Receive(t) /\ UNCHANGED sure
    BY <1>1, <1>5, <1>8 DEF Submitted
  <2>2. attempt = "CLOSED"
    BY <1>1, <1>8 DEF IsTrue
  <2> QED
    BY <1>1, <1>2, <1>3, <1>7, <2>1, <2>2, ShowsStep
<1>9. CASE c.reply = "INVITATION_REVOKED"
  <2>1. Shows(t, "error") /\ Receive(t) /\ UNCHANGED sure
    BY <1>1, <1>5, <1>9 DEF Submitted
  <2>2. revoked
    BY <1>1, <1>9 DEF IsTrue
  <2> QED
    BY <1>1, <1>2, <1>3, <1>7, <2>1, <2>2, ShowsStep
<1>10. CASE c.reply \in {"DUPLICATE_SUBMISSION", "INVITATION_USED"}
  <2>1. Recover(t, tab[t]) /\ UNCHANGED sure
    BY <1>1, <1>5, <1>10 DEF Submitted
  <2>2. PICK next \in SUBSET {"status"} :
           /\ Onward(t, next)
           /\ tab' \in [Tabs -> Tab] /\ \A u \in Tabs : u # t => tab'[u] = tab[u]
           /\ tab'[t].phase = tab[t].phase /\ (tab'[t].ready <=> tab[t].ready)
           /\ (tab'[t].busy <=> tab[t].busy) /\ tab'[t].shown = tab[t].shown
    BY <1>1, <2>1, Recovering
  <2>3. attempt = "CLOSED"
    BY <1>1, <1>10 DEF IsTrue, AlreadyClosed
  <2>4. \A i \in 2 .. Len(calls[t]) : calls[t][i].op # "load"
    BY <1>1, <1>3 DEF Has
  <2>5. sure' \in [Tabs -> SUBSET QuestionIds]
    BY <1>1, <2>1 DEF TypeOK
  <2> QED
    BY <1>1, <1>2, <1>3, <1>4, <1>6, <2>1, <2>2, <2>3, <2>4, <2>5, StaysStep
<1>11. CASE c.reply = "SERVER_ERROR"
  <2>1. /\ tab' = [tab EXCEPT ![t].busy = FALSE] /\ Receive(t)
        /\ sure' = IF Resubmitting(t) THEN [sure EXCEPT ![t] = {}] ELSE sure
    BY <1>1, <1>11 DEF Submitted
  <2>2. /\ sure' \in [Tabs -> SUBSET QuestionIds] /\ sure'[t] \subseteq sure[t]
        /\ \A u \in Tabs : u # t => sure'[u] = sure[u]
        /\ Resubmitting(t) => sure'[t] = {}
    BY <1>1, <2>1 DEF TypeOK
  <2>3. ~ Resubmitting(t) => \A i \in 2 .. Len(calls[t]) : calls[t][i].op # "submit"
    BY DEF Resubmitting
  <2> QED
    BY <1>1, <1>2, <2>1, <2>2, <2>3, ReleaseStep
<1> QED
  BY <1>1, <1>8, <1>9, <1>10, <1>11 DEF IsTrue

LEMMA RecoveredStep ==
  ASSUME RunnerInv, NEW t \in Tabs, Recovered(t)
  PROVE  RunnerInv'
<1>1. /\ TypeOK /\ TabInv(t) /\ calls[t] # <<>> /\ Has(t, {"status"})
      /\ Has(t, {"load", "save", "submit", "status"}) /\ tab[t] \in Tab
  BY AnsweredFront DEF Recovered, TypeOK
<1>2. /\ tab[t].phase # "left" /\ Receive(t)
      /\ UNCHANGED <<attempt, late, stored, profile, published, revoked, faults, sure>>
  BY DEF Recovered, server, admin
<1>3. tab[t].phase \notin Early /\ ~ Has(t, {"load"})
  BY <1>1, <1>2 DEF TabInv, CallsFit
<1>4. PICK phase \in {"result", "error"} : Shows(t, phase)
  BY DEF Recovered
<1>5. phase \in Phases \ {"test", "left"} /\ phase \notin Early
  BY DEF Phases, Early
<1>6. ASSUME Has(t, {"submit"}) PROVE attempt = "CLOSED" \/ revoked
  <2>1. Has(t, {"save", "submit"})
    BY <1>6 DEF Has
  <2>2. CASE tab[t].phase = "test"
    BY <1>1, <2>1, <2>2 DEF TabInv, CallsFit, StatusHasReason
  <2>3. CASE tab[t].phase # "test"
    <3>1. tab[t].phase \in {"result", "error"}
      BY <1>1, <1>2, <1>3, <2>3 DEF Tab, Phases, Early
    <3> QED
      BY <1>1, <1>6, <3>1 DEF TabInv, OverIsOver
  <2> QED
    BY <2>2, <2>3
<1> QED
  BY <1>1, <1>2, <1>3, <1>4, <1>5, <1>6, ShowsStep

LEMMA IgnoredStep ==
  ASSUME RunnerInv, NEW t \in Tabs, Ignored(t)
  PROVE  RunnerInv'
<1>1. TypeOK /\ TabInv(t) /\ calls[t] # <<>> /\ tab[t].phase = "left"
  BY DEF RunnerInv, Ignored, At
<1>2. /\ Receive(t)
      /\ UNCHANGED <<attempt, late, stored, profile, published, revoked, faults, sure, tab>>
  BY DEF Ignored, server, admin
<1>3. ~ tab[t].ready
  BY <1>1 DEF TabInv, CallsFit
<1>4. Onward(t, {}) /\ {} \in SUBSET {"status"}
  BY <1>2 DEF Onward
<1>5. /\ sure' \in [Tabs -> SUBSET QuestionIds] /\ tab' \in [Tabs -> Tab]
      /\ faults' \in faults .. MaxFaults
  BY <1>1, <1>2, RunnerAssumption DEF TypeOK
<1> QED
  BY <1>1, <1>2, <1>3, <1>4, <1>5, StaysStep

LEMMA LoseCallStep ==
  ASSUME RunnerInv, NEW t \in Tabs, LoseCall(t)
  PROVE  RunnerInv'
<1> DEFINE c == calls[t][1]
<1>1. TypeOK /\ TabInv(t) /\ calls[t] # <<>>
  BY DEF RunnerInv, LoseCall, At
<1>2. Head(calls[t]) = c
  BY <1>1, FrontOfQueue
<1>3. /\ Receive(t) /\ sure' = [sure EXCEPT ![t] = @ \ {c.question}]
      /\ faults < MaxFaults /\ faults' = faults + 1
      /\ UNCHANGED <<attempt, late, stored, profile, published, revoked, tab>>
  BY <1>2 DEF LoseCall, server, admin
<1>4. Onward(t, {}) /\ {} \in SUBSET {"status"}
  BY <1>3 DEF Onward
<1>5. /\ sure' \in [Tabs -> SUBSET QuestionIds] /\ tab' \in [Tabs -> Tab]
      /\ faults' \in faults .. MaxFaults /\ sure'[t] = sure[t] \ {c.question}
      /\ \A u \in Tabs : u # t => sure'[u] = sure[u]
  BY <1>1, <1>3, RunnerAssumption DEF TypeOK
<1>6. \A q \in sure'[t] : ~ SaveOf(c, q)
  BY <1>5 DEF SaveOf
<1> QED
  BY <1>1, <1>3, <1>4, <1>5, <1>6, StaysStep

-----------------------------------------------------------------------------
(* The student asks for something.                                         *)
LEMMA AskStep ==
  ASSUME RunnerInv, NEW t \in Tabs, NEW c \in Call, Ask(t, c), c.stage = "queued",
         UNCHANGED <<attempt, late, stored, profile, published, revoked, faults, sure>>,
         tab' \in [Tabs -> Tab], \A u \in Tabs : u # t => tab'[u] = tab[u],
         tab'[t].ready <=> tab[t].ready,
         \/ tab'[t].phase = tab[t].phase
         \/ tab[t].phase \in Early /\ tab'[t].phase \in Early,
         \/ c.op \in {"page", "profile", "begin"} /\ tab[t].phase \in Early
         \/ c.op \in {"save", "submit"} /\ tab[t].phase = "test" /\ tab[t].ready,
         tab[t].ready /\ tab[t].busy => tab'[t].busy,
         c.op = "submit" => tab'[t].busy,
         c.op = "save" => ~ tab[t].busy,
         \A q \in QuestionIds :
            \/ c.op = "save" /\ c.question = q /\ c.option = tab'[t].shown[q]
            \/ ~ SaveOf(c, q) /\ tab'[t].shown[q] = tab[t].shown[q]
  PROVE  RunnerInv'
<1>1. TypeOK /\ TabInv(t) /\ sure[t] \subseteq QuestionIds
  BY DEF RunnerInv, TypeOK
<1>2. /\ calls' \in [Tabs -> Seq(Call)]
      /\ Len(calls[t]) \in Nat /\ Len(calls'[t]) = Len(calls[t]) + 1
      /\ calls'[t] # <<>> /\ Head(calls'[t]) = calls'[t][1]
      /\ calls'[t][Len(calls[t]) + 1] = c
      /\ \A i \in 1 .. Len(calls[t]) : calls'[t][i] = calls[t][i]
      /\ \A u \in Tabs : u # t => calls'[u] = calls[u]
  BY <1>1, Asked
<1>3. \A i \in 1 .. Len(calls'[t]) :
         \/ i \in 1 .. Len(calls[t]) /\ calls'[t][i] = calls[t][i]
         \/ i = Len(calls'[t]) /\ calls'[t][i] = c
  BY <1>2
<1>4. \A ops : Has(t, ops)' <=> Has(t, ops) \/ c.op \in ops
  <2> SUFFICES ASSUME NEW ops PROVE Has(t, ops)' <=> Has(t, ops) \/ c.op \in ops
    OBVIOUS
  <2>1. ASSUME Has(t, ops)' PROVE Has(t, ops) \/ c.op \in ops
    BY <1>3, <2>1 DEF Has
  <2>2. ASSUME Has(t, ops) PROVE Has(t, ops)'
    <3>1. PICK i \in 1 .. Len(calls[t]) : calls[t][i].op \in ops
      BY <2>2 DEF Has
    <3>2. i \in 1 .. Len(calls'[t]) /\ calls'[t][i] = calls[t][i]
      BY <1>2
    <3> QED
      BY <3>1, <3>2 DEF Has
  <2>3. ASSUME c.op \in ops PROVE Has(t, ops)'
    <3>1. Len(calls[t]) + 1 \in 1 .. Len(calls'[t])
      BY <1>2
    <3> QED
      BY <1>2, <2>3, <3>1 DEF Has
  <2> QED
    BY <2>1, <2>2, <2>3
<1>5. Len(calls[t]) >= 1 => /\ calls[t] # <<>> /\ Head(calls[t]) = calls[t][1]
                            /\ calls'[t][1] = calls[t][1]
  <2>1. calls[t] \in Seq(Call)
    BY <1>1 DEF TypeOK
  <2> QED
    BY <1>2, <2>1
<1>6. Len(calls[t]) = 0 => calls'[t][1] = c
  BY <1>2
<1>7. \A stage : At(t, stage)' => At(t, stage) \/ stage = "queued"
  BY <1>2, <1>5, <1>6 DEF At
<1>8. Waits(t)'
  BY <1>1, <1>3, <1>2 DEF TabInv, Waits
<1>9. AnswerIsTrue(t)' /\ LoadedIsStored(t)'
  <2>1. CASE Len(calls[t]) = 0
    <3>1. \A stage : At(t, stage)' => stage = "queued"
      BY <1>2, <1>6, <2>1 DEF At
    <3> QED
      BY <3>1 DEF AnswerIsTrue, LoadedIsStored, HasAnswer
  <2>2. CASE Len(calls[t]) # 0
    <3>1. \A stage : At(t, stage)' <=> At(t, stage)
      BY <1>2, <1>5, <2>2 DEF At
    <3>2. AnswerIsTrue(t)'
      <4>1. At(t, "answered")' => IsTrue(calls[t][1])
        BY <1>1, <3>1 DEF TabInv, AnswerIsTrue
      <4>2. calls'[t][1] = calls[t][1]
        BY <1>2, <1>5, <2>2
      <4>3. IsTrue(calls[t][1]) => IsTrue(calls[t][1])'
        BY <4>2 DEF IsTrue
      <4> QED
        BY <4>1, <4>3 DEF AnswerIsTrue
    <3>3. LoadedIsStored(t)'
      BY <1>1, <1>2, <1>5, <2>2, <3>1 DEF TabInv, LoadedIsStored, HasAnswer
    <3> QED
      BY <3>2, <3>3
  <2> QED
    BY <2>1, <2>2
<1>10. StatusHasReason(t)'
  <2>1. Has(t, {"status"})' => Has(t, {"status"})
    BY <1>4
  <2>2. \A i \in 1 .. Len(calls'[t]) : calls'[t][i].op = "status" => Comes(calls[t][i])'
    BY <1>1, <1>3 DEF TabInv, StatusHasReason, Comes, Trouble
  <2> QED
    BY <1>1, <2>1, <2>2 DEF TabInv, StatusHasReason, Trouble
<1>11. ~ Has(t, {"load"})
  <2>1. tab[t].phase \in Early => ~ Has(t, {"load", "save", "submit", "status"})
    BY <1>1 DEF TabInv, CallsFit
  <2>2. tab[t].phase \in Early => ~ Has(t, {"load"})
    BY <2>1 DEF Has
  <2> QED
    BY <1>1, <2>2 DEF TabInv, CallsFit
<1>12. CallsFit(t)'
  <2>1. "test" \notin Early
    BY DEF Early
  <2>2. ~ Has(t, {"load"})'
    BY <1>4, <1>11
  <2>3. tab'[t].phase \in Early => ~ Has(t, {"load", "save", "submit", "status"})'
    BY <1>1, <1>4, <2>1 DEF TabInv, CallsFit
  <2>4. tab'[t].ready => tab'[t].phase = "test"
    BY <1>1, <2>1 DEF TabInv, CallsFit
  <2>5. tab'[t].phase = "test" /\ ~ tab'[t].ready => ~ Has(t, {"save", "submit"})'
    BY <1>1, <1>4, <2>1 DEF TabInv, CallsFit
  <2> QED
    BY <2>2, <2>3, <2>4, <2>5 DEF CallsFit
<1>13. OverIsOver(t)' /\ ClosedIsForgotten(t)'
  BY <1>1 DEF TabInv, OverIsOver, ClosedIsForgotten, Early
<1>14. ASSUME tab'[t].ready, NEW q \in sure'[t]
       PROVE  \/ /\ \A i \in 1 .. Len(calls'[t]) : ~ SaveOf(calls'[t][i], q)
                 /\ stored'[q] = tab'[t].shown[q]
              \/ \E i \in 1 .. Len(calls'[t]) :
                    /\ LastSaveOf(t, q, i)'
                    /\ \/ calls'[t][i].stage = "answered"
                       \/ calls'[t][i].option = tab'[t].shown[q]
  <2>1. q \in sure[t] /\ q \in QuestionIds /\ tab[t].ready
    BY <1>1, <1>14
  <2>2. CASE c.op = "save" /\ c.question = q /\ c.option = tab'[t].shown[q]
    <3>1. PICK i \in 1 .. Len(calls'[t]) : calls'[t][i] = c /\ i = Len(calls'[t])
      BY <1>2
    <3>2. LastSaveOf(t, q, i)'
      BY <1>2, <2>2, <3>1 DEF LastSaveOf, SaveOf
    <3> QED
      BY <2>2, <3>1, <3>2
  <2>3. CASE ~ SaveOf(c, q) /\ tab'[t].shown[q] = tab[t].shown[q]
    <3>1. CASE /\ \A i \in 1 .. Len(calls[t]) : ~ SaveOf(calls[t][i], q)
               /\ stored[q] = tab[t].shown[q]
      BY <1>3, <2>3, <3>1
    <3>2. ASSUME NEW i \in 1 .. Len(calls[t]), LastSaveOf(t, q, i),
                 calls[t][i].stage = "answered" \/ calls[t][i].option = tab[t].shown[q]
          PROVE  \E j \in 1 .. Len(calls'[t]) :
                    /\ LastSaveOf(t, q, j)'
                    /\ \/ calls'[t][j].stage = "answered"
                       \/ calls'[t][j].option = tab'[t].shown[q]
      <4>1. i \in 1 .. Len(calls'[t]) /\ calls'[t][i] = calls[t][i]
        BY <1>2
      <4>2. \A j \in 1 .. Len(calls'[t]) : j > i => ~ SaveOf(calls'[t][j], q)
        BY <1>3, <2>3, <3>2 DEF LastSaveOf
      <4>3. LastSaveOf(t, q, i)'
        BY <3>2, <4>1, <4>2 DEF LastSaveOf
      <4> QED
        BY <2>3, <3>2, <4>1, <4>3
    <3> QED
      BY <1>1, <2>1, <3>1, <3>2 DEF TabInv, ShownIsComing
  <2> QED
    BY <2>1, <2>2, <2>3
<1>15. ShownIsComing(t)'
  BY <1>14 DEF ShownIsComing
<1>16. SubmitIsLast(t)'
  <2> SUFFICES ASSUME tab'[t].ready, sure'[t] # {}, Has(t, {"submit"})'
               PROVE  /\ tab'[t].busy
                      /\ \A i, j \in 1 .. Len(calls'[t]) :
                           calls'[t][i].op = "submit" /\ i < j => calls'[t][j].op # "save"
    BY DEF SubmitIsLast
  <2>1. Has(t, {"submit"}) =>
          /\ tab[t].busy
          /\ \A i, j \in 1 .. Len(calls[t]) :
               calls[t][i].op = "submit" /\ i < j => calls[t][j].op # "save"
    BY <1>1 DEF TabInv, SubmitIsLast
  <2>2. tab'[t].busy
    BY <1>4, <2>1
  <2>3. ASSUME NEW i \in 1 .. Len(calls'[t]), NEW j \in 1 .. Len(calls'[t]),
               calls'[t][i].op = "submit", i < j, calls'[t][j].op = "save"
        PROVE  FALSE
    <3>1. i \in 1 .. Len(calls[t]) /\ calls[t][i].op = "submit"
      BY <1>2, <1>3, <2>3
    <3>2. Has(t, {"submit"})
      BY <3>1 DEF Has
    <3>3. j \in 1 .. Len(calls[t]) /\ calls[t][j].op = "save"
      BY <1>3, <2>1, <2>3, <3>2
    <3> QED
      BY <2>1, <2>3, <3>1, <3>2, <3>3
  <2> QED
    BY <2>2, <2>3
<1>17. TabInv(t)'
  BY <1>8, <1>9, <1>10, <1>12, <1>13, <1>15, <1>16 DEF TabInv
<1>18. sure' \in [Tabs -> SUBSET QuestionIds] /\ faults' \in faults .. MaxFaults
  BY <1>1, RunnerAssumption DEF TypeOK
<1> QED
  BY <1>1, <1>2, <1>17, <1>18, OwnStep

LEMMA OpenPageStep ==
  ASSUME RunnerInv, NEW t \in Tabs, OpenPage(t)
  PROVE  RunnerInv'
<1>1. TypeOK
  BY DEF RunnerInv
<1> DEFINE c == NewCall("page")
<1>2. c \in Call /\ c.stage = "queued" /\ c.op = "page"
  BY DEF NewCall, Call, Ops, Replies, NoAnswers, Answers
<1>3. /\ tab' \in [Tabs -> Tab] /\ \A u \in Tabs : u # t => tab'[u] = tab[u]
      /\ (tab'[t].ready <=> tab[t].ready) /\ (tab'[t].busy <=> tab[t].busy)
      /\ tab'[t].phase \in Early /\ tab[t].phase \in Early
      /\ tab'[t].shown = tab[t].shown
  BY <1>1 DEF OpenPage, TypeOK, Tab, Phases, Early
<1>4. /\ UNCHANGED <<attempt, late, stored, profile, published, revoked, faults, sure>>
      /\ Ask(t, c)
  BY DEF OpenPage, server, admin
<1>5. \A q : ~ SaveOf(c, q)
  BY <1>2 DEF SaveOf
<1> HIDE DEF c
<1> QED
  BY <1>2, <1>3, <1>4, <1>5, AskStep

LEMMA WizardStep ==
  ASSUME RunnerInv, NEW t \in Tabs, SubmitProfile(t) \/ Begin(t)
  PROVE  RunnerInv'
<1>1. TypeOK
  BY DEF RunnerInv
<1>2. PICK op \in {"profile", "begin"} : Ask(t, NewCall(op))
  BY DEF SubmitProfile, Begin
<1> DEFINE c == NewCall(op)
<1>3. c \in Call /\ c.stage = "queued" /\ c.op = op
  BY DEF NewCall, Call, Ops, Replies, NoAnswers, Answers
<1>4. tab' = [tab EXCEPT ![t].busy = TRUE] /\ tab[t].phase \in {"form", "instructions"}
  BY DEF SubmitProfile, Begin
<1>5. /\ tab' \in [Tabs -> Tab] /\ \A u \in Tabs : u # t => tab'[u] = tab[u]
      /\ (tab'[t].ready <=> tab[t].ready) /\ tab'[t].busy
      /\ tab'[t].phase = tab[t].phase /\ tab[t].phase \in Early
      /\ tab'[t].shown = tab[t].shown
  BY <1>1, <1>4 DEF TypeOK, Tab, Early
<1>6. UNCHANGED <<attempt, late, stored, profile, published, revoked, faults, sure>>
  BY DEF SubmitProfile, Begin, server, admin
<1>7. \A q : ~ SaveOf(c, q)
  BY <1>3 DEF SaveOf
<1>8. Ask(t, c)
  BY <1>2
<1> HIDE DEF c
<1> QED
  BY <1>3, <1>5, <1>6, <1>7, <1>8, AskStep

LEMMA SelectOptionStep ==
  ASSUME RunnerInv, NEW t \in Tabs, NEW q \in QuestionIds, NEW o \in OptionIds,
         SelectOption(t, q, o)
  PROVE  RunnerInv'
<1>1. TypeOK /\ tab[t] \in Tab /\ tab[t].shown[q] \in OptionIds \cup {NONE}
  BY DEF RunnerInv, TypeOK, Tab, Answers
<1>2. PICK c \in Call : /\ Ask(t, c) /\ c.stage = "queued" /\ c.op = "save"
                        /\ c.question = q /\ c.option = o
  <2> DEFINE d == SaveCall(q, o, tab[t].shown[q])
  <2>1. /\ d \in Call /\ d.stage = "queued" /\ d.op = "save"
        /\ d.question = q /\ d.option = o
    BY <1>1 DEF SaveCall, NewCall, Call, Ops, Replies, NoAnswers, Answers
  <2>2. Ask(t, d)
    BY DEF SelectOption
  <2> HIDE DEF d
  <2> QED
    BY <2>1, <2>2
<1>3. /\ tab' = [tab EXCEPT ![t].shown[q] = o] /\ ~ tab[t].busy
      /\ tab[t].phase = "test" /\ tab[t].ready
      /\ UNCHANGED <<attempt, late, stored, profile, published, revoked, faults, sure>>
  BY DEF SelectOption, server, admin
<1>4. /\ tab' \in [Tabs -> Tab] /\ \A u \in Tabs : u # t => tab'[u] = tab[u]
      /\ (tab'[t].ready <=> tab[t].ready) /\ tab'[t].phase = tab[t].phase
      /\ \A x \in QuestionIds : tab'[t].shown[x] = IF x = q THEN o ELSE tab[t].shown[x]
  BY <1>1, <1>3 DEF TypeOK, Tab, Answers
<1>5. \A x \in QuestionIds :
         \/ c.op = "save" /\ c.question = x /\ c.option = tab'[t].shown[x]
         \/ ~ SaveOf(c, x) /\ tab'[t].shown[x] = tab[t].shown[x]
  BY <1>2, <1>4 DEF SaveOf
<1> QED
  BY <1>2, <1>3, <1>4, <1>5, AskStep

LEMMA RunSubmitStep ==
  ASSUME RunnerInv, NEW t \in Tabs, ConfirmSubmit(t) \/ TimerExpires(t)
  PROVE  RunnerInv'
<1>1. TypeOK
  BY DEF RunnerInv
<1> DEFINE c == NewCall("submit")
<1>2. c \in Call /\ c.stage = "queued" /\ c.op = "submit"
  BY DEF NewCall, Call, Ops, Replies, NoAnswers, Answers
<1>3. /\ tab[t].phase = "test" /\ tab[t].ready /\ Ask(t, c)
      /\ UNCHANGED <<attempt, late, stored, profile, published, revoked, faults, sure>>
  BY DEF ConfirmSubmit, TimerExpires, RunSubmit, server, admin
<1>4. /\ tab' \in [Tabs -> Tab] /\ \A u \in Tabs : u # t => tab'[u] = tab[u]
      /\ (tab'[t].ready <=> tab[t].ready) /\ tab'[t].phase = tab[t].phase
      /\ tab'[t].busy /\ tab'[t].shown = tab[t].shown
  <2>1. CASE tab' = [tab EXCEPT ![t].busy = TRUE]
    BY <1>1, <2>1 DEF TypeOK, Tab
  <2>2. CASE tab' = [tab EXCEPT ![t].rung = TRUE, ![t].busy = TRUE]
    BY <1>1, <2>2 DEF TypeOK, Tab
  <2> QED
    BY <2>1, <2>2 DEF ConfirmSubmit, TimerExpires
<1>5. \A q : ~ SaveOf(c, q)
  BY <1>2 DEF SaveOf
<1> HIDE DEF c
<1> QED
  BY <1>2, <1>3, <1>4, <1>5, AskStep

LEMMA ContinueStep ==
  ASSUME RunnerInv, NEW t \in Tabs, Continue(t)
  PROVE  RunnerInv'
<1>1. TypeOK /\ TabInv(t)
  BY DEF RunnerInv
<1>2. /\ tab' \in [Tabs -> Tab] /\ \A u \in Tabs : u # t => tab'[u] = tab[u]
      /\ (tab'[t].ready <=> tab[t].ready)
      /\ tab'[t].phase = "instructions" /\ tab[t].phase = "welcome"
  BY <1>1 DEF Continue, TypeOK, Tab, Phases
<1>3. UNCHANGED <<attempt, late, stored, profile, published, revoked, faults, sure, calls>>
  BY DEF Continue, server, admin
<1>4. ~ tab[t].ready /\ ~ tab'[t].ready
  BY <1>1, <1>2 DEF TabInv, CallsFit
<1>5. Waits(t)' /\ AnswerIsTrue(t)' /\ LoadedIsStored(t)' /\ ClosedIsForgotten(t)'
  BY <1>1, <1>3 DEF TabInv, Waits, AnswerIsTrue, IsTrue, At, LoadedIsStored, HasAnswer,
                    ClosedIsForgotten
<1>6. StatusHasReason(t)'
  BY <1>1, <1>3, <1>4 DEF TabInv, StatusHasReason, Has, Comes, Trouble
<1>7. CallsFit(t)'
  <2>1. ~ Has(t, {"load", "save", "submit", "status"}) /\ ~ Has(t, {"load"})
    BY <1>1, <1>2 DEF TabInv, CallsFit, Early
  <2>2. ~ Has(t, {"load", "save", "submit", "status"})' /\ ~ Has(t, {"load"})'
    BY <1>3, <2>1 DEF Has
  <2> QED
    BY <1>2, <1>4, <2>2 DEF CallsFit
<1>8. OverIsOver(t)' /\ ShownIsComing(t)' /\ SubmitIsLast(t)'
  BY <1>2, <1>4 DEF OverIsOver, ShownIsComing, SubmitIsLast
<1>9. TabInv(t)'
  BY <1>5, <1>6, <1>7, <1>8 DEF TabInv
<1>10. /\ sure' \in [Tabs -> SUBSET QuestionIds] /\ faults' \in faults .. MaxFaults
       /\ calls' \in [Tabs -> Seq(Call)]
  BY <1>1, <1>3, RunnerAssumption DEF TypeOK
<1> QED
  BY <1>2, <1>3, <1>9, <1>10, OwnStep

LEMMA LeavePageStep ==
  ASSUME RunnerInv, NEW t \in Tabs, LeavePage(t)
  PROVE  RunnerInv'
<1>1. TypeOK /\ TabInv(t) /\ calls[t] \in Seq(Call) /\ Len(calls[t]) \in Nat
  BY DEF RunnerInv, TypeOK
<1>2. /\ tab' \in [Tabs -> Tab] /\ \A u \in Tabs : u # t => tab'[u] = tab[u]
      /\ ~ tab'[t].ready /\ tab'[t].phase = "left"
  BY <1>1 DEF LeavePage, TypeOK, Tab, Phases, Closed, NoAnswers, Answers
<1>3. /\ UNCHANGED <<attempt, late, stored, profile, published, revoked, faults>>
      /\ sure' \in [Tabs -> SUBSET QuestionIds] /\ sure'[t] = {}
      /\ \A u \in Tabs : u # t => sure'[u] = sure[u]
  BY <1>1 DEF LeavePage, server, admin, TypeOK
<1>4. PICK sent \in {0, 1} : sent <= Len(calls[t])
                             /\ calls' = [calls EXCEPT ![t] = SubSeq(@, 1, sent)]
  BY DEF LeavePage
<1>5. /\ SubSeq(calls[t], 1, sent) \in Seq(Call) /\ Len(SubSeq(calls[t], 1, sent)) = sent
      /\ \A i \in 1 .. sent : SubSeq(calls[t], 1, sent)[i] = calls[t][i]
  BY <1>1, <1>4
<1>6. /\ calls' \in [Tabs -> Seq(Call)] /\ \A u \in Tabs : u # t => calls'[u] = calls[u]
      /\ Len(calls'[t]) = sent /\ calls'[t] \in Seq(Call)
      /\ \A i \in 1 .. sent : calls'[t][i] = calls[t][i] /\ i \in 1 .. Len(calls[t])
  BY <1>1, <1>4, <1>5 DEF TypeOK
<1>7. ASSUME NEW stage, At(t, stage)' PROVE At(t, stage) /\ calls'[t][1] = calls[t][1]
  <2>1. sent = 1 /\ Head(calls'[t]) = calls'[t][1]
    BY <1>4, <1>6, <1>7 DEF At
  <2>2. calls'[t][1] = calls[t][1] /\ calls[t] # <<>> /\ Head(calls[t]) = calls[t][1]
    BY <1>1, <1>4, <1>6, <2>1
  <2> QED
    BY <1>7, <2>1, <2>2 DEF At
<1>8. AnswerIsTrue(t)'
  <2> SUFFICES ASSUME At(t, "answered")' PROVE IsTrue(calls[t][1])'
    BY DEF AnswerIsTrue
  <2>1. IsTrue(calls[t][1]) /\ calls'[t][1] = calls[t][1]
    BY <1>1, <1>7 DEF TabInv, AnswerIsTrue
  <2> QED
    BY <1>3, <2>1 DEF IsTrue
<1>9. Waits(t)'
  BY <1>4, <1>6 DEF Waits
<1>10. StatusHasReason(t)'
  BY <1>1, <1>2, <1>3, <1>6 DEF TabInv, StatusHasReason, Has, Comes, Trouble
<1>11. CallsFit(t)' /\ OverIsOver(t)'
  BY <1>2 DEF CallsFit, OverIsOver, Early
<1>12. ShownIsComing(t)' /\ LoadedIsStored(t)' /\ SubmitIsLast(t)' /\ ClosedIsForgotten(t)'
  BY <1>3, NothingSure
<1>13. TabInv(t)'
  BY <1>8, <1>9, <1>10, <1>11, <1>12 DEF TabInv
<1>14. faults' \in faults .. MaxFaults
  BY <1>1, <1>3, RunnerAssumption DEF TypeOK
<1> QED
  BY <1>2, <1>3, <1>6, <1>13, <1>14, OwnStep

-----------------------------------------------------------------------------
LEMMA RunnerStart == Init => RunnerInv
<1> SUFFICES ASSUME Init PROVE RunnerInv
  OBVIOUS
<1>1. Closed \in Tab /\ ~ Closed.ready /\ Closed.phase = "closed"
  BY DEF Closed, Tab, Phases, NoAnswers, Answers
<1>2. TypeOK
  <2>1. {late, profile, published, revoked} \subseteq BOOLEAN
    BY DEF Init
  <2>2. stored \in Answers /\ faults \in 0 .. MaxFaults
    BY RunnerAssumption DEF Init, NoAnswers, Answers
  <2>3. <<>> \in Seq(Call)
    OBVIOUS
  <2> QED
    BY <1>1, <2>1, <2>2, <2>3 DEF Init, TypeOK
<1>3. ASSUME NEW t \in Tabs PROVE TabInv(t)
  <2>1. calls[t] = <<>> /\ Len(calls[t]) = 0 /\ sure[t] = {} /\ attempt = "NONE"
        /\ ~ tab[t].ready /\ tab[t].phase = "closed"
    BY <1>1 DEF Init
  <2>2. /\ \A ops : ~ Has(t, ops)
        /\ \A stage : ~ At(t, stage)
    BY <2>1 DEF Has, At
  <2> QED
    BY <2>1, <2>2 DEF TabInv, Waits, AnswerIsTrue, StatusHasReason, CallsFit, OverIsOver,
                      ShownIsComing, LoadedIsStored, HasAnswer, SubmitIsLast,
                      ClosedIsForgotten
<1> QED
  BY <1>2, <1>3 DEF RunnerInv

(* Time, and an administrator.                                             *)
LEMMA WorldStep ==
  ASSUME RunnerInv, DeadlinePasses \/ RevokeLink \/ UNCHANGED vars
  PROVE  RunnerInv'
<1>1. TypeOK
  BY DEF RunnerInv
<1>2. /\ UNCHANGED <<attempt, stored, profile, published, tab, calls, sure, faults>>
      /\ revoked' = revoked \/ revoked' = TRUE
      /\ late' = late \/ late' = TRUE
  BY DEF DeadlinePasses, RevokeLink, vars, server, admin
<1>3. revoked => revoked'
  BY DEF DeadlinePasses, RevokeLink, vars, server, admin
<1>4. Ages
  BY <1>2, <1>3 DEF Ages
<1>5. TypeOK'
  <2>1. {late', profile', published', revoked'} \subseteq BOOLEAN
    BY <1>1, <1>2 DEF TypeOK
  <2> QED
    BY <1>1, <1>2, <2>1 DEF TypeOK
<1>6. ASSUME NEW u \in Tabs PROVE TabInv(u)'
  <2>1. TabInv(u)
    BY DEF RunnerInv
  <2>2. attempt' = "CLOSED" => sure'[u] = {}
    BY <1>2, <2>1 DEF TabInv, ClosedIsForgotten
  <2> QED
    BY <1>1, <1>2, <1>4, <2>1, <2>2, RestingTab
<1> QED
  BY <1>5, <1>6 DEF RunnerInv

-----------------------------------------------------------------------------
(* The invariant holds always.                                             *)

LEMMA ServerStep ==
  ASSUME RunnerInv, NEW t \in Tabs, Server(t)
  PROVE  RunnerInv'
BY ValidateStep, UpdateCandidateStep, NoAttemptYetStep, AttemptRunsStep, ReadQuestionsStep,
   StoreAnswerStep, GradeStep, CloseAttemptStep, AttemptIsClosedStep DEF Server

LEMMA PageStep ==
  ASSUME RunnerInv, NEW t \in Tabs, Page(t)
  PROVE  RunnerInv'
BY PageShownStep, ProfileSavedStep, BegunStep, LoadedStep, SavedStep, SubmittedStep,
   RecoveredStep, IgnoredStep DEF Page

LEMMA StudentStep ==
  ASSUME RunnerInv, NEW t \in Tabs, Student(t)
  PROVE  RunnerInv'
BY OpenPageStep, WizardStep, ContinueStep, SelectOptionStep, RunSubmitStep, LeavePageStep
   DEF Student

LEMMA RunnerStep == RunnerInv /\ [Next]_vars => RunnerInv'
<1> SUFFICES ASSUME RunnerInv, [Next]_vars PROVE RunnerInv'
  OBVIOUS
<1>1. ASSUME NEW t \in Tabs,
             Server(t) \/ Page(t) \/ Student(t) \/ TimerExpires(t) \/ FailCall(t) \/ LoseCall(t)
      PROVE  RunnerInv'
  BY <1>1, ServerStep, PageStep, StudentStep, RunSubmitStep, FailCallStep, LoseCallStep
<1>2. CASE DeadlinePasses \/ RevokeLink \/ UNCHANGED vars
  BY <1>2, WorldStep
<1> QED
  BY <1>1, <1>2 DEF Next

(* The calls of a tab, what it shows and what is stored stay consistent in *)
(* every reachable state, for any number of tabs, questions and options,   *)
(* and for queues and faults without a bound.                              *)
THEOREM RunnerInvariance == Spec => []RunnerInv
<1>1. Init => RunnerInv
  BY RunnerStart
<1>2. RunnerInv /\ [Next]_vars => RunnerInv'
  BY RunnerStep
<1> QED
  BY <1>1, <1>2, PTL DEF Spec

(* The variables of the page and of its calls keep their types.            *)
THEOREM RunnerTypes == Spec => []TypeOK
<1>1. RunnerInv => TypeOK
  BY DEF RunnerInv
<1> QED
  BY <1>1, RunnerInvariance, PTL

-----------------------------------------------------------------------------
(* What is graded is what is shown.                                        *)

LEMMA GradedIsShown ==
  ASSUME RunnerInv, NEW t \in Tabs, Working(t, {"submit"}), Grade(t), tab[t].phase # "left",
         NEW q \in sure[t]
  PROVE  stored[q] = tab[t].shown[q]
<1> DEFINE n == Len(calls[t])
<1>1. /\ TypeOK /\ TabInv(t) /\ At(t, "validated") /\ attempt = "OPEN"
      /\ calls[t] # <<>> /\ Head(calls[t]).op = "submit"
  BY DEF RunnerInv, Working, At, Grade
<1>2. /\ n \in Nat /\ n >= 1 /\ calls[t][1].op = "submit" /\ tab[t].phase \in Phases
  BY <1>1, FrontOfQueue DEF TypeOK, Tab
<1>3. Has(t, {"submit"}) /\ Has(t, {"save", "submit"})
      /\ Has(t, {"load", "save", "submit", "status"})
  BY <1>2 DEF Has
<1>4. tab[t].phase = "test"
  BY <1>1, <1>2, <1>3 DEF TabInv, CallsFit, OverIsOver, Phases, Early
<1>5. tab[t].ready
  BY <1>1, <1>3, <1>4 DEF TabInv, CallsFit
<1>6. \A i \in 1 .. n : calls[t][i].op # "save"
  <2>1. \A i, j \in 1 .. n : calls[t][i].op = "submit" /\ i < j => calls[t][j].op # "save"
    BY <1>1, <1>3, <1>5 DEF TabInv, SubmitIsLast
  <2>2. 1 \in 1 .. n /\ \A i \in 1 .. n : i = 1 \/ 1 < i
    BY <1>2
  <2> QED
    BY <1>2, <2>1, <2>2
<1> QED
  BY <1>1, <1>5, <1>6 DEF TabInv, ShownIsComing, LastSaveOf, SaveOf

(* A submission grades what its page shows, for any number of tabs that    *)
(* save to the same attempt and of answers still on their way: whatever is *)
(* queued before the submission has been stored when it is worked on, and  *)
(* nothing is selected behind it (handleSelectOption and runSubmit).       *)
THEOREM SubmissionsAsShown == Spec => SubmittedAsShown
<1>1. RunnerInv => [\A t \in Tabs :
                      Working(t, {"submit"}) /\ Grade(t) /\ tab[t].phase # "left" =>
                        \A q \in sure[t] : stored[q] = tab[t].shown[q]]_vars
  BY GradedIsShown
<1> QED
  BY <1>1, RunnerInvariance, PTL DEF SubmittedAsShown

-----------------------------------------------------------------------------
(* When the error page comes up.                                           *)

DeadEnds(t) == tab[t].phase # "error" /\ tab'[t].phase = "error"

LEMMA ServerShowsNothing ==
  ASSUME RunnerInv, NEW t \in Tabs, NEW u \in Tabs,
         Server(u) \/ FailCall(u) \/ LoseCall(u)
  PROVE  ~ DeadEnds(t)
<1>1. tab' = tab
  BY DEF Server, Validate, UpdateCandidate, NoAttemptYet, AttemptRuns, ReadQuestions,
         StoreAnswer, Grade, CloseAttempt, AttemptIsClosed, FailCall, LoseCall
<1> QED
  BY <1>1 DEF DeadEnds

LEMMA StudentIsFree ==
  ASSUME RunnerInv, NEW t \in Tabs, NEW u \in Tabs, Student(u) \/ TimerExpires(u)
  PROVE  ~ DeadEnds(t)
<1>1. tab \in [Tabs -> Tab] /\ tab[t] \in Tab
  BY DEF RunnerInv, TypeOK
<1>2. CASE OpenPage(u)
  BY <1>1, <1>2 DEF OpenPage, DeadEnds, Tab
<1>3. CASE SubmitProfile(u) \/ Begin(u) \/ Continue(u)
  BY <1>1, <1>3 DEF SubmitProfile, Begin, Continue, DeadEnds, Tab
<1>4. CASE \E q \in QuestionIds, o \in OptionIds : SelectOption(u, q, o)
  BY <1>1, <1>4 DEF SelectOption, DeadEnds, Tab
<1>5. CASE ConfirmSubmit(u) \/ TimerExpires(u)
  BY <1>1, <1>5 DEF ConfirmSubmit, TimerExpires, DeadEnds, Tab
<1>6. CASE LeavePage(u)
  BY <1>1, <1>6 DEF LeavePage, Closed, DeadEnds, Tab
<1> QED
  BY <1>2, <1>3, <1>4, <1>5, <1>6 DEF Student

LEMMA PageElsewhere ==
  ASSUME RunnerInv, NEW t \in Tabs, NEW u \in Tabs, u # t, Page(u)
  PROVE  ~ DeadEnds(t)
<1>1. tab \in [Tabs -> Tab]
  BY DEF RunnerInv, TypeOK
<1>2. tab'[t] = tab[t]
  BY <1>1 DEF Page, PageShown, ProfileSaved, Begun, Loaded, Saved, Submitted,
              Recovered, Ignored, Mounts, Shows, Recover
<1> QED
  BY <1>2 DEF DeadEnds

(* The page comes from the answer to its own call.                         *)
LEMMA ReasonForError ==
  ASSUME RunnerInv, NEW t \in Tabs, Page(t), DeadEnds(t)
  PROVE  \/ revoked \/ ~ published \/ faults > 0
         \/ Head(calls[t]).op = "page" /\ Head(calls[t]).reply = "DUPLICATE_SUBMISSION"
<1> DEFINE c == calls[t][1]
<1>1. TypeOK /\ TabInv(t) /\ tab \in [Tabs -> Tab] /\ tab[t] \in Tab
  BY DEF RunnerInv, TypeOK
<1>2. CASE PageShown(t)
  <2>1. /\ c = Head(calls[t]) /\ c \in Call /\ c.op = "page" /\ IsTrue(c)
    BY <1>2, AnsweredFront DEF PageShown
  <2>2. c.reply \in Replies
    BY <2>1 DEF Call
  <2>3. c.reply \notin {"IN_PROGRESS", "NEEDS_PROFILE", "NOT_STARTED", "COMPLETED"}
    BY <1>1, <1>2, <2>1 DEF PageShown, DeadEnds, Mounts, Shows, Closed
  <2> QED
    BY <2>1, <2>2, <2>3 DEF IsTrue, Replies, Refusals
<1>3. CASE ProfileSaved(t)
  BY <1>1, <1>3 DEF ProfileSaved, DeadEnds, Shows, Closed, Tab
<1>4. CASE Begun(t)
  BY <1>1, <1>4 DEF Begun, DeadEnds, Mounts, Shows, Closed, Tab
<1>5. CASE Loaded(t)
  BY <1>1, <1>5 DEF Loaded, DeadEnds, Recover, Tab
<1>6. CASE Saved(t)
  BY <1>1, <1>6 DEF Saved, DeadEnds, Recover, Tab
<1>7. CASE Submitted(t)
  <2>1. c = Head(calls[t]) /\ IsTrue(c)
    BY <1>7, AnsweredFront DEF Submitted
  <2>2. c.reply = "INVITATION_REVOKED"
    BY <1>1, <1>7, <2>1 DEF Submitted, DeadEnds, Shows, Closed, Recover, Tab
  <2> QED
    BY <2>1, <2>2 DEF IsTrue
<1>8. CASE Recovered(t)
  <2>1. /\ c = Head(calls[t]) /\ c.op = "status" /\ c.stage = "answered"
        /\ 1 \in 1 .. Len(calls[t])
    BY <1>8, AnsweredFront DEF Recovered
  <2>2. Comes(c)
    BY <1>1, <2>1 DEF TabInv, StatusHasReason
  <2>3. c.reply # "COMPLETED"
    BY <1>1, <1>8, <2>1 DEF Recovered, DeadEnds, Shows, Closed
  <2> QED
    BY <2>1, <2>2, <2>3 DEF Comes, Trouble
<1>9. CASE Ignored(t)
  BY <1>9 DEF Ignored, DeadEnds
<1> QED
  BY <1>2, <1>3, <1>4, <1>5, <1>6, <1>7, <1>8, <1>9 DEF Page

(* A test under way ends on its result, for any number of tabs and of      *)
(* refusals in any order: the error page needs a revoked link, a test that *)
(* is not published, a failed call, or a page that was opened while        *)
(* another call was closing the attempt.                                   *)
THEOREM NoDeadEnds == Spec => NoDeadEnd
<1>1. ASSUME RunnerInv, Next, NEW t \in Tabs, DeadEnds(t)
      PROVE  \/ revoked \/ ~ published \/ faults > 0
             \/ Head(calls[t]).op = "page"
                  /\ Head(calls[t]).reply = "DUPLICATE_SUBMISSION"
  <2>1. ~ DeadlinePasses /\ ~ RevokeLink
    BY <1>1 DEF DeadlinePasses, RevokeLink, DeadEnds
  <2>2. PICK u \in Tabs : Server(u) \/ Page(u) \/ Student(u) \/ TimerExpires(u)
                          \/ FailCall(u) \/ LoseCall(u)
    BY <1>1, <2>1 DEF Next
  <2>3. Page(u)
    BY <1>1, <2>2, ServerShowsNothing, StudentIsFree
  <2>4. u = t
    BY <1>1, <2>3, PageElsewhere
  <2> QED
    BY <1>1, <2>3, <2>4, ReasonForError
<1>2. RunnerInv /\ [Next]_vars =>
        [\A t \in Tabs :
           tab[t].phase # "error" /\ tab'[t].phase = "error" =>
             \/ revoked \/ ~ published \/ faults > 0
             \/ Head(calls[t]).op = "page"
                  /\ Head(calls[t]).reply = "DUPLICATE_SUBMISSION"]_vars
  BY <1>1 DEF DeadEnds
<1> QED
  BY <1>2, RunnerInvariance, PTL DEF NoDeadEnd, Spec

-----------------------------------------------------------------------------
(* What a page shows is so.                                                *)

(* What the answers say that bring the wizard and the test up.             *)
SaysSo(c) ==
  /\ c.reply = "IN_PROGRESS" => attempt # "NONE"
  /\ c.reply = "NOT_STARTED" => profile
  /\ c.op = "profile" /\ c.reply = "OK" => profile

AnswerSaysSo(t) == At(t, "answered") => SaysSo(calls[t][1])

ScreenIsTrue(t) ==
  /\ tab[t].phase \in {"welcome", "instructions"} => profile
  /\ tab[t].phase = "test" => attempt # "NONE"
  /\ tab[t].phase = "result" => attempt = "CLOSED"

ScreensAreTrue == \A t \in Tabs : ScreenIsTrue(t)

ScreenInv == \A t \in Tabs : ScreenIsTrue(t) /\ AnswerSaysSo(t)

(* A profile stays complete, an attempt stays begun and stays closed.      *)
NothingUndone ==
  /\ profile => profile'
  /\ attempt # "NONE" => attempt' # "NONE"
  /\ attempt = "CLOSED" => attempt' = "CLOSED"

LEMMA ScreenLasts ==
  ASSUME NEW u \in Tabs, NothingUndone, tab'[u].phase = tab[u].phase, ScreenIsTrue(u)
  PROVE  ScreenIsTrue(u)'
BY DEF ScreenIsTrue, NothingUndone

LEMMA SayingLasts ==
  ASSUME NEW u \in Tabs, NothingUndone, AnswerSaysSo(u),
         At(u, "answered")' => At(u, "answered") /\ calls'[u][1] = calls[u][1]
  PROVE  AnswerSaysSo(u)'
BY DEF AnswerSaysSo, SaysSo, NothingUndone

(* The answer at the front is new.                                         *)
LEMMA NewAnswer ==
  ASSUME TypeOK, NEW t \in Tabs, calls[t] # <<>>, NEW r \in Replies, Reply(t, r),
         r = "IN_PROGRESS" => attempt' # "NONE",
         r = "NOT_STARTED" => profile',
         calls[t][1].op = "profile" /\ r = "OK" => profile'
  PROVE  AnswerSaysSo(t)' /\ \A u \in Tabs : u # t => calls'[u] = calls[u]
<1>1. PICK c \in Call : Replaced(t, c) /\ c.op = calls[t][1].op /\ c.reply = r
  BY Replied
<1>2. calls'[t][1] = c /\ \A u \in Tabs : u # t => calls'[u] = calls[u]
  BY <1>1, FrontReplaced
<1>3. SaysSo(c)'
  BY <1>1 DEF SaysSo
<1> QED
  BY <1>2, <1>3 DEF AnswerSaysSo

LEMMA NoAnswer ==
  ASSUME TypeOK, NEW t \in Tabs, calls[t] # <<>>,
         NEW stage \in {"validated", "closing"}, Moves(t, stage)
  PROVE  AnswerSaysSo(t)' /\ \A u \in Tabs : u # t => calls'[u] = calls[u]
<1>1. PICK c \in Call : Replaced(t, c) /\ c.stage = stage
  BY Moved
<1>2. Head(calls'[t]) = c /\ \A u \in Tabs : u # t => calls'[u] = calls[u]
  BY <1>1, FrontReplaced
<1> QED
  BY <1>1, <1>2 DEF AnswerSaysSo, At

(* The server answers nothing that is not so.                              *)
LEMMA ServerSaysSo ==
  ASSUME RunnerInv, NEW t \in Tabs, Server(t) \/ FailCall(t)
  PROVE  /\ tab' = tab /\ NothingUndone /\ AnswerSaysSo(t)'
         /\ \A u \in Tabs : u # t => calls'[u] = calls[u]
<1> DEFINE d == calls[t][1]
           Done == /\ tab' = tab /\ NothingUndone /\ AnswerSaysSo(t)'
                   /\ \A u \in Tabs : u # t => calls'[u] = calls[u]
<1>1. TypeOK /\ calls[t] # <<>>
  BY DEF RunnerInv, Server, Validate, UpdateCandidate, NoAttemptYet, AttemptRuns,
         ReadQuestions, StoreAnswer, Grade, CloseAttempt, AttemptIsClosed, FailCall,
         Working, At
<1>2. Head(calls[t]) = d /\ d \in Call /\ attempt \in {"NONE", "OPEN", "CLOSED"}
      /\ profile \in BOOLEAN /\ published \in BOOLEAN
  BY <1>1, FrontOfQueue DEF TypeOK
<1>3. Refusals \cup {"OK", "COMPLETED", "TEST_UNAVAILABLE", "NEEDS_PROFILE",
                     "NOT_STARTED", "IN_PROGRESS"} \subseteq Replies
  BY DEF Replies
<1>4. CASE Validate(t)
  <2>1. tab' = tab /\ NothingUndone
    BY <1>4 DEF Validate, server, admin, NothingUndone
  <2>2. CASE Moves(t, "validated")
    BY <1>1, <2>1, <2>2, NoAnswer
  <2>3. CASE \E r \in {"INVITATION_REVOKED", "INVITATION_USED", "COMPLETED"} : Reply(t, r)
    <3>1. PICK r \in {"INVITATION_REVOKED", "INVITATION_USED", "COMPLETED"} : Reply(t, r)
      BY <2>3
    <3>2. r \in Replies /\ r \notin {"IN_PROGRESS", "NOT_STARTED", "OK"}
      BY DEF Replies, Refusals
    <3> QED
      BY <1>1, <2>1, <3>1, <3>2, NewAnswer
  <2>4. LinkStatus \in {"ACTIVE", "REVOKED", "USED"}
    BY DEF LinkStatus
  <2> QED
    BY <1>4, <2>2, <2>3, <2>4 DEF Validate
<1>5. CASE UpdateCandidate(t)
  <2>1. tab' = tab /\ NothingUndone /\ profile' /\ Reply(t, "OK")
    BY <1>5 DEF UpdateCandidate, admin, NothingUndone
  <2> QED
    BY <1>1, <1>3, <2>1, NewAnswer
<1>6. CASE NoAttemptYet(t)
  <2>1. tab' = tab /\ profile' = profile /\ attempt = "NONE"
        /\ d.op \in {"page", "status", "begin"}
    BY <1>2, <1>6 DEF NoAttemptYet, Working, admin
  <2>2. NothingUndone
    BY <2>1 DEF NothingUndone
  <2>3. PICK r \in {"IN_PROGRESS", "TEST_NOT_PUBLISHED", "TEST_UNAVAILABLE",
                    "NEEDS_PROFILE", "NOT_STARTED"} :
           /\ Reply(t, r)
           /\ r = "IN_PROGRESS" => attempt' = "OPEN"
           /\ r = "NOT_STARTED" => profile
    BY <1>2, <1>6 DEF NoAttemptYet
  <2>4. r \in Replies /\ r # "OK"
    BY DEF Replies, Refusals
  <2> QED
    BY <1>1, <2>1, <2>2, <2>3, <2>4, NewAnswer
<1>7. CASE AttemptRuns(t)
  <2>1. tab' = tab /\ NothingUndone /\ attempt' # "NONE" /\ Reply(t, "IN_PROGRESS")
    BY <1>7 DEF AttemptRuns, server, admin, NothingUndone
  <2> QED
    BY <1>1, <1>3, <2>1, NewAnswer
<1>8. CASE ReadQuestions(t)
  <2>1. tab' = tab /\ NothingUndone /\ d.op = "load"
    BY <1>2, <1>8 DEF ReadQuestions, Working, server, admin, NothingUndone
  <2>2. calls' = [calls EXCEPT ![t][1] =
                    [d EXCEPT !.stage = "answered", !.reply = "OK", !.answers = stored]]
    BY <1>8 DEF ReadQuestions
  <2> DEFINE c == [d EXCEPT !.stage = "answered", !.reply = "OK", !.answers = stored]
  <2>3. c \in Call /\ c.op = "load" /\ c.reply = "OK"
    BY <1>1, <1>2, <2>1 DEF Call, Replies, TypeOK
  <2>4. Replaced(t, c)
    BY <2>2 DEF Replaced
  <2> HIDE DEF c
  <2>5. calls'[t][1] = c /\ \A u \in Tabs : u # t => calls'[u] = calls[u]
    BY <1>1, <2>3, <2>4, FrontReplaced
  <2> QED
    BY <2>1, <2>3, <2>5 DEF AnswerSaysSo, SaysSo
<1>9. CASE StoreAnswer(t)
  <2>1. tab' = tab /\ NothingUndone /\ d.op = "save" /\ Reply(t, "OK")
    BY <1>2, <1>9 DEF StoreAnswer, Working, admin, NothingUndone
  <2> QED
    BY <1>1, <1>3, <2>1, NewAnswer
<1>10. CASE Grade(t)
  <2>1. tab' = tab /\ NothingUndone /\ Moves(t, "closing")
    BY <1>10 DEF Grade, server, admin, NothingUndone
  <2> QED
    BY <1>1, <2>1, NoAnswer
<1>11. CASE CloseAttempt(t)
  <2>1. tab' = tab /\ NothingUndone
    BY <1>11 DEF CloseAttempt, admin, NothingUndone
  <2>2. PICK r \in {"DUPLICATE_SUBMISSION", "OK", "ATTEMPT_EXPIRED", "COMPLETED"} :
           Reply(t, r) /\ (r = "OK" => d.op = "submit")
    BY <1>2, <1>11 DEF CloseAttempt
  <2>3. r \in Replies /\ r \notin {"IN_PROGRESS", "NOT_STARTED"}
    BY DEF Replies, Refusals
  <2> QED
    BY <1>1, <2>1, <2>2, <2>3, NewAnswer
<1>12. CASE AttemptIsClosed(t)
  <2>1. tab' = tab /\ NothingUndone
    BY <1>12 DEF AttemptIsClosed, server, admin, NothingUndone
  <2>2. PICK r \in {"DUPLICATE_SUBMISSION", "COMPLETED", "INVALID_ATTEMPT_STATE"} :
           Reply(t, r)
    BY <1>12 DEF AttemptIsClosed
  <2>3. r \in Replies /\ r \notin {"IN_PROGRESS", "NOT_STARTED", "OK"}
    BY DEF Replies, Refusals
  <2> QED
    BY <1>1, <2>1, <2>2, <2>3, NewAnswer
<1>13. CASE FailCall(t)
  <2>1. tab' = tab /\ NothingUndone /\ Reply(t, "SERVER_ERROR") /\ "SERVER_ERROR" \in Replies
    BY <1>13 DEF FailCall, server, admin, NothingUndone, Replies, Refusals
  <2> QED
    BY <1>1, <2>1, NewAnswer
<1> QED
  BY <1>4, <1>5, <1>6, <1>7, <1>8, <1>9, <1>10, <1>11, <1>12, <1>13 DEF Server

(* Behind the answer that is taken there is none yet.                      *)
LEMMA NoneBehind ==
  ASSUME RunnerInv, NEW t \in Tabs, calls[t] # <<>>, NEW next \in SUBSET Ops, Onward(t, next)
  PROVE  AnswerSaysSo(t)' /\ \A u \in Tabs : u # t => calls'[u] = calls[u]
<1>1. TypeOK /\ TabInv(t)
  BY DEF RunnerInv
<1>2. /\ \A u \in Tabs : u # t => calls'[u] = calls[u]
      /\ Len(calls'[t]) \in Nat
      /\ calls'[t] # <<>> => Len(calls'[t]) >= 1 /\ Head(calls'[t]) = calls'[t][1]
  BY <1>1, GoesOn
<1>3. \A i \in 1 .. Len(calls'[t]) : calls'[t][i].stage = "queued"
  BY <1>1, Queueing
<1> QED
  BY <1>2, <1>3 DEF AnswerSaysSo, At

(* A page shows what the answer it takes says.                             *)
LEMMA PageSaysSo ==
  ASSUME RunnerInv, NEW t \in Tabs, AnswerSaysSo(t), ScreenIsTrue(t), Page(t)
  PROVE  /\ NothingUndone /\ ScreenIsTrue(t)' /\ AnswerSaysSo(t)'
         /\ \A u \in Tabs : u # t => calls'[u] = calls[u] /\ tab'[u] = tab[u]
<1> DEFINE c == calls[t][1]
           r == calls[t][1].reply
<1>1. /\ TypeOK /\ tab \in [Tabs -> Tab] /\ tab[t] \in Tab
  BY DEF RunnerInv, TypeOK
<1>2. \A u \in Tabs : u # t => tab'[u] = tab[u]
  BY <1>1 DEF Page, PageShown, ProfileSaved, Begun, Loaded, Saved, Submitted, Recovered,
              Ignored, Mounts, Shows, Recover
<1>3. attempt' = attempt /\ profile' = profile /\ NothingUndone
  BY DEF Page, PageShown, ProfileSaved, Begun, Loaded, Saved, Submitted, Recovered, Ignored,
         server, NothingUndone
<1>4. calls[t] # <<>> /\ Head(calls[t]) = c /\ SaysSo(c) /\ IsTrue(c)
  <2>1. At(t, "answered")
    BY DEF Page, PageShown, ProfileSaved, Begun, Loaded, Saved, Submitted, Recovered, Ignored,
           HasAnswer
  <2> QED
    BY <1>1, <2>1, FrontOfQueue DEF AnswerSaysSo, At, RunnerInv, TabInv, AnswerIsTrue
<1>5. \E next \in SUBSET Ops : Onward(t, next)
  <2>1. Receive(t) \/ ReceiveThen(t, "load") \/ ReceiveThen(t, "status")
    BY DEF Page, PageShown, ProfileSaved, Begun, Loaded, Saved, Submitted, Recovered,
           Ignored, Mounts, Recover
  <2>2. {} \in SUBSET Ops /\ {"load"} \in SUBSET Ops /\ {"status"} \in SUBSET Ops
    BY DEF Ops
  <2>3. CASE Receive(t)
    BY <2>2, <2>3 DEF Onward
  <2>4. CASE ReceiveThen(t, "load")
    BY <2>2, <2>4 DEF Onward
  <2>5. CASE ReceiveThen(t, "status")
    BY <2>2, <2>5 DEF Onward
  <2> QED
    BY <2>1, <2>3, <2>4, <2>5
<1>6. AnswerSaysSo(t)' /\ \A u \in Tabs : u # t => calls'[u] = calls[u]
  BY <1>4, <1>5, NoneBehind
<1>7. ScreenIsTrue(t)'
  <2>1. CASE PageShown(t)
    BY <1>1, <1>3, <1>4, <2>1
       DEF PageShown, Mounts, Shows, Closed, ScreenIsTrue, SaysSo, IsTrue
  <2>2. CASE ProfileSaved(t)
    BY <1>1, <1>3, <1>4, <2>2
       DEF ProfileSaved, HasAnswer, Shows, Closed, Tab, ScreenIsTrue, SaysSo
  <2>3. CASE Begun(t)
    BY <1>1, <1>3, <1>4, <2>3
       DEF Begun, Mounts, Shows, Closed, Tab, ScreenIsTrue, SaysSo, IsTrue
  <2>4. CASE Loaded(t)
    BY <1>1, <1>3, <2>4 DEF Loaded, Recover, Tab, ScreenIsTrue
  <2>5. CASE Saved(t)
    BY <1>1, <1>3, <2>5 DEF Saved, Recover, Tab, ScreenIsTrue
  <2>6. CASE Submitted(t)
    <3>1. c.op = "submit"
      BY <1>4, <2>6 DEF Submitted, HasAnswer
    <3>2. CASE Shows(t, "result") /\ r = "OK"
      BY <1>1, <1>3, <1>4, <3>1, <3>2 DEF Shows, Closed, ScreenIsTrue, IsTrue
    <3>3. CASE Recover(t, tab[t]) \/ Shows(t, "error")
                 \/ tab' = [tab EXCEPT ![t].busy = FALSE]
      BY <1>1, <1>3, <3>3 DEF Recover, Shows, Closed, Tab, ScreenIsTrue
    <3> QED
      BY <1>4, <2>6, <3>2, <3>3 DEF Submitted
  <2>7. CASE Recovered(t)
    BY <1>1, <1>3, <1>4, <2>7 DEF Recovered, Shows, Closed, ScreenIsTrue, IsTrue
  <2>8. CASE Ignored(t)
    BY <1>3, <2>8 DEF Ignored, ScreenIsTrue
  <2> QED
    BY <2>1, <2>2, <2>3, <2>4, <2>5, <2>6, <2>7, <2>8 DEF Page
<1> QED
  BY <1>2, <1>3, <1>6, <1>7

(* What the student does moves on only from what is so.                    *)
LEMMA AskedSaysSo ==
  ASSUME RunnerInv, NEW t \in Tabs, AnswerSaysSo(t), NothingUndone,
         NEW c \in Call, c.stage = "queued", Ask(t, c)
  PROVE  AnswerSaysSo(t)' /\ \A u \in Tabs : u # t => calls'[u] = calls[u]
<1>1. TypeOK
  BY DEF RunnerInv
<1>2. /\ \A u \in Tabs : u # t => calls'[u] = calls[u]
      /\ Len(calls[t]) \in Nat /\ Head(calls'[t]) = calls'[t][1]
      /\ calls'[t][Len(calls[t]) + 1] = c
      /\ \A i \in 1 .. Len(calls[t]) : calls'[t][i] = calls[t][i]
  BY <1>1, Asked
<1>3. CASE calls[t] = <<>>
  <2>1. calls'[t][1] = c
    BY <1>2, <1>3
  <2> QED
    BY <1>2, <2>1 DEF AnswerSaysSo, At
<1>4. CASE calls[t] # <<>>
  <2>1. Head(calls[t]) = calls[t][1] /\ calls'[t][1] = calls[t][1]
    BY <1>1, <1>2, <1>4, FrontOfQueue
  <2> QED
    BY <1>2, <1>4, <2>1, SayingLasts DEF At
<1> QED
  BY <1>2, <1>3, <1>4

LEMMA StudentSaysSo ==
  ASSUME RunnerInv, NEW t \in Tabs, AnswerSaysSo(t), ScreenIsTrue(t),
         Student(t) \/ TimerExpires(t)
  PROVE  /\ NothingUndone /\ ScreenIsTrue(t)' /\ AnswerSaysSo(t)'
         /\ \A u \in Tabs : u # t => calls'[u] = calls[u] /\ tab'[u] = tab[u]
<1>1. /\ TypeOK /\ tab \in [Tabs -> Tab] /\ tab[t] \in Tab
      /\ calls \in [Tabs -> Seq(Call)] /\ calls[t] \in Seq(Call)
  BY DEF RunnerInv, TypeOK
<1>2. \A u \in Tabs : u # t => tab'[u] = tab[u]
  BY <1>1 DEF Student, OpenPage, SubmitProfile, Continue, Begin, SelectOption, ConfirmSubmit,
              LeavePage, TimerExpires
<1>3. attempt' = attempt /\ profile' = profile /\ NothingUndone
  BY DEF Student, OpenPage, SubmitProfile, Continue, Begin, SelectOption, ConfirmSubmit,
         LeavePage, TimerExpires, RunSubmit, server, NothingUndone
<1>4. ScreenIsTrue(t)'
  BY <1>1, <1>3 DEF Student, OpenPage, SubmitProfile, Continue, Begin, SelectOption,
         ConfirmSubmit, LeavePage, TimerExpires, Closed, Tab, ScreenIsTrue
<1>5. CASE \/ OpenPage(t) \/ SubmitProfile(t) \/ Begin(t) \/ ConfirmSubmit(t) \/ TimerExpires(t)
  <2>1. PICK op \in Ops : Ask(t, NewCall(op))
    BY <1>5 DEF OpenPage, SubmitProfile, Begin, ConfirmSubmit, TimerExpires, RunSubmit, Ops
  <2>2. NewCall(op) \in Call /\ NewCall(op).stage = "queued"
    BY DEF NewCall, Call, NoAnswers, Answers, Replies
  <2> QED
    BY <1>2, <1>3, <1>4, <2>1, <2>2, AskedSaysSo
<1>6. CASE \E q \in QuestionIds, o \in OptionIds : SelectOption(t, q, o)
  <2>1. PICK q \in QuestionIds, o \in OptionIds : SelectOption(t, q, o)
    BY <1>6
  <2>2. tab[t].shown[q] \in OptionIds \cup {NONE} /\ Ask(t, SaveCall(q, o, tab[t].shown[q]))
    BY <1>1, <2>1 DEF SelectOption, Tab, Answers
  <2>3. /\ SaveCall(q, o, tab[t].shown[q]) \in Call
        /\ SaveCall(q, o, tab[t].shown[q]).stage = "queued"
    BY <2>2 DEF SaveCall, NewCall, Call, NoAnswers, Answers, Replies, Ops
  <2> QED
    BY <1>2, <1>3, <1>4, <2>2, <2>3, AskedSaysSo
<1>7. CASE Continue(t)
  <2>1. calls' = calls
    BY <1>7 DEF Continue
  <2> QED
    BY <1>2, <1>3, <1>4, <2>1, SayingLasts DEF At
<1>8. CASE LeavePage(t)
  <2>1. PICK sent \in {0, 1} : /\ sent <= Len(calls[t])
                               /\ calls' = [calls EXCEPT ![t] = SubSeq(@, 1, sent)]
    BY <1>8 DEF LeavePage
  <2>2. calls'[t] = SubSeq(calls[t], 1, sent) /\ \A u \in Tabs : u # t => calls'[u] = calls[u]
    BY <1>1, <2>1
  <2>3. CASE sent = 0
    <3>1. calls'[t] = <<>>
      BY <1>1, <2>2, <2>3
    <3> QED
      BY <1>2, <1>3, <1>4, <2>2, <3>1 DEF AnswerSaysSo, At
  <2>4. CASE sent = 1
    <3>1. /\ calls[t] # <<>> /\ Head(calls[t]) = calls[t][1]
          /\ calls'[t][1] = calls[t][1] /\ Head(calls'[t]) = calls'[t][1]
      BY <1>1, <2>1, <2>2, <2>4
    <3> QED
      BY <1>2, <1>3, <1>4, <2>2, <3>1, SayingLasts DEF At
  <2> QED
    BY <2>1, <2>3, <2>4
<1> QED
  BY <1>5, <1>6, <1>7, <1>8 DEF Student

LEMMA ScreenStep == RunnerInv /\ ScreenInv /\ [Next]_vars => ScreenInv'
<1> SUFFICES ASSUME RunnerInv, ScreenInv, [Next]_vars PROVE ScreenInv'
  OBVIOUS
<1>1. ASSUME NEW t \in Tabs, NothingUndone, ScreenIsTrue(t)', AnswerSaysSo(t)',
             \A u \in Tabs : u # t => calls'[u] = calls[u] /\ tab'[u] = tab[u]
      PROVE  ScreenInv'
  <2>1. ASSUME NEW u \in Tabs, u # t PROVE ScreenIsTrue(u)' /\ AnswerSaysSo(u)'
    <3>1. tab'[u] = tab[u] /\ calls'[u] = calls[u] /\ ScreenIsTrue(u) /\ AnswerSaysSo(u)
      BY <1>1, <2>1 DEF ScreenInv
    <3> QED
      BY <1>1, <3>1, ScreenLasts, SayingLasts DEF At
  <2> QED
    BY <1>1, <2>1 DEF ScreenInv
<1>2. ASSUME NEW t \in Tabs, Server(t) \/ FailCall(t) PROVE ScreenInv'
  BY <1>1, <1>2, ServerSaysSo, ScreenLasts DEF ScreenInv
<1>3. ASSUME NEW t \in Tabs, Page(t) \/ Student(t) \/ TimerExpires(t) PROVE ScreenInv'
  BY <1>1, <1>3, PageSaysSo, StudentSaysSo DEF ScreenInv
<1>4. ASSUME NEW t \in Tabs, LoseCall(t) PROVE ScreenInv'
  <2>1. calls[t] # <<>> /\ Receive(t) /\ tab' = tab /\ NothingUndone
    BY <1>4 DEF LoseCall, At, server, NothingUndone
  <2>2. Onward(t, {}) /\ {} \in SUBSET Ops
    BY <2>1 DEF Onward
  <2>3. AnswerSaysSo(t)' /\ \A u \in Tabs : u # t => calls'[u] = calls[u]
    BY <2>1, <2>2, NoneBehind
  <2> QED
    BY <1>1, <2>1, <2>3, ScreenLasts DEF ScreenInv
<1>5. CASE DeadlinePasses \/ RevokeLink \/ UNCHANGED vars
  <2>1. tab' = tab /\ calls' = calls /\ NothingUndone
    BY <1>5 DEF DeadlinePasses, RevokeLink, vars, server, NothingUndone
  <2> QED
    BY <2>1, ScreenLasts, SayingLasts DEF ScreenInv, At
<1> QED
  BY <1>2, <1>3, <1>4, <1>5 DEF Next

(* No page is ahead of the server, for any number of tabs and whatever     *)
(* answers are late, lost or refused: the test is shown of an attempt that *)
(* was begun, the result of one that was closed, and the wizard goes on    *)
(* with a profile that is complete (placement-flow.tsx deriveInitialState, *)
(* placement-test-shell.tsx runSubmit and handleAlreadyFinalized).         *)
THEOREM ScreensFollowTheServer == Spec => []ScreensAreTrue
<1>1. Init => ScreenInv
  BY DEF Init, ScreenInv, ScreenIsTrue, AnswerSaysSo, At, Closed
<1>2. RunnerInv /\ ScreenInv /\ [Next]_vars => ScreenInv'
  BY ScreenStep
<1>3. ScreenInv => ScreensAreTrue
  BY DEF ScreenInv, ScreensAreTrue
<1> QED
  BY <1>1, <1>2, <1>3, RunnerInvariance, PTL DEF Spec
=============================================================================
