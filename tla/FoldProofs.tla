----------------------------- MODULE FoldProofs -----------------------------
(***************************************************************************)
(* Facts about the folds the models are built from: the equation of a      *)
(* recursive function on the subsets of a finite set, and sums.            *)
(*                                                                         *)
(* The induction theorems of the library take the induction hypothesis as  *)
(* an operator.  Here it is a set instead, of the numbers or of the        *)
(* subsets for which the claim fails, and the argument is that a set of    *)
(* numbers that is not empty has a least element.                          *)
(***************************************************************************)
EXTENDS Integers, FiniteSetsExt, FiniteSetTheorems, WellFoundedInduction, TLAPS

(* A set of numbers that is not empty has a least element.                 *)
LEMMA LeastElement ==
    ASSUME NEW T, T \subseteq Nat, T # {}
    PROVE  \E n \in T : \A m \in T : n <= m
<1> DEFINE Less == {p \in Nat \X Nat : p[1] < p[2]}
<1>1. IsWellFoundedOn(Less, Nat)
      BY NatLessThanWellFounded, Zenon DEF OpToRel
<1>2. PICK n \in T : \A m \in T : <<m, n>> \notin Less
  <2> HIDE DEF Less
  <2>. QED  BY <1>1, WFMin
<1>3. ASSUME NEW m \in T PROVE n <= m
  <2>1. ~(m < n)  BY <1>2
  <2>. QED  BY <2>1
<1>. QED  BY <1>3

(* Induction over the numbers, for a set of numbers.                       *)
LEMMA NumbersInduction ==
    ASSUME NEW G, 0 \in G, \A n \in Nat : n \in G => n + 1 \in G
    PROVE  Nat \subseteq G
<1> DEFINE Bad == Nat \ G
<1>1. SUFFICES ASSUME Bad # {} PROVE FALSE  OBVIOUS
<1>2. PICK n \in Bad : \A m \in Bad : n <= m
      BY <1>1, LeastElement
<1>3. n # 0 /\ n - 1 \in Nat  OBVIOUS
<1>4. n - 1 \in G  BY <1>2, <1>3
<1>5. (n - 1) + 1 \in G  BY <1>3, <1>4
<1>. QED  BY <1>5

(* Induction over the subsets of a finite set, for a set of subsets.       *)
LEMMA SubsetsInduction ==
    ASSUME NEW S, IsFiniteSet(S), NEW G,
           \A T \in SUBSET S : (\A x \in T : T \ {x} \in G) => T \in G
    PROVE  SUBSET S \subseteq G
<1> DEFINE Small == {n \in Nat : \A T \in SUBSET S : Cardinality(T) = n => T \in G}
<1>1. \A T \in SUBSET S : IsFiniteSet(T) /\ Cardinality(T) \in Nat
      BY FS_Subset, FS_CardinalityType
<1>2. 0 \in Small
  <2>1. ASSUME NEW T \in SUBSET S, Cardinality(T) = 0 PROVE T \in G
    <3>1. T = {}  BY <1>1, <2>1, FS_EmptySet
    <3>. QED  BY <3>1
  <2>. QED  BY <2>1
<1>3. ASSUME NEW n \in Nat, n \in Small PROVE n + 1 \in Small
  <2>1. ASSUME NEW T \in SUBSET S, Cardinality(T) = n + 1 PROVE T \in G
    <3>1. ASSUME NEW x \in T PROVE T \ {x} \in G
      <4>1. Cardinality(T \ {x}) = n  BY <1>1, <2>1, FS_RemoveElement
      <4>. QED  BY <4>1, <1>3
    <3>. QED  BY <3>1
  <2>. QED  BY <2>1
<1>4. Nat \subseteq Small
  <2> HIDE DEF Small
  <2>. QED  BY <1>2, <1>3, NumbersInduction
<1>. QED  BY <1>1, <1>4

-----------------------------------------------------------------------------
(* The equation of a fold.  `pick` says which element goes next, `step`    *)
(* what it does to the value of the others.                                *)

FoldEquation(iter, S, base, step, pick) ==
    iter = [s \in SUBSET S |->
              IF s = {} THEN base ELSE step[<<pick[s], iter[s \ {pick[s]}]>>]]

(* The equation has a solution, of the type of the step.                   *)
LEMMA FoldExists ==
    ASSUME NEW S, IsFiniteSet(S), NEW Typ, NEW base \in Typ,
           NEW step \in [S \X Typ -> Typ], NEW pick,
           \A T \in SUBSET S : T # {} => pick[T] \in T
    PROVE  \E iter \in [SUBSET S -> Typ] : FoldEquation(iter, S, base, step, pick)
<1> DEFINE Upto(n) == {T \in SUBSET S : Cardinality(T) <= n}
           Solves(f, n) ==
               f = [s \in Upto(n) |->
                      IF s = {} THEN base ELSE step[<<pick[s], f[s \ {pick[s]}]>>]]
           Good == {n \in Nat : \E f \in [Upto(n) -> Typ] : Solves(f, n)}
<1>1. \A T \in SUBSET S : IsFiniteSet(T) /\ Cardinality(T) \in Nat
      BY FS_Subset, FS_CardinalityType
<1>2. 0 \in Good
  <2> DEFINE f == [s \in Upto(0) |-> base]
  <2>1. \A s \in Upto(0) : s = {}
    <3>1. \A s \in Upto(0) : Cardinality(s) = 0  BY <1>1
    <3>. QED  BY <1>1, <3>1, FS_EmptySet
  <2>2. f \in [Upto(0) -> Typ] /\ Solves(f, 0)  BY <2>1
  <2>. QED  BY <2>2
<1>3. ASSUME NEW n \in Nat, n \in Good PROVE n + 1 \in Good
  <2>1. PICK f \in [Upto(n) -> Typ] : Solves(f, n)  BY <1>3
  <2> DEFINE g == [s \in Upto(n + 1) |->
                     IF s = {} THEN base ELSE step[<<pick[s], f[s \ {pick[s]}]>>]]
  <2>2. \A s \in Upto(n + 1) : s # {} => s \ {pick[s]} \in Upto(n) /\ pick[s] \in S
    <3>1. SUFFICES ASSUME NEW s \in Upto(n + 1), s # {}
                   PROVE  s \ {pick[s]} \in Upto(n) /\ pick[s] \in S
          OBVIOUS
    <3>2. pick[s] \in s  BY <3>1
    <3>3. Cardinality(s \ {pick[s]}) = Cardinality(s) - 1
          BY <1>1, <3>2, FS_RemoveElement
    <3>. QED  BY <1>1, <3>2, <3>3
  <2>3. \A s \in Upto(n) : s \in Upto(n + 1)  BY <1>1
  <2>4. \A s \in Upto(n) : g[s] = f[s]
    <3>1. \A s \in Upto(n) :
            f[s] = IF s = {} THEN base ELSE step[<<pick[s], f[s \ {pick[s]}]>>]
          BY <2>1
    <3>. QED  BY <2>3, <3>1
  <2>5. g \in [Upto(n + 1) -> Typ]
    <3>1. ASSUME NEW s \in Upto(n + 1), s # {}
          PROVE  step[<<pick[s], f[s \ {pick[s]}]>>] \in Typ
      <4>1. f[s \ {pick[s]}] \in Typ  BY <2>2, <3>1, <2>1
      <4>2. <<pick[s], f[s \ {pick[s]}]>> \in S \X Typ  BY <2>2, <3>1, <4>1
      <4>. QED  BY <4>2
    <3>. QED  BY <3>1
  <2>6. Solves(g, n + 1)
    <3>1. \A s \in Upto(n + 1) : s # {} => g[s \ {pick[s]}] = f[s \ {pick[s]}]
          BY <2>2, <2>4
    <3>. QED  BY <3>1
  <2>. QED
    <3> HIDE DEF Upto, Solves, g
    <3>. QED  BY <2>5, <2>6
<1>4. Cardinality(S) \in Good
  <2> HIDE DEF Good
  <2>1. Nat \subseteq Good  BY <1>2, <1>3, NumbersInduction
  <2>. QED  BY <1>1, <2>1
<1>5. Upto(Cardinality(S)) = SUBSET S
      BY FS_Subset
<1>6. PICK f \in [Upto(Cardinality(S)) -> Typ] : Solves(f, Cardinality(S))
      BY <1>4
<1>7. f \in [SUBSET S -> Typ]  BY <1>5, <1>6
<1>8. FoldEquation(f, S, base, step, pick)
  <2> HIDE DEF Upto
  <2>. QED  BY <1>5, <1>6 DEF FoldEquation
<1>. QED  BY <1>7, <1>8

-----------------------------------------------------------------------------
(* Sums.  An element is left out of the sum first that CHOOSE says; the    *)
(* lemmas show that any element can be.                                    *)

SumEquation(iter, S, g) ==
    iter = [s \in SUBSET S |->
              IF s = {} THEN 0
              ELSE g[CHOOSE x \in s : TRUE] + iter[s \ {CHOOSE x \in s : TRUE}]]

LEMMA SumExists ==
    ASSUME NEW S, IsFiniteSet(S), NEW g, \A x \in S : g[x] \in Int
    PROVE  \E iter : SumEquation(iter, S, g)
<1> DEFINE pick == [s \in SUBSET S |-> CHOOSE x \in s : TRUE]
           step == [p \in S \X Int |-> g[p[1]] + p[2]]
<1>1. \A s \in SUBSET S : s # {} => pick[s] \in s
  <2>1. \A s \in SUBSET S : s # {} => (CHOOSE x \in s : TRUE) \in s  OBVIOUS
  <2>. QED  BY <2>1
<1>2. step \in [S \X Int -> Int]
  <2>1. \A p \in S \X Int : g[p[1]] + p[2] \in Int  OBVIOUS
  <2>. QED  BY <2>1
<1>3. PICK iter \in [SUBSET S -> Int] : FoldEquation(iter, S, 0, step, pick)
  <2> HIDE DEF pick, step
  <2>1. 0 \in Int  OBVIOUS
  <2>. QED  BY <1>1, <1>2, <2>1, FoldExists, Zenon
<1>4. \A s \in SUBSET S : s # {} =>
        step[<<pick[s], iter[s \ {pick[s]}]>>]
          = g[CHOOSE x \in s : TRUE] + iter[s \ {CHOOSE x \in s : TRUE}]
  <2>1. SUFFICES ASSUME NEW s \in SUBSET S, s # {}
                 PROVE  step[<<pick[s], iter[s \ {pick[s]}]>>]
                          = g[CHOOSE x \in s : TRUE] + iter[s \ {CHOOSE x \in s : TRUE}]
        OBVIOUS
  <2>2. pick[s] \in S /\ iter[s \ {pick[s]}] \in Int  BY <1>1, <1>3, <2>1
  <2>3. step[<<pick[s], iter[s \ {pick[s]}]>>] = g[pick[s]] + iter[s \ {pick[s]}]
    <3> HIDE DEF pick
    <3>. QED  BY <2>2
  <2>4. pick[s] = CHOOSE x \in s : TRUE  OBVIOUS
  <2>. QED  BY <2>3, <2>4
<1>5. SumEquation(iter, S, g)
  <2>1. \A s \in SUBSET S : iter[s] =
          IF s = {} THEN 0
          ELSE g[CHOOSE x \in s : TRUE] + iter[s \ {CHOOSE x \in s : TRUE}]
    <3> HIDE DEF pick, step
    <3>1. \A s \in SUBSET S : iter[s] =
            IF s = {} THEN 0 ELSE step[<<pick[s], iter[s \ {pick[s]}]>>]
          BY <1>3 DEF FoldEquation
    <3>. QED  BY <3>1, <1>4
  <2>. QED  BY <1>3, <2>1 DEF SumEquation
<1>. QED  BY <1>5

(* A solution, one element at a time.                                      *)
LEMMA SumStep ==
    ASSUME NEW S, NEW g, NEW iter, SumEquation(iter, S, g),
           NEW T \in SUBSET S, T # {}
    PROVE  \E x \in T : iter[T] = g[x] + iter[T \ {x}]
<1>1. (CHOOSE x \in T : TRUE) \in T  OBVIOUS
<1>. QED  BY <1>1 DEF SumEquation

LEMMA SumTyped ==
    ASSUME NEW S, IsFiniteSet(S), NEW g, \A x \in S : g[x] \in Int,
           NEW iter, SumEquation(iter, S, g)
    PROVE  \A T \in SUBSET S : iter[T] \in Int
<1> DEFINE G == {T \in SUBSET S : iter[T] \in Int}
<1>1. ASSUME NEW T \in SUBSET S, \A x \in T : T \ {x} \in G
      PROVE  T \in G
  <2>1. CASE T = {}  BY <2>1 DEF SumEquation
  <2>2. CASE T # {}
    <3>1. PICK x \in T : iter[T] = g[x] + iter[T \ {x}]  BY <2>2, SumStep
    <3>. QED  BY <1>1, <3>1
  <2>. QED  BY <2>1, <2>2
<1>2. SUBSET S \subseteq G
  <2> HIDE DEF G
  <2>. QED  BY <1>1, SubsetsInduction
<1>. QED  BY <1>2

(* Any element can be taken out of a sum.                                  *)
LEMMA SumRemoves ==
    ASSUME NEW S, IsFiniteSet(S), NEW g, \A x \in S : g[x] \in Int,
           NEW iter, SumEquation(iter, S, g)
    PROVE  \A T \in SUBSET S : \A y \in T : iter[T] = g[y] + iter[T \ {y}]
<1> DEFINE G == {T \in SUBSET S : \A y \in T : iter[T] = g[y] + iter[T \ {y}]}
<1>1. \A T \in SUBSET S : iter[T] \in Int  BY SumTyped
<1>2. ASSUME NEW T \in SUBSET S, \A x \in T : T \ {x} \in G, NEW y \in T
      PROVE  iter[T] = g[y] + iter[T \ {y}]
  <2>1. PICK x \in T : iter[T] = g[x] + iter[T \ {x}]  BY SumStep
  <2>2. CASE x = y  BY <2>1, <2>2
  <2>3. CASE x # y
    <3>1. iter[T \ {x}] = g[y] + iter[(T \ {x}) \ {y}]  BY <1>2, <2>3
    <3>2. iter[T \ {y}] = g[x] + iter[(T \ {y}) \ {x}]  BY <1>2, <2>3
    <3>3. (T \ {x}) \ {y} = (T \ {y}) \ {x}  OBVIOUS
    <3>4. iter[(T \ {x}) \ {y}] \in Int /\ g[x] \in Int /\ g[y] \in Int  BY <1>1
    <3>5. iter[(T \ {y}) \ {x}] = iter[(T \ {x}) \ {y}]  BY <3>3
    <3>. QED  BY <2>1, <3>1, <3>2, <3>4, <3>5
  <2>. QED  BY <2>2, <2>3
<1>3. SUBSET S \subseteq G
  <2>1. ASSUME NEW T \in SUBSET S, \A x \in T : T \ {x} \in G PROVE T \in G
    <3>1. \A y \in T : iter[T] = g[y] + iter[T \ {y}]
      <4> HIDE DEF G
      <4>. QED  BY <1>2, <2>1
    <3>. QED  BY <3>1
  <2> HIDE DEF G
  <2>. QED  BY <2>1, SubsetsInduction
<1>. QED  BY <1>3

(* A sum depends on its elements and their values alone.                   *)
LEMMA SumSame ==
    ASSUME NEW S, IsFiniteSet(S), NEW g, \A x \in S : g[x] \in Int,
           NEW iter, SumEquation(iter, S, g),
           NEW S2, NEW g2, NEW iter2, SumEquation(iter2, S2, g2),
           S2 \subseteq S, \A x \in S2 : g2[x] = g[x]
    PROVE  \A T \in SUBSET S2 : iter2[T] = iter[T]
<1> DEFINE G == {T \in SUBSET S2 : iter2[T] = iter[T]}
<1>0. IsFiniteSet(S2)  BY FS_Subset
<1>1. ASSUME NEW T \in SUBSET S2, \A x \in T : T \ {x} \in G
      PROVE  T \in G
  <2>1. CASE T = {}
    <3>1. iter2[{}] = 0 /\ iter[{}] = 0  BY DEF SumEquation
    <3>. QED  BY <2>1, <3>1
  <2>2. CASE T # {}
    <3>1. PICK x \in T : iter2[T] = g2[x] + iter2[T \ {x}]  BY <2>2, SumStep
    <3>2. iter[T] = g[x] + iter[T \ {x}]  BY SumRemoves
    <3>. QED  BY <1>1, <3>1, <3>2
  <2>. QED  BY <2>1, <2>2
<1>2. SUBSET S2 \subseteq G
  <2> HIDE DEF G
  <2>. QED  BY <1>0, <1>1, SubsetsInduction
<1>. QED  BY <1>2

-----------------------------------------------------------------------------
(* The sum of the values of a function over a set.                         *)

Total(g, S) == MapThenSumSet(LAMBDA x : g[x], S)

(* Total is the value a solution of the equation has at its set.           *)
LEMMA TotalSolved ==
    ASSUME NEW S, IsFiniteSet(S), NEW g, \A x \in S : g[x] \in Int
    PROVE  \E iter : SumEquation(iter, S, g) /\ Total(g, S) = iter[S]
<1> DEFINE Solves(f) == SumEquation(f, S, g)
           solution == CHOOSE f : Solves(f)
<1>1. Solves(solution)
  <2>1. \E f : Solves(f)  BY SumExists
  <2> HIDE DEF Solves
  <2>. QED  BY <2>1, Zenon
<1>2. Total(g, S) = solution[S]
      BY DEF Total, MapThenSumSet, MapThenFoldSet, SumEquation
<1>. QED
  <2> HIDE DEF solution
  <2>. QED  BY <1>1, <1>2

LEMMA TotalEmpty ==
    ASSUME NEW g
    PROVE  Total(g, {}) = 0
<1>1. IsFiniteSet({})  BY FS_EmptySet
<1>2. PICK iter : SumEquation(iter, {}, g) /\ Total(g, {}) = iter[{}]
      BY <1>1, TotalSolved
<1>. QED  BY <1>2 DEF SumEquation

LEMMA TotalType ==
    ASSUME NEW S, IsFiniteSet(S), NEW g, \A x \in S : g[x] \in Int
    PROVE  Total(g, S) \in Int
<1>1. PICK iter : SumEquation(iter, S, g) /\ Total(g, S) = iter[S]
      BY TotalSolved
<1>. QED  BY <1>1, SumTyped

(* Equal summands have equal sums.                                         *)
LEMMA TotalSame ==
    ASSUME NEW S, IsFiniteSet(S), NEW g, \A x \in S : g[x] \in Int,
           NEW g2, \A x \in S : g2[x] = g[x]
    PROVE  Total(g2, S) = Total(g, S)
<1>1. PICK iter : SumEquation(iter, S, g) /\ Total(g, S) = iter[S]
      BY TotalSolved
<1>2. PICK iter2 : SumEquation(iter2, S, g2) /\ Total(g2, S) = iter2[S]
      BY TotalSolved
<1>. QED  BY <1>1, <1>2, SumSame

LEMMA TotalRemoves ==
    ASSUME NEW S, IsFiniteSet(S), NEW g, \A x \in S : g[x] \in Int, NEW y \in S
    PROVE  Total(g, S) = g[y] + Total(g, S \ {y})
<1>1. PICK iter : SumEquation(iter, S, g) /\ Total(g, S) = iter[S]
      BY TotalSolved
<1>2. IsFiniteSet(S \ {y})  BY FS_RemoveElement
<1>3. PICK iter2 : SumEquation(iter2, S \ {y}, g) /\ Total(g, S \ {y}) = iter2[S \ {y}]
      BY <1>2, TotalSolved
<1>4. iter2[S \ {y}] = iter[S \ {y}]  BY <1>1, <1>3, SumSame
<1>5. iter[S] = g[y] + iter[S \ {y}]  BY <1>1, SumRemoves
<1>. QED  BY <1>1, <1>3, <1>4, <1>5

LEMMA TotalAdds ==
    ASSUME NEW S, IsFiniteSet(S), NEW y, y \notin S,
           NEW g, \A x \in S \cup {y} : g[x] \in Int
    PROVE  Total(g, S \cup {y}) = g[y] + Total(g, S)
<1>1. IsFiniteSet(S \cup {y}) /\ (S \cup {y}) \ {y} = S  BY FS_AddElement
<1>. QED  BY <1>1, TotalRemoves

(* Elements of no value can be left out of a sum.                          *)
LEMMA TotalZeros ==
    ASSUME NEW T, IsFiniteSet(T), NEW S \in SUBSET T,
           NEW g, \A x \in T : g[x] \in Int, \A x \in T \ S : g[x] = 0
    PROVE  Total(g, T) = Total(g, S)
<1> DEFINE G == {R \in SUBSET (T \ S) : Total(g, S \cup R) = Total(g, S)}
<1>1. IsFiniteSet(T \ S) /\ \A R \in SUBSET T : IsFiniteSet(R)
      BY FS_Subset
<1>2. ASSUME NEW R \in SUBSET (T \ S), \A x \in R : R \ {x} \in G
      PROVE  R \in G
  <2>1. CASE R = {}
    <3>1. S \cup R = S  BY <2>1
    <3>. QED  BY <3>1
  <2>2. CASE R # {}
    <3>1. PICK x : x \in R  BY <2>2
    <3>2. \A U : IsFiniteSet(U) /\ x \in U /\ (\A y \in U : g[y] \in Int)
                 => Total(g, U) = g[x] + Total(g, U \ {x})
          BY TotalRemoves
    <3>3. Total(g, S \cup R) = g[x] + Total(g, (S \cup R) \ {x})
      <4>1. IsFiniteSet(S \cup R) /\ x \in S \cup R /\ \A y \in S \cup R : g[y] \in Int
            BY <1>1, <3>1
      <4>. QED  BY <3>2, <4>1
    <3>4. (S \cup R) \ {x} = S \cup (R \ {x}) /\ g[x] = 0  BY <3>1
    <3>5. Total(g, S \cup (R \ {x})) = Total(g, S)  BY <1>2, <3>1
    <3>6. Total(g, S) \in Int
      <4>1. IsFiniteSet(S)  BY <1>1
      <4>2. \A y \in S : g[y] \in Int  OBVIOUS
      <4>. QED  BY <4>1, <4>2, TotalType
    <3>7. Total(g, S \cup R) = 0 + Total(g, S)  BY <3>3, <3>4, <3>5
    <3>8. 0 + Total(g, S) = Total(g, S)  BY <3>6
    <3>9. Total(g, S \cup R) = Total(g, S)  BY <3>7, <3>8
    <3>. QED  BY <3>9
  <2>. QED  BY <2>1, <2>2
<1>3. SUBSET (T \ S) \subseteq G
  <2> HIDE DEF G
  <2>. QED  BY <1>1, <1>2, SubsetsInduction
<1>4. S \cup (T \ S) = T  OBVIOUS
<1>5. T \ S \in G
  <2> HIDE DEF G
  <2>. QED  BY <1>3
<1>6. Total(g, S \cup (T \ S)) = Total(g, S)  BY <1>5
<1>. QED  BY <1>4, <1>6

(* The sum of smaller values is smaller.                                   *)
LEMMA TotalBelow ==
    ASSUME NEW S, IsFiniteSet(S), NEW g, NEW g2,
           \A x \in S : g[x] \in Int /\ g2[x] \in Int /\ g[x] <= g2[x]
    PROVE  Total(g, S) <= Total(g2, S)
<1> DEFINE G == {R \in SUBSET S : Total(g, R) <= Total(g2, R)}
<1>1. \A R \in SUBSET S : IsFiniteSet(R)
      BY FS_Subset
<1>2. ASSUME NEW R \in SUBSET S, \A x \in R : R \ {x} \in G
      PROVE  R \in G
  <2>1. CASE R = {}
    <3>1. Total(g, R) = 0 /\ Total(g2, R) = 0  BY <2>1, TotalEmpty
    <3>. QED  BY <3>1
  <2>2. CASE R # {}
    <3>1. PICK x : x \in R  BY <2>2
    <3>2. IsFiniteSet(R) /\ IsFiniteSet(R \ {x})  BY <1>1
    <3>3. \A y \in R : g[y] \in Int /\ g2[y] \in Int  OBVIOUS
    <3>4. Total(g, R) = g[x] + Total(g, R \ {x})  BY <3>1, <3>2, <3>3, TotalRemoves
    <3>5. Total(g2, R) = g2[x] + Total(g2, R \ {x})  BY <3>1, <3>2, <3>3, TotalRemoves
    <3>6. Total(g, R \ {x}) \in Int /\ Total(g2, R \ {x}) \in Int
          BY <3>2, <3>3, TotalType
    <3>7. Total(g, R \ {x}) <= Total(g2, R \ {x})  BY <1>2, <3>1
    <3>8. g[x] \in Int /\ g2[x] \in Int /\ g[x] <= g2[x]  BY <3>1
    <3>9. Total(g, R) <= Total(g2, R)  BY <3>4, <3>5, <3>6, <3>7, <3>8
    <3>. QED  BY <3>9
  <2>. QED  BY <2>1, <2>2
<1>3. SUBSET S \subseteq G
  <2> HIDE DEF G
  <2>. QED  BY <1>2, SubsetsInduction
<1>4. S \in G
  <2> HIDE DEF G
  <2>. QED  BY <1>3
<1>. QED  BY <1>4

(* One summand grows, and the sum with it.                                 *)
LEMMA TotalBumps ==
    ASSUME NEW S, IsFiniteSet(S), NEW g, \A x \in S : g[x] \in Int, NEW y \in S,
           NEW k \in Int, NEW g2, g2[y] = g[y] + k, \A x \in S : x # y => g2[x] = g[x]
    PROVE  Total(g2, S) = Total(g, S) + k
<1> DEFINE R == S \ {y}
<1>1. IsFiniteSet(R)  BY FS_RemoveElement
<1>2. Total(g, S) = g[y] + Total(g, R)  BY TotalRemoves
<1>3. \A x \in S : g2[x] \in Int
  <2>1. ASSUME NEW x \in S PROVE g2[x] \in Int
    <3>1. CASE x = y
      <4>1. g[y] + k \in Int  OBVIOUS
      <4>. QED  BY <3>1, <4>1
    <3>2. CASE x # y  BY <3>2
    <3>. QED  BY <3>1, <3>2
  <2>. QED  BY <2>1
<1>4. Total(g2, S) = g2[y] + Total(g2, R)  BY <1>3, TotalRemoves
<1> HIDE DEF R
<1>5. Total(g2, R) = Total(g, R) /\ Total(g, R) \in Int
  <2>1. \A x \in R : g[x] \in Int /\ g2[x] = g[x]  BY DEF R
  <2>. QED  BY <1>1, <2>1, TotalSame, TotalType
<1>. QED  BY <1>2, <1>4, <1>5

(* A sum written as a fold over the set itself.                            *)
Counted(g, S) == FoldSet(LAMBDA x, sum : sum + g[x], 0, S)

LEMMA CountedTotal ==
    ASSUME NEW S, IsFiniteSet(S), NEW g, \A x \in S : g[x] \in Int
    PROVE  Counted(g, S) = Total(g, S)
<1> DEFINE Solves(f) == f = [s \in SUBSET S |->
              IF s = {} THEN 0
              ELSE f[s \ {CHOOSE x \in s : TRUE}] + g[CHOOSE x \in s : TRUE]]
           solution == CHOOSE f : Solves(f)
<1>1. PICK iter : SumEquation(iter, S, g) /\ Total(g, S) = iter[S]
      BY TotalSolved
<1>2. \A s \in SUBSET S : s # {} =>
          (CHOOSE x \in s : TRUE) \in S /\ s \ {CHOOSE x \in s : TRUE} \in SUBSET S
      OBVIOUS
<1>3. Solves(iter)
  <2>1. \A s \in SUBSET S : iter[s] \in Int  BY <1>1, SumTyped
  <2>2. ASSUME NEW s \in SUBSET S, s # {}
        PROVE  g[CHOOSE x \in s : TRUE] + iter[s \ {CHOOSE x \in s : TRUE}]
                 = iter[s \ {CHOOSE x \in s : TRUE}] + g[CHOOSE x \in s : TRUE]
        BY <1>2, <2>1, <2>2
  <2>. QED  BY <1>1, <2>2 DEF SumEquation
<1>4. Solves(solution)
  <2>1. \E f : Solves(f)  BY <1>3
  <2> HIDE DEF Solves
  <2>. QED  BY <2>1, Zenon
<1>5. Counted(g, S) = solution[S]
      BY DEF Counted, FoldSet, MapThenFoldSet
<1> HIDE DEF solution
<1>6. solution[S] = iter[S]
  <2> DEFINE G == {s \in SUBSET S : solution[s] = iter[s]}
  <2>1. ASSUME NEW T \in SUBSET S, \A x \in T : T \ {x} \in G PROVE T \in G
    <3>1. CASE T = {}  BY <1>3, <1>4, <3>1
    <3>2. CASE T # {}
      <4>1. (CHOOSE x \in T : TRUE) \in T  BY <3>2
      <4>2. solution[T \ {CHOOSE x \in T : TRUE}] = iter[T \ {CHOOSE x \in T : TRUE}]
            BY <2>1, <4>1
      <4>3. \A f : Solves(f) =>
              f[T] = f[T \ {CHOOSE x \in T : TRUE}] + g[CHOOSE x \in T : TRUE]
            BY <3>2
      <4>. QED
        <5> HIDE DEF Solves
        <5>. QED  BY <1>3, <1>4, <4>2, <4>3
    <3>. QED  BY <3>1, <3>2
  <2>2. SUBSET S \subseteq G
    <3> HIDE DEF G
    <3>. QED  BY <2>1, SubsetsInduction
  <2>. QED  BY <2>2
<1>. QED  BY <1>1, <1>5, <1>6
=============================================================================
