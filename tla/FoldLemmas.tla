----------------------------- MODULE FoldLemmas -----------------------------
(***************************************************************************)
(* What proofs about the folds of the community modules need: induction    *)
(* over natural numbers, got from the well-foundedness of strict inclusion *)
(* (the library's induction theorems take an operator as a parameter), and *)
(* the existence of the function that a fold chooses; and what becomes of  *)
(* a sum over a finite set when entries of it are changed.                 *)
(***************************************************************************)
EXTENDS Integers, SequencesExt, FiniteSetTheorems, WellFoundedInduction, TLAPS

-----------------------------------------------------------------------------
(* Induction                                                               *)

\* Strict inclusion is well founded on the intervals from 0.
LEMMA LeastNatural ==
  ASSUME NEW A \in SUBSET Nat, A # {}
  PROVE  \E m \in A : \A n \in A : m <= n
  <1> DEFINE T == {0 .. n : n \in A}
  <1>1. \A n \in Nat : 0 .. n \in FiniteSubsetsOf(Nat)
    BY FS_Interval DEF FiniteSubsetsOf
  <1>2. T \subseteq FiniteSubsetsOf(Nat) /\ T # {}
    BY <1>1
  <1>3. PICK x \in T : \A y \in T : ~ (<<y, x>> \in StrictSubsetOrdering(Nat))
    <2> HIDE DEF T
    <2>1. QED
      BY <1>2, FS_StrictSubsetOrderingWellFounded, WFMin
  <1>4. PICK m \in A : x = 0 .. m
    OBVIOUS
  <1>5. ASSUME NEW n \in A, ~(m <= n) PROVE FALSE
    <2>1. 0 .. n \subseteq 0 .. m /\ 0 .. n # 0 .. m /\ 0 .. n \in T
      BY <1>5
    <2>2. <<0 .. n, x>> \in StrictSubsetOrdering(Nat)
      BY <1>4, <2>1 DEF StrictSubsetOrdering
    <2>3. QED
      BY <1>3, <2>1, <2>2
  <1>6. QED
    BY <1>5

\* Induction over an interval, for a set instead of a predicate.
LEMMA Induction ==
  ASSUME NEW n \in Nat, NEW P, 0 \in P, \A i \in 1 .. n : i - 1 \in P => i \in P
  PROVE  \A i \in 0 .. n : i \in P
  <1> DEFINE A == {i \in 0 .. n : i \notin P}
  <1> SUFFICES ASSUME A # {} PROVE FALSE
    OBVIOUS
  <1>1. PICK m \in A : \A i \in A : m <= i
    <2>1. A \in SUBSET Nat
      OBVIOUS
    <2> HIDE DEF A
    <2>2. QED
      BY <2>1, LeastNatural
  <1>2. m \in 1 .. n
    OBVIOUS
  <1>3. m - 1 \in P
    BY <1>1, <1>2
  <1>4. QED
    BY <1>2, <1>3

LEMMA MinOf ==
  ASSUME NEW S \in SUBSET Nat, S # {}
  PROVE  Min(S) \in S /\ \A i \in S : Min(S) <= i
  BY LeastNatural DEF Min

\* The function that FoldLeft chooses: f[i] is the step for the i-th element.
Iteration(m, A, b, f, it) ==
  /\ it \in [SUBSET (1 .. m) -> A]
  /\ \A S \in SUBSET (1 .. m) : it[S] = IF S = {} THEN b ELSE f[Max(S)][it[S \ {Max(S)}]]

\* It exists.
LEMMA Iterates ==
  ASSUME NEW n \in Nat, NEW A, NEW b \in A, NEW f \in [1 .. n -> [A -> A]]
  PROVE  \E it : Iteration(n, A, b, f, it)
  <1> DEFINE Good(m, it) == Iteration(m, A, b, f, it)
             P == {m \in 0 .. n : \E it : Good(m, it)}
  <1>1. 0 \in P
    <2> DEFINE it == [S \in SUBSET (1 .. 0) |-> b]
    <2>1. \A S \in SUBSET (1 .. 0) : S = {}
      OBVIOUS
    <2>2. Good(0, it)
      BY <2>1 DEF Iteration
    <2> HIDE DEF it, Good
    <2>3. QED
      BY <2>2
  <1>2. ASSUME NEW m \in 1 .. n, m - 1 \in P PROVE m \in P
    <2>1. PICK it : Good(m - 1, it)
      BY <1>2
    <2> DEFINE new == [S \in SUBSET (1 .. m) |-> IF m \in S THEN f[m][it[S \ {m}]] ELSE it[S]]
    <2>2. \A S \in SUBSET (1 .. m) : /\ m \in S => S \ {m} \in SUBSET (1 .. m - 1)
                                     /\ m \notin S => S \in SUBSET (1 .. m - 1)
      OBVIOUS
    <2>3. new \in [SUBSET (1 .. m) -> A]
      <3> SUFFICES ASSUME NEW S \in SUBSET (1 .. m)
                   PROVE  (IF m \in S THEN f[m][it[S \ {m}]] ELSE it[S]) \in A
        OBVIOUS
      <3>1. f[m] \in [A -> A]
        OBVIOUS
      <3>2. QED
        BY <2>1, <2>2, <3>1 DEF Iteration
    <2>4. ASSUME NEW S \in SUBSET (1 .. m)
          PROVE  new[S] = IF S = {} THEN b ELSE f[Max(S)][new[S \ {Max(S)}]]
      <3>1. CASE m \in S
        <4>1. Max(S) = m
          <5>1. m \in S /\ \A i \in S : i \in Nat /\ m >= i
            BY <3>1
          <5>2. Max(S) \in S /\ \A i \in S : Max(S) >= i
            BY <5>1 DEF Max
          <5>3. Max(S) \in Nat /\ m >= Max(S) /\ Max(S) >= m
            BY <5>1, <5>2
          <5> HIDE DEF Good
          <5>4. QED
            BY <5>3
        <4>2. S \ {m} \in SUBSET (1 .. m) /\ m \notin S \ {m}
          OBVIOUS
        <4>3. new[S \ {m}] = it[S \ {m}] /\ new[S] = f[m][it[S \ {m}]]
          BY <3>1, <4>2
        <4>4. QED
          BY <3>1, <4>1, <4>3
      <3>2. CASE m \notin S
        <4>1. S \in SUBSET (1 .. m - 1) /\ new[S] = it[S]
          BY <2>2, <3>2
        <4>2. CASE S = {}
          BY <2>1, <4>1, <4>2 DEF Iteration
        <4>3. CASE S # {}
          <5>1. m \notin S \ {Max(S)} /\ S \ {Max(S)} \in SUBSET (1 .. m)
            BY <3>2
          <5>2. new[S \ {Max(S)}] = it[S \ {Max(S)}]
            BY <5>1
          <5>3. it[S] = f[Max(S)][it[S \ {Max(S)}]]
            BY <2>1, <4>1, <4>3 DEF Iteration
          <5>4. QED
            BY <4>1, <4>3, <5>2, <5>3
        <4>4. QED
          BY <4>2, <4>3
      <3>3. QED
        BY <3>1, <3>2
    <2> HIDE DEF new
    <2>5. Good(m, new)
      BY <2>3, <2>4 DEF Iteration
    <2> HIDE DEF Good
    <2>6. QED
      BY <2>5
  <1> HIDE DEF P
  <1>3. n \in P
    <2>1. \A i \in 1 .. n : i - 1 \in P => i \in P
      BY <1>2
    <2>2. \A i \in 0 .. n : i \in P
      BY <1>1, <2>1, Induction
    <2>3. QED
      BY <2>2
  <1>4. QED
    BY <1>3 DEF P

LEMMA MaxOf ==
  ASSUME NEW n \in Nat, NEW S \in SUBSET (1 .. n), S # {}
  PROVE  Max(S) \in S
  <1> DEFINE T == {i \in Nat : \A j \in S : j <= i}
  <1>1. T \in SUBSET Nat /\ n \in T
    OBVIOUS
  <1> HIDE DEF T
  <1>2. PICK m \in T : \A i \in T : m <= i
    BY <1>1, LeastNatural
  <1>3. m \in S
    <2> SUFFICES ASSUME m \notin S PROVE FALSE
      OBVIOUS
    <2>1. m \in Nat /\ \A j \in S : j \in 1 .. n /\ j <= m /\ j # m
      BY <1>2 DEF T
    <2>2. m > 0
      <3>1. PICK j \in S : TRUE
        OBVIOUS
      <3>2. QED
        BY <2>1, <3>1
    <2>3. m - 1 \in T
      BY <2>1, <2>2 DEF T
    <2>4. QED
      BY <1>2, <2>1, <2>3
  <1>4. \A j \in S : m >= j
    BY <1>2 DEF T
  <1>5. QED
    BY <1>3, <1>4 DEF Max

LEMMA MaxOfInterval ==
  ASSUME NEW i \in Nat, i > 0
  PROVE  Max(1 .. i) = i
  <1>1. i \in 1 .. i /\ \A j \in 1 .. i : i >= j
    OBVIOUS
  <1>2. Max(1 .. i) \in 1 .. i /\ \A j \in 1 .. i : Max(1 .. i) >= j
    BY <1>1 DEF Max
  <1>3. Max(1 .. i) >= i /\ Max(1 .. i) <= i /\ Max(1 .. i) \in Nat
    BY <1>1, <1>2
  <1>4. QED
    BY <1>3

-----------------------------------------------------------------------------
(* Sums over finite sets                                                   *)

\* The function that MapThenSumSet chooses: it[T] is the sum of f over T.
Sums(it, f, S) ==
  /\ IsFiniteSet(S) /\ f \in [S -> Nat]
  /\ it = [T \in SUBSET S |-> IF T = {} THEN 0
                              ELSE f[CHOOSE x \in T : TRUE] + it[T \ {CHOOSE x \in T : TRUE}]]

\* Among the subsets of S that are in P, one with the fewest elements.
LEMMA Smallest ==
  ASSUME NEW S, IsFiniteSet(S), NEW P \in SUBSET (SUBSET S), P # {}
  PROVE  \E T \in P : \A x \in T : T \ {x} \notin P /\ \A y \in T : (T \ {x}) \ {y} \notin P
  <1>1. \A T \in P : IsFiniteSet(T) /\ Cardinality(T) \in Nat
    BY FS_Subset, FS_CardinalityType
  <1> DEFINE A == {Cardinality(T) : T \in P}
  <1>2. A \in SUBSET Nat /\ A # {}
    BY <1>1
  <1>3. PICK m \in A : \A n \in A : m <= n
    <2> HIDE DEF A
    <2>1. QED
      BY <1>2, LeastNatural
  <1>4. PICK T \in P : Cardinality(T) = m
    BY <1>3
  <1>5. ASSUME NEW x \in T
        PROVE  T \ {x} \notin P /\ \A y \in T : (T \ {x}) \ {y} \notin P
    <2>1. IsFiniteSet(T \ {x}) /\ Cardinality(T \ {x}) = Cardinality(T) - 1
      BY <1>1, FS_RemoveElement
    <2>2. Cardinality(T \ {x}) < m /\ m \in Nat
      BY <1>1, <1>4, <2>1
    <2>3. ASSUME NEW y \in T
          PROVE  Cardinality((T \ {x}) \ {y}) < m
      <3>1. (T \ {x}) \ {y} \in SUBSET (T \ {x})
        OBVIOUS
      <3>2. Cardinality((T \ {x}) \ {y}) <= Cardinality(T \ {x})
        BY <2>1, <3>1, FS_Subset
      <3>3. Cardinality((T \ {x}) \ {y}) \in Nat /\ Cardinality(T \ {x}) \in Nat
        BY <2>1, <3>1, FS_Subset, FS_CardinalityType
      <3>4. QED
        BY <2>2, <3>2, <3>3
    <2>4. \A U \in P : ~(Cardinality(U) < m)
      BY <1>1, <1>3, <2>2
    <2>5. QED
      BY <2>2, <2>3, <2>4
  <1>6. QED
    BY <1>5

LEMMA SumExists ==
  ASSUME NEW S, IsFiniteSet(S), NEW f \in [S -> Nat]
  PROVE  \E it : Sums(it, f, S)
  <1> DEFINE first(T) == CHOOSE x \in T : TRUE
             small(n) == {T \in SUBSET S : Cardinality(T) <= n}
             Good(n, it) ==
               \A T \in small(n) : it[T] = IF T = {} THEN 0 ELSE f[first(T)] + it[T \ {first(T)}]
             N == Cardinality(S)
             P == {n \in 0 .. N : \E it : DOMAIN it = SUBSET S /\ Good(n, it)}
  <1>1. /\ N \in Nat
        /\ \A T \in SUBSET S : IsFiniteSet(T) /\ Cardinality(T) \in Nat /\ Cardinality(T) <= N
    BY FS_Subset, FS_CardinalityType
  <1>2. \A T \in SUBSET S : T # {} => first(T) \in T
    OBVIOUS
  <1>3. \A T \in SUBSET S : T # {} => Cardinality(T \ {first(T)}) = Cardinality(T) - 1
    BY <1>1, <1>2, FS_RemoveElement
  <1>4. \A T \in SUBSET S : Cardinality(T) = 0 => T = {}
    BY <1>1, FS_EmptySet
  <1> HIDE DEF first, N
  <1>5. 0 \in P
    <2> DEFINE it == [T \in SUBSET S |-> 0]
    <2>1. \A T \in small(0) : T = {}
      BY <1>1, <1>4
    <2>2. DOMAIN it = SUBSET S /\ Good(0, it)
      BY <2>1
    <2> HIDE DEF it
    <2>3. QED
      BY <1>1, <2>2
  <1>6. ASSUME NEW n \in 1 .. N, n - 1 \in P PROVE n \in P
    <2>1. PICK it : DOMAIN it = SUBSET S /\ Good(n - 1, it)
      BY <1>6
    <2> DEFINE new == [T \in SUBSET S |-> IF T = {} THEN 0 ELSE f[first(T)] + it[T \ {first(T)}]]
    <2>2. \A T \in small(n - 1) : new[T] = it[T]
      BY <2>1
    <2>3. ASSUME NEW T \in small(n), T # {}
          PROVE  T \ {first(T)} \in small(n - 1)
      BY <1>1, <1>3, <2>3
    <2>4. \A T \in small(n) : T # {} => new[T] = f[first(T)] + new[T \ {first(T)}]
      <3>1. ASSUME NEW T \in small(n), T # {} PROVE new[T] = f[first(T)] + new[T \ {first(T)}]
        <4>1. new[T] = f[first(T)] + it[T \ {first(T)}]
          BY <3>1
        <4>2. new[T \ {first(T)}] = it[T \ {first(T)}]
          BY <2>2, <2>3, <3>1
        <4>3. QED
          BY <4>1, <4>2
      <3>2. QED
        BY <3>1
    <2>5. DOMAIN new = SUBSET S /\ new[{}] = 0
      OBVIOUS
    <2> HIDE DEF new
    <2>6. Good(n, new)
      BY <2>4, <2>5
    <2> HIDE DEF Good
    <2>7. QED
      BY <2>5, <2>6
  <1>7. N \in P
    <2> HIDE DEF P
    <2>1. \A i \in 0 .. N : i \in P
      BY <1>1, <1>5, <1>6, Induction
    <2>2. QED
      BY <1>1, <2>1
  <1>8. PICK it : DOMAIN it = SUBSET S /\ Good(N, it)
    BY <1>7
  <1> DEFINE new == [T \in SUBSET S |-> it[T]]
  <1>9. \A T \in SUBSET S : new[T] = IF T = {} THEN 0 ELSE f[first(T)] + new[T \ {first(T)}]
    BY <1>1, <1>8
  <1>10. Sums(new, f, S)
    BY <1>9 DEF Sums, first
  <1> HIDE DEF new
  <1>11. QED
    BY <1>10

\* Whatever the order in which the elements are chosen.
LEMMA SumRemoves ==
  ASSUME NEW S, NEW f, NEW it, Sums(it, f, S)
  PROVE  /\ it[{}] = 0
         /\ \A T \in SUBSET S : it[T] \in Nat /\ \A x \in T : it[T] = f[x] + it[T \ {x}]
  <1> DEFINE first(T) == CHOOSE x \in T : TRUE
             Good(T) == it[T] \in Nat /\ \A x \in T : it[T] = f[x] + it[T \ {x}]
             P == {T \in SUBSET S : ~Good(T)}
  <1>0. IsFiniteSet(S) /\ f \in [S -> Nat]
    BY DEF Sums
  <1>1. \A T \in SUBSET S : it[T] = IF T = {} THEN 0 ELSE f[first(T)] + it[T \ {first(T)}]
    BY DEF Sums
  <1>2. \A T \in SUBSET S : T # {} => first(T) \in T
    OBVIOUS
  <1> HIDE DEF first
  <1> SUFFICES ASSUME P # {} PROVE FALSE
    BY <1>1
  <1>3. PICK T \in P : \A x \in T : T \ {x} \notin P /\ \A y \in T : (T \ {x}) \ {y} \notin P
    <2>1. P \in SUBSET (SUBSET S)
      OBVIOUS
    <2> HIDE DEF P
    <2>2. QED
      BY <1>0, <2>1, Smallest
  <1>4. \A x \in T : Good(T \ {x}) /\ \A y \in T : Good((T \ {x}) \ {y})
    BY <1>3
  <1>5. T # {}
    <2>1. {} \in SUBSET S /\ it[{}] = 0
      BY <1>1
    <2>2. Good({})
      BY <2>1
    <2>3. ~Good(T)
      BY <1>3
    <2>4. QED
      BY <2>2, <2>3
  <1> DEFINE c == first(T)
  <1>6. c \in T /\ f[c] \in Nat /\ it[T] = f[c] + it[T \ {c}]
    BY <1>0, <1>1, <1>2, <1>5
  <1>7. it[T \ {c}] \in Nat /\ it[T] \in Nat
    <2>1. Good(T \ {c})
      BY <1>4, <1>6
    <2>2. it[T \ {c}] \in Nat
      BY <2>1
    <2> HIDE DEF c, Good, P
    <2>3. QED
      BY <1>6, <2>2
  <1>8. ASSUME NEW x \in T PROVE it[T] = f[x] + it[T \ {x}]
    <2>1. CASE x = c
      BY <1>6, <2>1
    <2>2. CASE x # c
      <3>1. x \in T \ {c} /\ c \in T \ {x} /\ (T \ {c}) \ {x} = (T \ {x}) \ {c}
        BY <1>6, <2>2
      <3>a. Good(T \ {c}) /\ Good(T \ {x}) /\ Good((T \ {x}) \ {c})
        BY <1>4, <1>6
      <3>2. it[T \ {c}] = f[x] + it[(T \ {c}) \ {x}]
        BY <3>1, <3>a
      <3>3. it[T \ {x}] = f[c] + it[(T \ {x}) \ {c}]
        BY <3>1, <3>a
      <3>4. f[x] \in Nat /\ it[(T \ {x}) \ {c}] \in Nat
        BY <1>0, <1>3, <3>a
      <3> DEFINE rest == it[(T \ {x}) \ {c}]
      <3>b. it[T \ {c}] = f[x] + rest /\ it[T \ {x}] = f[c] + rest /\ rest \in Nat
        BY <3>1, <3>2, <3>3, <3>4
      <3> HIDE DEF c, Good, P, rest
      <3>5. QED
        BY <1>6, <3>4, <3>b
    <2>3. QED
      BY <2>1, <2>2
  <1>9. QED
    BY <1>7, <1>8

\* Two sums, of f over S and of g over R.  Where the elements of R that S has not are 0 in
\* g, and the others are at most what they are in f, the second is at most the first.
AtMost(j, g, R, i, f, S) ==
  \A U \in SUBSET (S \cup R) :
    (\A x \in R \cap U : (x \in S /\ g[x] <= f[x]) \/ g[x] = 0) => j[R \cap U] <= i[S \cap U]

LEMMA SumAtMost ==
  ASSUME NEW S, NEW f, NEW i, Sums(i, f, S), NEW R, NEW g, NEW j, Sums(j, g, R)
  PROVE  AtMost(j, g, R, i, f, S)
  <1> SUFFICES ASSUME NEW U \in SUBSET (S \cup R),
                      \A x \in R \cap U : (x \in S /\ g[x] <= f[x]) \/ g[x] = 0
               PROVE  j[R \cap U] <= i[S \cap U]
    BY DEF AtMost
  <1> DEFINE Good(T) == j[R \cap T] <= i[S \cap T]
             P == {T \in SUBSET U : ~Good(T)}
  <1>0. IsFiniteSet(S) /\ f \in [S -> Nat] /\ IsFiniteSet(R) /\ g \in [R -> Nat]
    BY DEF Sums
  <1>1. /\ i[{}] = 0
        /\ \A T \in SUBSET S : i[T] \in Nat /\ \A x \in T : i[T] = f[x] + i[T \ {x}]
    BY SumRemoves
  <1>2. /\ j[{}] = 0
        /\ \A T \in SUBSET R : j[T] \in Nat /\ \A x \in T : j[T] = g[x] + j[T \ {x}]
    BY SumRemoves
  <1> SUFFICES ASSUME P # {} PROVE FALSE
    OBVIOUS
  <1>3. PICK T \in P : \A x \in T : T \ {x} \notin P
    <2>1. P \in SUBSET (SUBSET U)
      OBVIOUS
    <2>2. IsFiniteSet(U)
      BY <1>0, FS_Union, FS_Subset
    <2> HIDE DEF P
    <2>3. QED
      BY <2>1, <2>2, Smallest
  <1>4. ~Good(T) /\ T \in SUBSET U /\ \A x \in T : Good(T \ {x})
    BY <1>3
  <1>5. T # {}
    <2>1. R \cap {} = {} /\ S \cap {} = {}
      OBVIOUS
    <2>2. Good({})
      BY <1>1, <1>2, <2>1
    <2>3. QED
      BY <1>4, <2>2
  <1>6. PICK x \in T : TRUE
    BY <1>5
  <1>7. /\ R \cap (T \ {x}) = (R \cap T) \ {x} /\ S \cap (T \ {x}) = (S \cap T) \ {x}
        /\ x \notin R => (R \cap T) \ {x} = R \cap T
        /\ x \notin S => (S \cap T) \ {x} = S \cap T
    OBVIOUS
  <1>8. j[(R \cap T) \ {x}] <= i[(S \cap T) \ {x}]
    BY <1>4, <1>6, <1>7
  <1> DEFINE jr == j[(R \cap T) \ {x}]
             jt == j[R \cap T]
             ir == i[(S \cap T) \ {x}]
             it == i[S \cap T]
  <1>9. jr \in Nat /\ jt \in Nat /\ ir \in Nat /\ it \in Nat
    BY <1>1, <1>2
  <1>10. (x \in R => jt = g[x] + jr /\ g[x] \in Nat) /\ (x \in S => it = f[x] + ir /\ f[x] \in Nat)
    BY <1>0, <1>1, <1>2, <1>6
  <1>11. (x \notin R => jt = jr) /\ (x \notin S => it = ir)
    BY <1>7
  <1>12. x \in R => (x \in S /\ g[x] <= f[x]) \/ g[x] = 0
    BY <1>4, <1>6
  <1>13. ~(jt <= it)
    BY <1>4
  <1> HIDE DEF jr, jt, ir, it
  <1>14. jr <= ir
    BY <1>8 DEF jr, ir
  <1>15. QED
    BY <1>9, <1>10, <1>11, <1>12, <1>13, <1>14
=============================================================================
