------------------------------ MODULE FoldSums ------------------------------
(***************************************************************************)
(* What the sums taken with the folds of the community modules are.        *)
(*                                                                         *)
(* A fold is a function on the subsets of a set, defined by recursion on   *)
(* them: an element is chosen, and what it counts is added to the value of *)
(* the rest.  The facts below say that there is such a function, that what *)
(* is chosen makes no difference, and what follows for sums.               *)
(***************************************************************************)
EXTENDS FiniteSetsExt, SequencesExt, FiniteSetTheorems, TLAPS

(***************************************************************************)
(* A set of subsets of a finite set that has every subset whose proper     *)
(* subsets it has, has them all: well-founded induction with a set in the  *)
(* place of a predicate.                                                   *)
(***************************************************************************)
LEMMA SubsetInduction ==
  ASSUME NEW S, IsFiniteSet(S),
         NEW P \in SUBSET (SUBSET S),
         \A T \in SUBSET S : (\A U \in SUBSET T : U # T => U \in P) => T \in P
  PROVE  \A T \in SUBSET S : T \in P
<1> DEFINE Q == (SUBSET S) \ P
<1> SUFFICES ASSUME Q # {} PROVE FALSE
  OBVIOUS
<1>1. IsWellFoundedOn(StrictSubsetOrdering(S), SUBSET S)
  <2>1. FiniteSubsetsOf(S) = SUBSET S
    BY FS_FiniteSubsetsOfFinite
  <2>2. IsWellFoundedOn(StrictSubsetOrdering(S), FiniteSubsetsOf(S))
    BY FS_StrictSubsetOrderingWellFounded
  <2> QED  BY <2>1, <2>2
<1>2. \E T \in Q : \A U \in Q : ~ (<<U, T>> \in StrictSubsetOrdering(S))
  <2> HIDE DEF Q
  <2>1. Q \subseteq SUBSET S
    BY DEF Q
  <2> QED  BY <1>1, <2>1, WFMin
<1>3. PICK T \in Q : \A U \in Q : ~ (<<U, T>> \in StrictSubsetOrdering(S))
  BY <1>2
<1>4. ASSUME NEW U \in SUBSET T, U # T PROVE U \in P
  BY <1>3, <1>4 DEF StrictSubsetOrdering
<1> QED  BY <1>3, <1>4

-----------------------------------------------------------------------------
(* Solutions of the recursion. *)

\* c chooses an element of every subset of S that has one.
IsChoice(c, S) == \A s \in SUBSET S : s # {} => c[s] \in s

\* The value at s, given the values at smaller sets.
SumStep(c, f, g, s) == IF s = {} THEN 0 ELSE f[c[s]] + g[s \ {c[s]}]

Solves(g, c, f, S) == g = [s \in SUBSET S |-> SumStep(c, f, g, s)]

\* Two solutions agree where both are defined.
LEMMA SolutionsAgree ==
  ASSUME NEW S, IsFiniteSet(S), NEW c, IsChoice(c, S), NEW f,
         NEW T \in SUBSET S, NEW U \in SUBSET S, U \subseteq T,
         NEW g, Solves(g, c, f, T), NEW h, Solves(h, c, f, U)
  PROVE  g[U] = h[U]
<1> DEFINE P == {s \in SUBSET U : g[s] = h[s]}
<1>1. IsFiniteSet(U)
  BY FS_Subset
<1>2. ASSUME NEW s \in SUBSET U, \A r \in SUBSET s : r # s => r \in P
      PROVE  s \in P
  <2>1. g[s] = SumStep(c, f, g, s) /\ h[s] = SumStep(c, f, h, s)
    BY DEF Solves
  <2>2. CASE s = {}
    BY <2>1, <2>2 DEF SumStep
  <2>3. CASE s # {}
    <3>1. c[s] \in s
      BY <2>3 DEF IsChoice
    <3>2. s \ {c[s]} \in P
      BY <1>2, <3>1
    <3> QED  BY <2>1, <2>3, <3>2 DEF SumStep
  <2> QED  BY <2>2, <2>3
<1>3. \A s \in SUBSET U : s \in P
  <2> HIDE DEF P
  <2>1. P \in SUBSET (SUBSET U)
    BY DEF P
  <2> QED  BY <1>1, <1>2, <2>1, SubsetInduction
<1> QED  BY <1>3

\* The recursion has a solution.
LEMMA SolutionExists ==
  ASSUME NEW S, IsFiniteSet(S), NEW c, IsChoice(c, S), NEW f
  PROVE  \E g : Solves(g, c, f, S)
<1> DEFINE P == {T \in SUBSET S : \E g : Solves(g, c, f, T)}
           At(T) == (CHOOSE g : Solves(g, c, f, T))[T]
<1>1. ASSUME NEW T \in SUBSET S, \A U \in SUBSET T : U # T => U \in P
      PROVE  T \in P
  <2> DEFINE g == [s \in SUBSET T |->
                     IF s # T THEN At(s)
                     ELSE IF T = {} THEN 0 ELSE f[c[T]] + At(T \ {c[T]})]
  <2>1. ASSUME NEW s \in SUBSET T PROVE g[s] = SumStep(c, f, g, s)
    <3>1. CASE s = T
      <4>1. CASE T = {}
        BY <3>1, <4>1 DEF SumStep
      <4>2. CASE T # {}
        <5>1. c[T] \in T
          BY <4>2 DEF IsChoice
        <5>2. g[T \ {c[T]}] = At(T \ {c[T]})
          BY <5>1
        <5> HIDE DEF At
        <5> QED  BY <3>1, <4>2, <5>2 DEF SumStep
      <4> QED  BY <4>1, <4>2
    <3>2. CASE s # T
      <4> DEFINE h == CHOOSE i : Solves(i, c, f, s)
      <4>1. Solves(h, c, f, s)
        BY <1>1, <3>2
      <4>2. g[s] = h[s]
        BY <3>2
      <4>3. h[s] = SumStep(c, f, h, s)
        <5> HIDE DEF h
        <5> QED  BY <4>1 DEF Solves
      <4>4. CASE s = {}
        BY <4>2, <4>3, <4>4 DEF SumStep
      <4>5. CASE s # {}
        <5> DEFINE r == s \ {c[s]}
                   k == CHOOSE i : Solves(i, c, f, r)
        <5>1. r \in SUBSET s /\ r # s /\ r # T
          BY <3>2, <4>5 DEF IsChoice
        <5>2. Solves(k, c, f, r)
          <6>1. r \in P
            BY <1>1, <5>1
          <6> QED  BY <6>1
        <5>3. h[r] = k[r]
          <6> HIDE DEF h, k, r
          <6> QED  BY <4>1, <5>1, <5>2, SolutionsAgree
        <5>4. g[r] = k[r]
          BY <5>1
        <5> HIDE DEF g, h, k
        <5> QED  BY <4>2, <4>3, <4>5, <5>3, <5>4 DEF SumStep
      <4> QED  BY <4>4, <4>5
    <3> QED  BY <3>1, <3>2
  <2>2. Solves(g, c, f, T)
    <3>1. g = [s \in SUBSET T |-> g[s]]
      OBVIOUS
    <3> HIDE DEF g
    <3> QED  BY <2>1, <3>1 DEF Solves
  <2> HIDE DEF g
  <2> QED  BY <2>2
<1>2. \A T \in SUBSET S : T \in P
  <2>1. P \in SUBSET (SUBSET S)
    OBVIOUS
  <2> HIDE DEF P
  <2> QED  BY <1>1, <2>1, SubsetInduction
<1> QED  BY <1>2

-----------------------------------------------------------------------------
(* Sums. *)

\* g gives the sum of f over each subset of S.
Sums(g, f, S) ==
  /\ g \in [SUBSET S -> Nat]
  /\ g[{}] = 0
  /\ \A s \in SUBSET S : \A x \in s : g[s] = f[x] + g[s \ {x}]

\* Whatever is chosen, the solution of the recursion gives the sums.
LEMMA SolutionIsSum ==
  ASSUME NEW S, IsFiniteSet(S), NEW c, IsChoice(c, S), NEW f \in [S -> Nat],
         NEW g, Solves(g, c, f, S)
  PROVE  Sums(g, f, S)
<1> DEFINE N == {s \in SUBSET S : g[s] \in Nat}
           P == {s \in SUBSET S : \A x \in s : g[s] = f[x] + g[s \ {x}]}
<1>1. \A s \in SUBSET S : g[s] = SumStep(c, f, g, s)
  BY DEF Solves
<1>2. \A s \in SUBSET S : s # {} =>
         /\ c[s] \in s /\ f[c[s]] \in Nat
         /\ s \ {c[s]} \in SUBSET s /\ s \ {c[s]} # s
         /\ g[s] = f[c[s]] + g[s \ {c[s]}]
  BY <1>1 DEF SumStep, IsChoice
<1>3. g[{}] = 0
  BY <1>1 DEF SumStep
<1>4. \A s \in SUBSET S : s \in N
  <2>1. ASSUME NEW s \in SUBSET S, \A r \in SUBSET s : r # s => r \in N
        PROVE  s \in N
    <3>1. CASE s = {}
      BY <1>3, <3>1
    <3>2. CASE s # {}
      <4>1. g[s \ {c[s]}] \in Nat
        BY <1>2, <2>1, <3>2
      <4> QED  BY <1>2, <3>2, <4>1, SMTT(30)
    <3> QED  BY <3>1, <3>2
  <2>2. N \in SUBSET (SUBSET S)
    OBVIOUS
  <2> HIDE DEF N
  <2> QED  BY <2>1, <2>2, SubsetInduction
<1>5. \A s \in SUBSET S : s \in P
  <2>1. ASSUME NEW s \in SUBSET S, \A r \in SUBSET s : r # s => r \in P
        PROVE  s \in P
    <3> SUFFICES ASSUME NEW x \in s PROVE g[s] = f[x] + g[s \ {x}]
      OBVIOUS
    <3> DEFINE y == c[s]
    <3>1. y \in s /\ g[s] = f[y] + g[s \ {y}]
      BY <1>2
    <3>2. CASE x = y
      BY <3>1, <3>2
    <3>3. CASE x # y
      <4>1. s \ {x} \in P /\ s \ {y} \in P
        BY <2>1, <3>1
      <4>2. (s \ {x}) \ {y} = (s \ {y}) \ {x}
        OBVIOUS
      <4>3. g[s \ {x}] = f[y] + g[(s \ {x}) \ {y}]
        BY <4>1, <3>1, <3>3
      <4>4. g[s \ {y}] = f[x] + g[(s \ {x}) \ {y}]
        BY <4>1, <4>2, <3>3
      <4>5. g[(s \ {x}) \ {y}] \in Nat /\ f[x] \in Nat /\ f[y] \in Nat
        BY <1>4, <3>1
      <4> HIDE DEF y
      <4> QED  BY <3>1, <4>3, <4>4, <4>5
    <3> QED  BY <3>2, <3>3
  <2>2. P \in SUBSET (SUBSET S)
    OBVIOUS
  <2> HIDE DEF P
  <2> QED  BY <2>1, <2>2, SubsetInduction
<1>6. g \in [SUBSET S -> Nat]
  <2>1. g = [s \in SUBSET S |-> SumStep(c, f, g, s)]
    BY DEF Solves
  <2>2. \A s \in SUBSET S : SumStep(c, f, g, s) \in Nat
    BY <1>1, <1>4
  <2> QED  BY <2>1, <2>2
<1> QED  BY <1>3, <1>5, <1>6 DEF Sums

\* Sums of functions that agree agree, whatever they are part of.
LEMMA SumsAgree ==
  ASSUME NEW S, NEW T, NEW U, IsFiniteSet(U), U \subseteq S, U \subseteq T,
         NEW f, NEW e, NEW g, NEW h, Sums(g, f, S), Sums(h, e, T),
         \A x \in U : f[x] = e[x]
  PROVE  g[U] = h[U]
<1> DEFINE P == {s \in SUBSET U : g[s] = h[s]}
<1>1. ASSUME NEW s \in SUBSET U, \A r \in SUBSET s : r # s => r \in P
      PROVE  s \in P
  <2>1. CASE s = {}
    BY <2>1 DEF Sums
  <2>2. CASE s # {}
    <3>1. PICK x \in s : TRUE
      BY <2>2
    <3>2. g[s] = f[x] + g[s \ {x}] /\ h[s] = e[x] + h[s \ {x}]
      BY DEF Sums
    <3>3. s \ {x} \in P
      BY <1>1
    <3> QED  BY <3>2, <3>3
  <2> QED  BY <2>1, <2>2
<1>2. \A s \in SUBSET U : s \in P
  <2>1. P \in SUBSET (SUBSET U)
    OBVIOUS
  <2> HIDE DEF P
  <2> QED  BY <1>1, <2>1, SubsetInduction
<1> QED  BY <1>2

\* One more term is added to the sum of the rest.
LEMMA SumsAppend ==
  ASSUME NEW n \in Nat, NEW f, NEW e, NEW g, NEW h,
         Sums(g, f, 1 .. n), Sums(h, e, 1 .. n + 1),
         \A i \in 1 .. n : f[i] = e[i], e[n + 1] \in Nat
  PROVE  h[1 .. n + 1] = g[1 .. n] + e[n + 1]
<1> DEFINE A == 1 .. n
           B == 1 .. n + 1
<1>1. IsFiniteSet(A)
  BY FS_Interval
<1>2. A \subseteq A /\ A \subseteq B /\ B \in SUBSET B
  OBVIOUS
<1>3. n + 1 \in B /\ B \ {n + 1} = A
  OBVIOUS
<1>4. \A i \in A : f[i] = e[i]
  OBVIOUS
<1>5. Sums(g, f, A) /\ Sums(h, e, B)
  OBVIOUS
<1>6. e[n + 1] \in Nat
  OBVIOUS
<1> HIDE DEF A, B
<1>7. g[A] = h[A]
  BY <1>1, <1>2, <1>4, <1>5, SumsAgree
<1>8. \A x \in B : h[B] = e[x] + h[B \ {x}]
  BY <1>2, <1>5 DEF Sums
<1>9. g[A] \in Nat
  <2>1. g \in [SUBSET A -> Nat] /\ A \in SUBSET A
    BY <1>2, <1>5 DEF Sums
  <2> QED  BY <2>1
<1>10. h[B] = e[n + 1] + h[A]
  BY <1>3, <1>8
<1>11. h[B] = g[A] + e[n + 1]
  BY <1>6, <1>7, <1>9, <1>10
<1> QED  BY <1>11 DEF A, B

-----------------------------------------------------------------------------
(* A set of natural numbers that has an element has a least one. *)
LEMMA LeastElement ==
  ASSUME NEW S \in SUBSET Nat, S # {}
  PROVE  \E m \in S : \A n \in S : m <= n
<1>1. PICK k \in S : TRUE
  OBVIOUS
<1> DEFINE T == S \cap (0 .. k)
           P == {U \in SUBSET T : U # {} => \E m \in U : \A n \in U : m <= n}
<1>2. IsFiniteSet(T)
  <2>1. IsFiniteSet(0 .. k) /\ T \in SUBSET (0 .. k)
    BY FS_Interval
  <2> QED  BY <2>1, FS_Subset
<1>3. ASSUME NEW U \in SUBSET T, \A V \in SUBSET U : V # U => V \in P
      PROVE  U \in P
  <2> SUFFICES ASSUME U # {} PROVE \E m \in U : \A n \in U : m <= n
    OBVIOUS
  <2>1. PICK x \in U : TRUE
    OBVIOUS
  <2>2. U \ {x} \in P /\ U \subseteq Nat
    BY <1>3
  <2>3. CASE U \ {x} = {}
    <3>1. U = {x}
      BY <2>3
    <3> QED  BY <2>2, <3>1
  <2>4. CASE U \ {x} # {}
    <3>1. PICK y \in U \ {x} : \A n \in U \ {x} : y <= n
      BY <2>2, <2>4
    <3>2. CASE x <= y
      <4>1. \A n \in U : x <= n
        BY <2>2, <3>1, <3>2
      <4> QED  BY <4>1
    <3>3. CASE ~(x <= y)
      <4>1. \A n \in U : y <= n
        BY <2>2, <3>1, <3>3
      <4> QED  BY <4>1
    <3> QED  BY <3>2, <3>3
  <2> QED  BY <2>3, <2>4
<1>4. T \in P
  <2>1. P \in SUBSET (SUBSET T)
    OBVIOUS
  <2> HIDE DEF P, T
  <2>2. \A U \in SUBSET T : U \in P
    BY <1>2, <1>3, <2>1, SubsetInduction
  <2> QED  BY <2>2
<1>5. PICK m \in T : \A n \in T : m <= n
  BY <1>1, <1>4
<1>6. ASSUME NEW n \in S PROVE m <= n
  BY <1>1, <1>5
<1> QED  BY <1>5, <1>6

-----------------------------------------------------------------------------
(* SumFunctionOnSet. *)

LEMMA SumOnSetIsSum ==
  ASSUME NEW S, IsFiniteSet(S), NEW f, \A x \in S : f[x] \in Nat
  PROVE  \E g : Sums(g, f, S) /\ SumFunctionOnSet(f, S) = g[S]
<1> DEFINE c == [s \in SUBSET S |-> CHOOSE x \in s : TRUE]
           e == [x \in S |-> f[x]]
           Term(x) == f[x]
           Is(g) == g = [s \in SUBSET S |->
                      IF s = {} THEN 0
                      ELSE Term(CHOOSE x \in s : TRUE) + g[s \ {CHOOSE x \in s : TRUE}]]
           it == CHOOSE g : Is(g)
<1>1. IsChoice(c, S)
  BY DEF IsChoice
<1>2. e \in [S -> Nat]
  OBVIOUS
<1>3. ASSUME NEW g PROVE Solves(g, c, e, S) <=> Is(g)
  <2>1. \A x \in S : e[x] = Term(x)
    OBVIOUS
  <2> HIDE DEF e, Term
  <2> QED  BY <2>1, ZenonT(30) DEF Solves, SumStep
<1>4. Solves(it, c, e, S)
  <2>1. PICK g : Solves(g, c, e, S)
    <3> HIDE DEF c, e
    <3> QED  BY <1>1, SolutionExists
  <2> HIDE DEF c, Is, e
  <2> QED  BY <2>1, <1>3
<1>5. Sums(it, e, S)
  <2> HIDE DEF it, c, e
  <2> QED  BY <1>1, <1>2, <1>4, SolutionIsSum
<1>6. SumFunctionOnSet(f, S) = it[S]
  BY DEF SumFunctionOnSet, FoldFunctionOnSet, MapThenFoldSet
<1>7. Sums(it, f, S)
  <2> HIDE DEF it
  <2> QED  BY <1>5 DEF Sums
<1> HIDE DEF it
<1> QED  BY <1>6, <1>7

\* The sum is a number; a term can be taken out of it.
LEMMA SumOnSetFacts ==
  ASSUME NEW S, IsFiniteSet(S), NEW f, \A x \in S : f[x] \in Nat
  PROVE  /\ SumFunctionOnSet(f, S) \in Nat
         /\ S = {} => SumFunctionOnSet(f, S) = 0
         /\ \A x \in S : SumFunctionOnSet(f, S) = f[x] + SumFunctionOnSet(f, S \ {x})
<1>1. PICK g : Sums(g, f, S) /\ SumFunctionOnSet(f, S) = g[S]
  BY SumOnSetIsSum
<1>2. ASSUME NEW x \in S PROVE SumFunctionOnSet(f, S) = f[x] + SumFunctionOnSet(f, S \ {x})
  <2> DEFINE R == S \ {x}
  <2>1. IsFiniteSet(R) /\ R \subseteq S /\ \A y \in R : f[y] \in Nat
    BY FS_Subset
  <2>2. PICK h : Sums(h, f, R) /\ SumFunctionOnSet(f, R) = h[R]
    <3> HIDE DEF R
    <3> QED  BY <2>1, SumOnSetIsSum
  <2>3. g[R] = h[R]
    <3> HIDE DEF R
    <3> QED  BY <1>1, <2>1, <2>2, SumsAgree
  <2>4. g[S] = f[x] + g[R]
    BY <1>1 DEF Sums
  <2> QED  BY <1>1, <2>2, <2>3, <2>4
<1> QED  BY <1>1, <1>2 DEF Sums

\* The sum of values that are all 0.
LEMMA SumOnSetZero ==
  ASSUME NEW S, IsFiniteSet(S), NEW f, \A x \in S : f[x] = 0
  PROVE  SumFunctionOnSet(f, S) = 0
<1> DEFINE P == {T \in SUBSET S : SumFunctionOnSet(f, T) = 0}
<1>1. ASSUME NEW T \in SUBSET S, \A U \in SUBSET T : U # T => U \in P PROVE T \in P
  <2>1. IsFiniteSet(T) /\ \A x \in T : f[x] \in Nat
    BY FS_Subset
  <2>2. /\ T = {} => SumFunctionOnSet(f, T) = 0
        /\ \A x \in T : SumFunctionOnSet(f, T) = f[x] + SumFunctionOnSet(f, T \ {x})
    BY <2>1, SumOnSetFacts
  <2>3. ASSUME T # {} PROVE SumFunctionOnSet(f, T) = 0
    <3>1. PICK x \in T : TRUE
      BY <2>3
    <3>2. f[x] = 0 /\ SumFunctionOnSet(f, T \ {x}) = 0
      BY <1>1, <3>1
    <3> QED  BY <2>2, <3>2
  <2> QED  BY <2>2, <2>3
<1>2. P \in SUBSET (SUBSET S) /\ S \in SUBSET S
  OBVIOUS
<1>3. S \in P
  <2> HIDE DEF P
  <2> QED  BY <1>1, <1>2, SubsetInduction
<1> QED  BY <1>3

\* Sums of no smaller terms are no smaller; of equal terms they are equal.
LEMMA SumOnSetGrows ==
  ASSUME NEW S, IsFiniteSet(S), NEW f, NEW e,
         \A x \in S : f[x] \in Nat /\ e[x] \in Nat /\ f[x] <= e[x]
  PROVE  SumFunctionOnSet(f, S) <= SumFunctionOnSet(e, S)
<1> DEFINE P == {T \in SUBSET S : SumFunctionOnSet(f, T) <= SumFunctionOnSet(e, T)}
<1>1. ASSUME NEW T \in SUBSET S, \A U \in SUBSET T : U # T => U \in P PROVE T \in P
  <2>1. IsFiniteSet(T)
    BY FS_Subset
  <2>2. /\ SumFunctionOnSet(f, T) \in Nat /\ SumFunctionOnSet(e, T) \in Nat
        /\ T = {} => SumFunctionOnSet(f, T) = 0
        /\ \A x \in T : /\ SumFunctionOnSet(f, T) = f[x] + SumFunctionOnSet(f, T \ {x})
                        /\ SumFunctionOnSet(e, T) = e[x] + SumFunctionOnSet(e, T \ {x})
    BY <2>1, SumOnSetFacts
  <2>3. CASE T = {}
    BY <2>2, <2>3
  <2>4. CASE T # {}
    <3>1. PICK x \in T : TRUE
      BY <2>4
    <3>2. /\ SumFunctionOnSet(f, T \ {x}) <= SumFunctionOnSet(e, T \ {x})
          /\ IsFiniteSet(T \ {x})
      BY <1>1, <2>1, FS_Subset
    <3>3. SumFunctionOnSet(f, T \ {x}) \in Nat /\ SumFunctionOnSet(e, T \ {x}) \in Nat
      BY <3>2, SumOnSetFacts
    <3>4. f[x] \in Nat /\ e[x] \in Nat /\ f[x] <= e[x]
      OBVIOUS
    <3> QED  BY <2>2, <3>2, <3>3, <3>4
  <2> QED  BY <2>3, <2>4
<1>2. S \in P
  <2>1. P \in SUBSET (SUBSET S)
    OBVIOUS
  <2> HIDE DEF P
  <2> QED  BY <1>1, <2>1, SubsetInduction
<1> QED  BY <1>2

LEMMA SumOnSetAgrees ==
  ASSUME NEW S, IsFiniteSet(S), NEW f, NEW e, \A x \in S : f[x] \in Nat /\ f[x] = e[x]
  PROVE  SumFunctionOnSet(f, S) = SumFunctionOnSet(e, S)
<1>1. \A x \in S : f[x] \in Nat /\ e[x] \in Nat /\ f[x] <= e[x] /\ e[x] <= f[x]
  OBVIOUS
<1>2. SumFunctionOnSet(f, S) <= SumFunctionOnSet(e, S)
  BY <1>1, SumOnSetGrows
<1>3. SumFunctionOnSet(e, S) <= SumFunctionOnSet(f, S)
  BY <1>1, SumOnSetGrows
<1>4. SumFunctionOnSet(f, S) \in Nat /\ SumFunctionOnSet(e, S) \in Nat
  BY <1>1, SumOnSetFacts
<1> QED  BY <1>2, <1>3, <1>4

\* One term is larger by a.
LEMMA SumOnSetOneMore ==
  ASSUME NEW S, IsFiniteSet(S), NEW f, NEW e, NEW x \in S, NEW a \in Nat,
         \A y \in S : f[y] \in Nat /\ (y # x => e[y] = f[y]), e[x] = f[x] + a
  PROVE  SumFunctionOnSet(e, S) = SumFunctionOnSet(f, S) + a
<1>1. IsFiniteSet(S \ {x}) /\ \A y \in S \ {x} : f[y] \in Nat /\ f[y] = e[y]
  BY FS_Subset
<1>2. SumFunctionOnSet(f, S \ {x}) = SumFunctionOnSet(e, S \ {x})
  BY <1>1, SumOnSetAgrees
<1>3. SumFunctionOnSet(f, S \ {x}) \in Nat
  BY <1>1, SumOnSetFacts
<1>4. \A y \in S : f[y] \in Nat /\ e[y] \in Nat
  OBVIOUS
<1>5. /\ SumFunctionOnSet(f, S) = f[x] + SumFunctionOnSet(f, S \ {x})
      /\ SumFunctionOnSet(e, S) = e[x] + SumFunctionOnSet(e, S \ {x})
  BY <1>4, SumOnSetFacts
<1>6. e[x] = f[x] + a /\ f[x] \in Nat
  OBVIOUS
<1> QED  BY <1>2, <1>3, <1>5, <1>6

\* The sum of two sets without common elements.
LEMMA SumOnSetUnion ==
  ASSUME NEW A, NEW B, IsFiniteSet(A), IsFiniteSet(B), A \cap B = {},
         NEW f, \A x \in A \cup B : f[x] \in Nat
  PROVE  SumFunctionOnSet(f, A \cup B) = SumFunctionOnSet(f, A) + SumFunctionOnSet(f, B)
<1> DEFINE P == {T \in SUBSET A :
                   SumFunctionOnSet(f, T \cup B) = SumFunctionOnSet(f, T) + SumFunctionOnSet(f, B)}
<1>1. ASSUME NEW T \in SUBSET A, \A U \in SUBSET T : U # T => U \in P PROVE T \in P
  <2>1. IsFiniteSet(T) /\ IsFiniteSet(T \cup B)
    BY FS_Subset, FS_Union
  <2>2. /\ SumFunctionOnSet(f, B) \in Nat
        /\ T = {} => SumFunctionOnSet(f, T) = 0
        /\ \A x \in T : SumFunctionOnSet(f, T) = f[x] + SumFunctionOnSet(f, T \ {x})
        /\ \A x \in T \cup B : SumFunctionOnSet(f, T \cup B)
                                 = f[x] + SumFunctionOnSet(f, (T \cup B) \ {x})
    <3>1. \A x \in T \cup B : f[x] \in Nat
      OBVIOUS
    <3> QED  BY <2>1, <3>1, SumOnSetFacts
  <2>3. CASE T = {}
    <3>1. T \cup B = B
      BY <2>3
    <3> QED  BY <2>2, <2>3, <3>1
  <2>4. CASE T # {}
    <3>1. PICK x \in T : TRUE
      BY <2>4
    <3>2. (T \cup B) \ {x} = (T \ {x}) \cup B /\ T \ {x} # T
      BY <3>1
    <3>3. SumFunctionOnSet(f, (T \ {x}) \cup B)
            = SumFunctionOnSet(f, T \ {x}) + SumFunctionOnSet(f, B)
      BY <1>1, <3>2
    <3>4. SumFunctionOnSet(f, T \ {x}) \in Nat
      <4>1. IsFiniteSet(T \ {x}) /\ \A y \in T \ {x} : f[y] \in Nat
        BY <2>1, FS_Subset
      <4> QED  BY <4>1, SumOnSetFacts
    <3>5. f[x] \in Nat
      OBVIOUS
    <3>6. /\ SumFunctionOnSet(f, T) = f[x] + SumFunctionOnSet(f, T \ {x})
          /\ SumFunctionOnSet(f, T \cup B) = f[x] + SumFunctionOnSet(f, (T \ {x}) \cup B)
      BY <2>2, <3>2
    <3>7. SumFunctionOnSet(f, T \cup B) = SumFunctionOnSet(f, T) + SumFunctionOnSet(f, B)
      BY <2>2, <3>3, <3>4, <3>5, <3>6
    <3> QED  BY <3>7
  <2> QED  BY <2>3, <2>4
<1>2. A \in P
  <2>1. P \in SUBSET (SUBSET A)
    OBVIOUS
  <2> HIDE DEF P
  <2> QED  BY <1>1, <2>1, SubsetInduction
<1> QED  BY <1>2

\* The sum of a set, from the sums of its parts, which key tells apart.
Part(S, key, D) == {x \in S : key[x] \in D}

SumsParts(e, f, key, S, D) ==
  /\ IsFiniteSet(S) /\ IsFiniteSet(D) /\ \A x \in S : f[x] \in Nat
  /\ \A d \in D : e[d] = SumFunctionOnSet(f, Part(S, key, {d}))

LEMMA SumOnSetParts ==
  ASSUME NEW e, NEW f, NEW key, NEW S, NEW D, SumsParts(e, f, key, S, D)
  PROVE  SumFunctionOnSet(e, D) = SumFunctionOnSet(f, Part(S, key, D))
<1> USE DEF SumsParts
<1> DEFINE P == {T \in SUBSET D : SumFunctionOnSet(e, T) = SumFunctionOnSet(f, Part(S, key, T))}
<1>1. \A T : IsFiniteSet(Part(S, key, T)) /\ \A x \in Part(S, key, T) : f[x] \in Nat
  BY FS_Subset DEF Part
<1>2. \A d \in D : e[d] = SumFunctionOnSet(f, Part(S, key, {d}))
  OBVIOUS
<1>3. \A d \in D : e[d] \in Nat
  <2> QED  BY <1>1, <1>2, SumOnSetFacts
<1>4. ASSUME NEW T \in SUBSET D, \A U \in SUBSET T : U # T => U \in P PROVE T \in P
  <2>1. /\ IsFiniteSet(T)
        /\ \A d \in T : e[d] \in Nat
    BY <1>3, FS_Subset
  <2>2. /\ T = {} => SumFunctionOnSet(e, T) = 0
        /\ \A d \in T : SumFunctionOnSet(e, T) = e[d] + SumFunctionOnSet(e, T \ {d})
    BY <2>1, SumOnSetFacts
  <2>3. CASE T = {}
    <3>1. Part(S, key, T) = {}
      BY <2>3 DEF Part
    <3>2. SumFunctionOnSet(f, Part(S, key, T)) = 0
      <4> QED  BY <1>1, <3>1, SumOnSetFacts
    <3> QED  BY <2>2, <2>3, <3>2
  <2>4. CASE T # {}
    <3>1. PICK d \in T : TRUE
      BY <2>4
    <3>2. /\ Part(S, key, T) = Part(S, key, {d}) \cup Part(S, key, T \ {d})
          /\ Part(S, key, {d}) \cap Part(S, key, T \ {d}) = {}
      BY <3>1 DEF Part
    <3>3. SumFunctionOnSet(e, T \ {d}) = SumFunctionOnSet(f, Part(S, key, T \ {d}))
      BY <1>4, <3>1
    <3>4. SumFunctionOnSet(f, Part(S, key, T))
            = SumFunctionOnSet(f, Part(S, key, {d})) + SumFunctionOnSet(f, Part(S, key, T \ {d}))
      <4> DEFINE Q == Part(S, key, {d})
                 R == Part(S, key, T \ {d})
      <4>1. IsFiniteSet(Q) /\ IsFiniteSet(R) /\ Q \cap R = {} /\ \A x \in Q \cup R : f[x] \in Nat
        BY <1>1, <3>2
      <4> HIDE DEF Q, R
      <4>2. SumFunctionOnSet(f, Q \cup R) = SumFunctionOnSet(f, Q) + SumFunctionOnSet(f, R)
        BY <4>1, SumOnSetUnion
      <4>3. Part(S, key, T) = Q \cup R
        BY <3>2 DEF Q, R
      <4> QED  BY <4>2, <4>3 DEF Q, R
    <3>5. e[d] = SumFunctionOnSet(f, Part(S, key, {d}))
      BY <1>2
    <3>6. SumFunctionOnSet(e, T) = SumFunctionOnSet(f, Part(S, key, T))
      BY <2>2, <3>3, <3>4, <3>5
    <3> QED  BY <3>6
  <2> QED  BY <2>3, <2>4
<1>5. D \in P
  <2>1. P \in SUBSET (SUBSET D)
    OBVIOUS
  <2> HIDE DEF P
  <2> QED  BY <1>4, <2>1, SubsetInduction
<1> QED  BY <1>5

-----------------------------------------------------------------------------
(* Folds over a sequence. *)

\* What holds of 0, and of a number up to n when it holds of the one before,
\* holds of all numbers up to n.
LEMMA PrefixInduction ==
  ASSUME NEW n \in Nat, NEW P, 0 \in P, \A i \in 1 .. n : i - 1 \in P => i \in P
  PROVE  \A i \in 0 .. n : i \in P
<1> DEFINE W == {i \in 0 .. n : i \notin P}
<1> SUFFICES ASSUME W # {} PROVE FALSE
  OBVIOUS
<1>1. W \in SUBSET Nat
  OBVIOUS
<1>2. PICK m \in W : \A i \in W : m <= i
  <2> HIDE DEF W
  <2> QED  BY <1>1, LeastElement
<1>3. m \in 1 .. n
  BY <1>2
<1>4. m - 1 \in 0 .. n /\ ~ (m <= m - 1)
  BY <1>3
<1>5. m - 1 \in P
  BY <1>2, <1>4
<1> QED  BY <1>2, <1>3, <1>5

\* The greatest element of a set of numbers is one of them.
LEMMA MaxFacts ==
  ASSUME NEW n \in Nat
  PROVE  /\ \A s \in SUBSET (1 .. n) : s # {} => Max(s) \in s
         /\ \A i \in 1 .. n : Max(1 .. i) = i /\ (1 .. i) \ {i} = 1 .. i - 1
<1>1. ASSUME NEW s \in SUBSET (1 .. n), s # {} PROVE Max(s) \in s
  <2> DEFINE W == {n - x : x \in s}
  <2>1. W \in SUBSET Nat /\ W # {}
    <3>1. \A x \in s : n - x \in Nat
      OBVIOUS
    <3>2. PICK x \in s : TRUE
      BY <1>1
    <3> QED  BY <3>1, <3>2
  <2>2. PICK w \in W : \A v \in W : w <= v
    <3> HIDE DEF W
    <3> QED  BY <2>1, LeastElement
  <2>3. PICK x \in s : w = n - x
    BY <2>2
  <2>4. \A y \in s : n - x <= n - y
    BY <2>2, <2>3
  <2>5. \A y \in s : x >= y
    BY <1>1, <2>4
  <2> QED  BY <2>5 DEF Max
<1>2. ASSUME NEW i \in 1 .. n PROVE Max(1 .. i) = i /\ (1 .. i) \ {i} = 1 .. i - 1
  <2>1. \A x \in 1 .. i : (\A y \in 1 .. i : x >= y) <=> x = i
    OBVIOUS
  <2>2. i \in 1 .. i
    OBVIOUS
  <2>3. Max(1 .. i) = i
    BY <2>1, <2>2 DEF Max
  <2> QED  BY <2>3
<1> QED  BY <1>1, <1>2

\* g is the fold of G over the subsets of T, from z.
FoldsTo(g, c, G, z, T) ==
  \A s \in SUBSET T : g[s] = IF s = {} THEN z ELSE G[<<g[s \ {c[s]}], c[s]>>]

LEMMA FoldsAgree ==
  ASSUME NEW S, IsFiniteSet(S), NEW c, IsChoice(c, S), NEW G, NEW z,
         NEW T \in SUBSET S, NEW U \in SUBSET T,
         NEW g, FoldsTo(g, c, G, z, T), NEW h, FoldsTo(h, c, G, z, U)
  PROVE  g[U] = h[U]
<1> DEFINE P == {s \in SUBSET U : g[s] = h[s]}
<1>1. IsFiniteSet(U)
  BY FS_Subset
<1>2. ASSUME NEW s \in SUBSET U, \A r \in SUBSET s : r # s => r \in P
      PROVE  s \in P
  <2>1. /\ g[s] = IF s = {} THEN z ELSE G[<<g[s \ {c[s]}], c[s]>>]
        /\ h[s] = IF s = {} THEN z ELSE G[<<h[s \ {c[s]}], c[s]>>]
    BY DEF FoldsTo
  <2>2. CASE s = {}
    BY <2>1, <2>2
  <2>3. CASE s # {}
    <3>1. c[s] \in s
      BY <2>3 DEF IsChoice
    <3>2. s \ {c[s]} \in P
      BY <1>2, <3>1
    <3> QED  BY <2>1, <2>3, <3>2
  <2> QED  BY <2>2, <2>3
<1>3. P \in SUBSET (SUBSET U) /\ U \in SUBSET U
  OBVIOUS
<1>4. U \in P
  <2> HIDE DEF P
  <2> QED  BY <1>1, <1>2, <1>3, SubsetInduction
<1> QED  BY <1>4

\* There is such a fold, and its values are what G gives.
LEMMA FoldExists ==
  ASSUME NEW S, IsFiniteSet(S), NEW c, IsChoice(c, S),
         NEW X, NEW z \in X, NEW G \in [X \X S -> X]
  PROVE  \E g \in [SUBSET S -> X] : FoldsTo(g, c, G, z, S)
<1> DEFINE P == {T \in SUBSET S : \E g : FoldsTo(g, c, G, z, T)}
           Of(T) == CHOOSE g : FoldsTo(g, c, G, z, T)
           At(T) == Of(T)[T]
<1>1. ASSUME NEW T \in SUBSET S, \A U \in SUBSET T : U # T => U \in P
      PROVE  T \in P
  <2> DEFINE g == [s \in SUBSET T |->
                     IF s = {} THEN z
                     ELSE IF s = T THEN G[<<At(T \ {c[T]}), c[T]>>]
                     ELSE At(s)]
  <2>1. \A s \in SUBSET T : s # {} => c[s] \in s /\ s \ {c[s]} \in SUBSET T /\ s \ {c[s]} # T
    BY DEF IsChoice
  <2>2. \A s \in SUBSET T : s # T => FoldsTo(Of(s), c, G, z, s)
    BY <1>1
  <2>3. \A s \in SUBSET T : s # T => g[s] = At(s)
    <3>1. ASSUME {} # T PROVE At({}) = z
      BY <2>2, <3>1 DEF FoldsTo
    <3> HIDE DEF At
    <3> QED  BY <3>1
  <2>4. ASSUME NEW s \in SUBSET T, s # {} PROVE g[s] = G[<<g[s \ {c[s]}], c[s]>>]
    <3> DEFINE r == s \ {c[s]}
    <3>1. r \in SUBSET T /\ r # T /\ r \in SUBSET s
      BY <2>1, <2>4
    <3>2. g[r] = At(r)
      <4> HIDE DEF r, g, At
      <4> QED  BY <2>3, <3>1
    <3>3. CASE s = T
      <4>1. g[s] = G[<<At(r), c[s]>>]
        <5> HIDE DEF At
        <5> QED  BY <2>4, <3>3
      <4> HIDE DEF g, At
      <4> QED  BY <3>2, <4>1
    <3>4. CASE s # T
      <4>1. FoldsTo(Of(s), c, G, z, s) /\ FoldsTo(Of(r), c, G, z, r)
        <5> HIDE DEF r, Of
        <5> QED  BY <2>2, <3>1, <3>4
      <4>2. Of(s)[r] = Of(r)[r]
        <5> HIDE DEF r, Of
        <5>1. s \in SUBSET S
          OBVIOUS
        <5> QED  BY <3>1, <4>1, <5>1, FoldsAgree
      <4>3. Of(s)[s] = G[<<Of(s)[r], c[s]>>]
        <5> HIDE DEF Of
        <5> QED  BY <2>4, <4>1 DEF FoldsTo
      <4>4. g[s] = Of(s)[s] /\ g[r] = Of(r)[r]
        <5> HIDE DEF g, r, Of
        <5> QED  BY <2>3, <3>2, <3>4
      <4> HIDE DEF g, Of
      <4> QED  BY <4>2, <4>3, <4>4
    <3> QED  BY <3>3, <3>4
  <2>5. g[{}] = z
    OBVIOUS
  <2>6. FoldsTo(g, c, G, z, T)
    <3> HIDE DEF g
    <3> QED  BY <2>4, <2>5 DEF FoldsTo
  <2> HIDE DEF g
  <2> QED  BY <2>6
<1>2. P \in SUBSET (SUBSET S) /\ S \in SUBSET S
  OBVIOUS
<1>3. S \in P
  <2> HIDE DEF P
  <2> QED  BY <1>1, <1>2, SubsetInduction
<1>4. PICK g : FoldsTo(g, c, G, z, S)
  BY <1>3
<1> DEFINE Q == {s \in SUBSET S : g[s] \in X}
<1>5. ASSUME NEW s \in SUBSET S, \A r \in SUBSET s : r # s => r \in Q PROVE s \in Q
  <2>1. g[s] = IF s = {} THEN z ELSE G[<<g[s \ {c[s]}], c[s]>>]
    BY <1>4 DEF FoldsTo
  <2>2. CASE s = {}
    BY <2>1, <2>2
  <2>3. CASE s # {}
    <3>1. c[s] \in s /\ s \ {c[s]} \in Q
      BY <1>5, <2>3 DEF IsChoice
    <3>2. <<g[s \ {c[s]}], c[s]>> \in X \X S
      BY <3>1
    <3> QED  BY <2>1, <2>3, <3>2
  <2> QED  BY <2>2, <2>3
<1>6. \A s \in SUBSET S : s \in Q
  <2>1. Q \in SUBSET (SUBSET S)
    OBVIOUS
  <2> HIDE DEF Q
  <2> QED  BY <1>5, <2>1, SubsetInduction
<1> DEFINE h == [s \in SUBSET S |-> g[s]]
<1>7. h \in [SUBSET S -> X]
  BY <1>6
<1>8. FoldsTo(h, c, G, z, S)
  <2>1. \A s \in SUBSET S : h[s] = g[s] /\ h[s \ {c[s]}] = g[s \ {c[s]}]
    OBVIOUS
  <2> HIDE DEF h
  <2> QED  BY <1>4, <2>1 DEF FoldsTo
<1> HIDE DEF h
<1> QED  BY <1>7, <1>8

\* The folds that FoldLeft takes: the greatest place comes last.
LeftFolds(g, G, z, n) ==
  \A s \in SUBSET (1 .. n) : g[s] = IF s = {} THEN z ELSE G[<<g[s \ {Max(s)}], Max(s)>>]

LEMMA LeftFoldExists ==
  ASSUME NEW n \in Nat, NEW X, NEW z \in X, NEW G \in [X \X (1 .. n) -> X]
  PROVE  \E g \in [SUBSET (1 .. n) -> X] : LeftFolds(g, G, z, n)
<1> DEFINE S == 1 .. n
           c == [s \in SUBSET S |-> Max(s)]
<1>1. IsFiniteSet(S)
  BY FS_Interval
<1>2. IsChoice(c, S)
  BY MaxFacts DEF IsChoice
<1>3. PICK g \in [SUBSET S -> X] : FoldsTo(g, c, G, z, S)
  <2>1. G \in [X \X S -> X]
    OBVIOUS
  <2> HIDE DEF S, c
  <2> QED  BY <1>1, <1>2, <2>1, FoldExists
<1>4. \A s \in SUBSET S : c[s] = Max(s)
  OBVIOUS
<1>5. \A s \in SUBSET S : g[s] = IF s = {} THEN z ELSE G[<<g[s \ {Max(s)}], Max(s)>>]
  <2> HIDE DEF c
  <2> QED  BY <1>3, <1>4 DEF FoldsTo
<1> QED  BY <1>5 DEF LeftFolds

=============================================================================
