----------------------------- MODULE Induction -----------------------------
(***************************************************************************)
(* Lemmas about data that is defined by recursion: induction over the      *)
(* natural numbers and the existence of recursive functions, and sums over *)
(* finite sets.  The theorems of the library on induction quantify over a  *)
(* predicate; these quantify over sets, and follow from the theorem that a *)
(* set of natural numbers has a least element.                             *)
(***************************************************************************)
EXTENDS Integers, FiniteSets, FiniteSetsExt, Functions, WellFoundedInduction, FiniteSetTheorems, TLAPS

\* A set of natural numbers that is not empty has a least element: the library's
\* theorem that < is well-founded on Nat, read as a fact about sets.
LEMMA LeastNumber ==
    ASSUME NEW T \in SUBSET Nat, T # {}
    PROVE  \E x \in T : \A y \in T : x <= y
  <1>1. PICK x \in T : \A y \in T : ~ (<<y, x>> \in OpToRel(<, Nat))
    BY NatLessThanWellFounded, WFMin
  <1>2. \A y \in Nat : <<y, x>> \in OpToRel(<, Nat) <=> y < x
    BY <1>1 DEF OpToRel
  <1>3. \A y \in T : x <= y
    <2> TAKE y \in T
    <2>1. ~ (y < x) /\ x \in Nat /\ y \in Nat
      BY <1>1, <1>2
    <2>2. QED
      BY <2>1
  <1>4. QED
    BY <1>3

\* Induction over the natural numbers, about a set in place of a predicate.
LEMMA Induct ==
    ASSUME NEW T, 0 \in T, \A n \in Nat : n \in T => n + 1 \in T
    PROVE  Nat \subseteq T
  <1> SUFFICES ASSUME Nat \ T # {}
               PROVE  FALSE
    OBVIOUS
  <1>1. PICK x \in Nat \ T : \A y \in Nat \ T : x <= y
    <2> DEFINE U == Nat \ T
    <2>1. U \in SUBSET Nat /\ U # {}
      OBVIOUS
    <2> HIDE DEF U
    <2>2. \E x \in U : \A y \in U : x <= y
      BY <2>1, LeastNumber
    <2>3. QED
      BY <2>2 DEF U
  <1>2. x # 0 /\ x - 1 \in Nat /\ x - 1 \in T /\ (x - 1) + 1 = x
    BY <1>1
  <1>3. QED
    BY <1>1, <1>2

\* The steps of a recursion, and a function that follows them from a base.
Steps(S) == [Nat -> [S -> S]]
Follows(f, S, base, step) ==
    /\ f \in [Nat -> S]
    /\ f[0] = base
    /\ \A n \in Nat : f[n + 1] = step[n][f[n]]

\* A recursion over the natural numbers has a solution: a base and a step define
\* a function on Nat.  (It is what makes a recursive definition say what it says:
\* TLA+ takes some function that satisfies the equation, if there is one.)
LEMMA Recursion ==
    ASSUME NEW S, NEW base \in S, NEW step \in Steps(S)
    PROVE  \E f : Follows(f, S, base, step)
  <1> USE DEF Steps, Follows
  <1> DEFINE Upto(n, g) == /\ g \in [Nat -> S]
                           /\ g[0] = base
                           /\ \A i \in Nat : i < n => g[i + 1] = step[i][g[i]]
             T == {n \in Nat : \E g : Upto(n, g)}
  <1>1. 0 \in T
    <2>1. Upto(0, [i \in Nat |-> base])
      OBVIOUS
    <2>2. QED
      BY <2>1
  <1>2. ASSUME NEW n \in Nat, n \in T
        PROVE  n + 1 \in T
    <2>1. PICK g : Upto(n, g)
      BY <1>2
    <2> DEFINE h == [i \in Nat |-> IF i = n + 1 THEN step[n][g[n]] ELSE g[i]]
    <2>2. h \in [Nat -> S] /\ h[0] = base
      BY <2>1
    <2>3. \A i \in Nat : i < n + 1 => h[i + 1] = step[i][h[i]]
      <3> SUFFICES ASSUME NEW i \in Nat, i < n + 1
                   PROVE  h[i + 1] = step[i][h[i]]
        OBVIOUS
      <3>1. CASE i = n
        BY <3>1
      <3>2. CASE i < n
        BY <2>1, <3>2
      <3>3. QED
        BY <3>1, <3>2
    <2> HIDE DEF h
    <2>4. Upto(n + 1, h)
      BY <2>2, <2>3
    <2> HIDE DEF Upto
    <2>5. QED
      BY <2>4
  <1>3. \A n \in Nat : \E g : Upto(n, g)
    <2>1. Nat \subseteq T
      BY <1>1, <1>2, Induct
    <2>2. QED
      BY <2>1
  <1>4. ASSUME NEW m \in Nat, NEW n \in Nat, NEW g, NEW h, Upto(m, g), Upto(n, h), m <= n
        PROVE  \A i \in Nat : i <= m => g[i] = h[i]
    <2> DEFINE E == {i \in Nat : i <= m => g[i] = h[i]}
    <2>1. 0 \in E
      BY <1>4
    <2>2. ASSUME NEW i \in Nat, i \in E
          PROVE  i + 1 \in E
      BY <1>4, <2>2
    <2>3. Nat \subseteq E
      <3> HIDE DEF E
      <3>1. QED
        BY <2>1, <2>2, Induct
    <2>4. QED
      BY <2>3
  <1> DEFINE at(n) == CHOOSE g : Upto(n, g)
             f == [n \in Nat |-> at(n)[n]]
  <1>5. ASSUME NEW n \in Nat
        PROVE  Upto(n, at(n))
    <2> HIDE DEF Upto
    <2>1. QED
      BY <1>3
  <1> HIDE DEF at
  <1>6. f \in [Nat -> S] /\ f[0] = base
    BY <1>5
  <1>7. \A n \in Nat : f[n + 1] = step[n][f[n]]
    <2> SUFFICES ASSUME NEW n \in Nat
                 PROVE  f[n + 1] = step[n][f[n]]
      OBVIOUS
    <2>1. Upto(n, at(n))
      BY <1>5
    <2>2. Upto(n + 1, at(n + 1))
      BY <1>5
    <2>3. at(n)[n] = at(n + 1)[n]
      <3> HIDE DEF Upto
      <3>1. \A i \in Nat : i <= n => at(n)[i] = at(n + 1)[i]
        BY <1>4, <2>1, <2>2
      <3>2. QED
        BY <3>1
    <2>4. f[n + 1] = at(n + 1)[n + 1] /\ f[n] = at(n)[n]
      OBVIOUS
    <2>5. at(n + 1)[n + 1] = step[n][at(n + 1)[n]]
      BY <2>2
    <2>6. QED
      BY <2>3, <2>4, <2>5
  <1>8. QED
    BY <1>6, <1>7

-----------------------------------------------------------------------------
(* Folds over finite sets *)

\* The recursion of a fold: its value for a set is made of the element that is
\* picked out of it and of the value for the rest.
FoldsUp(fold, S, base, op, pick) ==
    fold = [s \in SUBSET S |-> IF s = {} THEN base ELSE op[pick[s]][fold[s \ {pick[s]}]]]

\* A fold over a finite set has a solution, whatever is picked first.
LEMMA FoldExists ==
    ASSUME NEW S, IsFiniteSet(S), NEW V, NEW base \in V, NEW op \in [S -> [V -> V]],
           NEW pick, \A s \in SUBSET S : s # {} => pick[s] \in s
    PROVE  \E fold \in [SUBSET S -> V] : FoldsUp(fold, S, base, op, pick)
  <1> DEFINE Op(s, v) == op[pick[s]][v]
             T == [SUBSET S -> V]
             empty == [s \in SUBSET S |-> base]
             Next1(g) == [s \in SUBSET S |-> IF s = {} THEN base ELSE Op(s, g[s \ {pick[s]}])]
             step == [n \in Nat |-> [g \in T |-> Next1(g)]]
  <1>1. \A s \in SUBSET S : s # {} => pick[s] \in s
    OBVIOUS
  <1>2. \A g \in T : Next1(g) \in T
    <2> SUFFICES ASSUME NEW g \in T, NEW s \in SUBSET S, s # {}
                 PROVE  Op(s, g[s \ {pick[s]}]) \in V
      OBVIOUS
    <2>1. pick[s] \in S /\ s \ {pick[s]} \in SUBSET S
      BY <1>1
    <2>2. g[s \ {pick[s]}] \in V
      BY <2>1
    <2>3. QED
      BY <2>1, <2>2
  <1>3. \E g : Follows(g, T, empty, step)
    <2>1. empty \in T
      OBVIOUS
    <2>2. step \in Steps(T)
      <3> HIDE DEF T, Next1
      <3>1. QED
        BY <1>2 DEF Steps
    <2> HIDE DEF T, empty, step, Next1
    <2>3. QED
      BY <2>1, <2>2, Recursion
  <1>4. PICK g \in [Nat -> T] : g[0] = empty /\ \A n \in Nat : g[n + 1] = Next1(g[n])
    <2> HIDE DEF T, empty, Next1
    <2>1. QED
      BY <1>3 DEF Follows
  <1>5. /\ \A s \in SUBSET S : g[0][s] = base
        /\ \A n \in Nat, s \in SUBSET S :
              g[n + 1][s] = IF s = {} THEN base ELSE Op(s, g[n][s \ {pick[s]}])
    <2> HIDE DEF Op
    <2>1. \A s \in SUBSET S : g[0][s] = base
      BY <1>4
    <2>2. \A n \in Nat : g[n + 1] = Next1(g[n])
      BY <1>4
    <2> SUFFICES ASSUME NEW n \in Nat, NEW s \in SUBSET S
                 PROVE  g[n + 1][s] = IF s = {} THEN base ELSE Op(s, g[n][s \ {pick[s]}])
      BY <2>1
    <2>3. Next1(g[n])[s] = IF s = {} THEN base ELSE Op(s, g[n][s \ {pick[s]}])
      OBVIOUS
    <2> HIDE DEF T, Next1
    <2>4. QED
      BY <2>2, <2>3
  <1> HIDE DEF empty, step, Next1, Op
  <1>6. \A s \in SUBSET S : /\ IsFiniteSet(s) /\ Cardinality(s) \in Nat
                            /\ s # {} => Cardinality(s \ {pick[s]}) = Cardinality(s) - 1
                            /\ Cardinality(s) <= Cardinality(S)
                            /\ Cardinality(s) = 0 <=> s = {}
    BY <1>1, FS_Subset, FS_CardinalityType, FS_RemoveElement, FS_EmptySet
  <1> DEFINE Still == {n \in Nat : \A s \in SUBSET S : Cardinality(s) <= n => g[n + 1][s] = g[n][s]}
  <1>7. 0 \in Still
    <2> SUFFICES ASSUME NEW s \in SUBSET S, Cardinality(s) <= 0
                 PROVE  g[0 + 1][s] = g[0][s]
      OBVIOUS
    <2>1. Cardinality(s) \in Nat
      BY <1>6
    <2>2. Cardinality(s) = 0
      BY <2>1
    <2>3. s = {}
      BY <1>6, <2>2
    <2>4. QED
      BY <1>5, <2>3
  <1>8. ASSUME NEW n \in Nat, n \in Still
        PROVE  n + 1 \in Still
    <2> SUFFICES ASSUME NEW s \in SUBSET S, Cardinality(s) <= n + 1
                 PROVE  g[(n + 1) + 1][s] = g[n + 1][s]
      OBVIOUS
    <2>1. CASE s = {}
      <3>1. g[(n + 1) + 1][s] = base
        <4>1. n + 1 \in Nat
          OBVIOUS
        <4>2. QED
          BY <1>5, <2>1, <4>1
      <3>2. g[n + 1][s] = base
        BY <1>5, <2>1
      <3>3. QED
        BY <3>1, <3>2
    <2>2. CASE s # {}
      <3>1. Cardinality(s \ {pick[s]}) = Cardinality(s) - 1 /\ Cardinality(s) \in Nat
        BY <1>6, <2>2
      <3>2. s \ {pick[s]} \in SUBSET S /\ Cardinality(s \ {pick[s]}) <= n
        BY <3>1
      <3>3. g[n + 1][s \ {pick[s]}] = g[n][s \ {pick[s]}]
        BY <1>8, <3>2
      <3>4. /\ g[(n + 1) + 1][s] = Op(s, g[n + 1][s \ {pick[s]}])
            /\ g[n + 1][s] = Op(s, g[n][s \ {pick[s]}])
        <4>1. n + 1 \in Nat
          OBVIOUS
        <4>2. QED
          BY <1>5, <2>2, <4>1
      <3>5. QED
        BY <3>3, <3>4
    <2>3. QED
      BY <2>1, <2>2
  <1>9. Nat \subseteq Still
    <2> HIDE DEF Still
    <2>1. QED
      BY <1>7, <1>8, Induct
  <1> DEFINE N == Cardinality(S)
  <1>10. N \in Nat
    BY FS_CardinalityType
  <1>11. \A s \in SUBSET S : g[N + 1][s] = g[N][s]
    BY <1>6, <1>9, <1>10
  <1> HIDE DEF N, Still
  <1>12. g[N] \in T
    BY <1>10
  <1>13. \A s \in SUBSET S : g[N][s] = IF s = {} THEN base ELSE Op(s, g[N][s \ {pick[s]}])
    BY <1>5, <1>10, <1>11
  <1>14. FoldsUp(g[N], S, base, op, pick)
    BY <1>12, <1>13 DEF FoldsUp, Op
  <1>15. QED
    BY <1>12, <1>14

\* A set of numbers up to a bound has a greatest one.
LEMMA GreatestNumber ==
    ASSUME NEW L \in Nat, NEW s \in SUBSET (1 .. L), s # {}
    PROVE  Max(s) \in s /\ \A y \in s : Max(s) >= y
  <1> DEFINE T == {L - x : x \in s}
  <1>1. T \in SUBSET Nat /\ T # {}
    <2>1. \A x \in s : L - x \in Nat
      OBVIOUS
    <2>2. QED
      BY <2>1
  <1>2. PICK t \in T : \A u \in T : t <= u
    <2> HIDE DEF T
    <2>1. QED
      BY <1>1, LeastNumber
  <1>3. PICK x \in s : t = L - x
    BY <1>2
  <1>4. \A y \in s : x >= y
    <2> SUFFICES ASSUME NEW y \in s
                 PROVE  x >= y
      OBVIOUS
    <2>1. L - x <= L - y
      BY <1>2, <1>3
    <2>2. QED
      BY <2>1
  <1>5. QED
    BY <1>4 DEF Max

\* The greatest of the first numbers is the last of them.
LEMMA LastOfFirst ==
    ASSUME NEW k \in Nat
    PROVE  Max(1 .. (k + 1)) = k + 1 /\ (1 .. (k + 1)) \ {k + 1} = 1 .. k
  <1> DEFINE s == 1 .. (k + 1)
  <1>1. s \in SUBSET (1 .. (k + 1)) /\ s # {} /\ k + 1 \in s /\ k + 1 \in Nat
    OBVIOUS
  <1>2. Max(s) \in s /\ \A y \in s : Max(s) >= y
    <2> HIDE DEF s
    <2>1. QED
      BY <1>1, GreatestNumber
  <1>3. Max(s) = k + 1
    BY <1>1, <1>2
  <1>4. QED
    BY <1>3

-----------------------------------------------------------------------------
(* Sums over finite sets *)

\* What SumFunction picks next out of a set.
Pick(s) == CHOOSE x \in s : TRUE

\* The recursion by which SumFunction adds up a function: a sum over the subsets
\* of its domain, each that of a smaller one and the value that was left out.
AddsUp(sum, fun, S) ==
    sum = [s \in SUBSET S |-> IF s = {} THEN 0 ELSE fun[Pick(s)] + sum[s \ {Pick(s)}]]

\* The recursion of SumFunction has a solution over a finite set.
LEMMA SumExists ==
    ASSUME NEW S, IsFiniteSet(S), NEW fun \in [S -> Int]
    PROVE  \E sum \in [SUBSET S -> Int] : AddsUp(sum, fun, S)
  <1> DEFINE op == [x \in S |-> [v \in Int |-> fun[x] + v]]
             pick == [s \in SUBSET S |-> Pick(s)]
  <1>1. op \in [S -> [Int -> Int]] /\ \A s \in SUBSET S : s # {} => pick[s] \in s
    BY DEF Pick
  <1>2. PICK sum \in [SUBSET S -> Int] : FoldsUp(sum, S, 0, op, pick)
    <2>1. 0 \in Int
      OBVIOUS
    <2> HIDE DEF op, pick
    <2>2. QED
      BY <1>1, <2>1, FoldExists, Zenon
  <1>3. \A s \in SUBSET S :
           s # {} => op[pick[s]][sum[s \ {pick[s]}]] = fun[Pick(s)] + sum[s \ {Pick(s)}]
    <2> SUFFICES ASSUME NEW s \in SUBSET S, s # {}
                 PROVE  op[Pick(s)][sum[s \ {Pick(s)}]] = fun[Pick(s)] + sum[s \ {Pick(s)}]
      OBVIOUS
    <2>1. Pick(s) \in S /\ sum[s \ {Pick(s)}] \in Int
      BY DEF Pick
    <2>2. QED
      BY <2>1
  <1>4. AddsUp(sum, fun, S)
    BY <1>2, <1>3 DEF FoldsUp, AddsUp
  <1>5. QED
    BY <1>4

\* Induction over the subsets of a finite set, one element at a time.
LEMMA InductSubsets ==
    ASSUME NEW S, IsFiniteSet(S), NEW T, {} \in T,
           \A s \in SUBSET S : \A x \in S \ s : s \in T => s \union {x} \in T
    PROVE  SUBSET S \subseteq T
  <1> DEFINE U == {n \in Nat : \A s \in SUBSET S : Cardinality(s) = n => s \in T}
  <1>1. \A s \in SUBSET S : IsFiniteSet(s) /\ Cardinality(s) \in Nat
    BY FS_Subset, FS_CardinalityType
  <1>2. 0 \in U
    <2>1. \A s \in SUBSET S : Cardinality(s) = 0 => s = {}
      BY <1>1, FS_EmptySet
    <2>2. QED
      BY <2>1
  <1>3. ASSUME NEW n \in Nat, n \in U
        PROVE  n + 1 \in U
    <2> SUFFICES ASSUME NEW s \in SUBSET S, Cardinality(s) = n + 1
                 PROVE  s \in T
      OBVIOUS
    <2>1. s # {}
      <3>1. Cardinality({}) = 0
        BY FS_EmptySet
      <3>2. QED
        BY <3>1
    <2>2. PICK x \in s : TRUE
      BY <2>1
    <2> DEFINE rest == s \ {x}
    <2>3. rest \in SUBSET S /\ x \in S \ rest /\ rest \union {x} = s
      BY <2>2
    <2>4. Cardinality(rest) = n
      <3>1. Cardinality(rest) = Cardinality(s) - 1
        BY <1>1, <2>2, FS_RemoveElement
      <3>2. QED
        BY <3>1
    <2>5. rest \in T
      BY <1>3, <2>3, <2>4
    <2> HIDE DEF rest
    <2>6. rest \union {x} \in T
      BY <2>3, <2>5
    <2>7. QED
      BY <2>3, <2>6
  <1>4. Nat \subseteq U
    <2> HIDE DEF U
    <2>1. QED
      BY <1>2, <1>3, Induct
  <1>5. QED
    BY <1>1, <1>4

\* A sum over the subsets of S: nothing for the empty set, and for any other set
\* each of its elements and the sum over the rest.
Sums(t, fun, S) ==
    /\ t \in [SUBSET S -> Int]
    /\ t[{}] = 0
    /\ \A s \in SUBSET S : \A x \in s : t[s] = fun[x] + t[s \ {x}]

\* The sum does not depend on the order in which the elements are picked.
LEMMA AnyOrder ==
    ASSUME NEW S, IsFiniteSet(S), NEW fun \in [S -> Int],
           NEW t \in [SUBSET S -> Int], AddsUp(t, fun, S)
    PROVE  Sums(t, fun, S)
  <1> DEFINE U == {n \in Nat : \A s \in SUBSET S : Cardinality(s) = n =>
                      \A x \in s : t[s] = fun[x] + t[s \ {x}]}
  <1>1. /\ \A s \in SUBSET S : IsFiniteSet(s) /\ Cardinality(s) \in Nat
        /\ \A s \in SUBSET S : \A x \in s : Cardinality(s \ {x}) = Cardinality(s) - 1
    <2>1. \A s \in SUBSET S : IsFiniteSet(s) /\ Cardinality(s) \in Nat
      BY FS_Subset, FS_CardinalityType
    <2>2. QED
      BY <2>1, FS_RemoveElement
  <1>2. /\ t[{}] = 0
        /\ \A s \in SUBSET S : s # {} => Pick(s) \in s /\ t[s] = fun[Pick(s)] + t[s \ {Pick(s)}]
    <2>1. \A s \in SUBSET S : t[s] = IF s = {} THEN 0 ELSE fun[Pick(s)] + t[s \ {Pick(s)}]
      BY DEF AddsUp
    <2>2. \A s \in SUBSET S : s # {} => Pick(s) \in s
      BY DEF Pick
    <2>3. QED
      BY <2>1, <2>2
  <1>3. 0 \in U
    <2>1. \A s \in SUBSET S : Cardinality(s) = 0 => s = {}
      BY <1>1, FS_EmptySet
    <2>2. QED
      BY <2>1
  <1>4. ASSUME NEW n \in Nat, n \in U
        PROVE  n + 1 \in U
    <2> SUFFICES ASSUME NEW s \in SUBSET S, Cardinality(s) = n + 1, NEW x \in s
                 PROVE  t[s] = fun[x] + t[s \ {x}]
      OBVIOUS
    <2> DEFINE y == Pick(s)
               both == (s \ {x}) \ {y}
    <2>1. y \in s /\ t[s] = fun[y] + t[s \ {y}]
      BY <1>2
    <2>2. CASE x = y
      BY <2>1, <2>2
    <2>3. CASE x # y
      <3> HIDE DEF y
      <3>1. /\ s \ {x} \in SUBSET S /\ y \in s \ {x} /\ Cardinality(s \ {x}) = n
            /\ s \ {y} \in SUBSET S /\ x \in s \ {y} /\ Cardinality(s \ {y}) = n
        <4>1. Cardinality(s \ {x}) = (n + 1) - 1 /\ Cardinality(s \ {y}) = (n + 1) - 1
          BY <1>1, <2>1
        <4>2. QED
          BY <2>1, <2>3, <4>1
      <3>2. (s \ {y}) \ {x} = both
        OBVIOUS
      <3>3. t[s \ {y}] = fun[x] + t[both] /\ t[s \ {x}] = fun[y] + t[both]
        <4>1. t[s \ {y}] = fun[x] + t[(s \ {y}) \ {x}]
          BY <1>4, <3>1
        <4>2. t[s \ {x}] = fun[y] + t[both]
          BY <1>4, <3>1
        <4>3. QED
          BY <3>2, <4>1, <4>2
      <3>4. both \in SUBSET S /\ x \in S /\ y \in S
        BY <2>1
      <3>5. t[both] \in Int /\ fun[x] \in Int /\ fun[y] \in Int
        BY <3>4
      <3> HIDE DEF both
      <3>6. QED
        BY <2>1, <3>3, <3>5
    <2>4. QED
      BY <2>2, <2>3
  <1>5. Nat \subseteq U
    <2> HIDE DEF U
    <2>1. QED
      BY <1>3, <1>4, Induct
  <1>6. QED
    BY <1>1, <1>2, <1>5 DEF Sums

\* What SumFunction gives for a function, and for it on any part of its domain.
LEMMA SumsExist ==
    ASSUME NEW S, IsFiniteSet(S), NEW fun \in [S -> Int]
    PROVE  \E t : Sums(t, fun, S) /\ SumFunction(fun) = t[S]
  <1> DEFINE sum == CHOOSE g : AddsUp(g, fun, S)
  <1>1. SumFunction(fun) = sum[S]
    BY DEF SumFunction, SumFunctionOnSet, FoldFunctionOnSet, MapThenFoldSet, AddsUp, Pick
  <1>2. AddsUp(sum, fun, S)
    BY SumExists
  <1>3. \A s \in SUBSET S : sum[s] \in Int
    <2> DEFINE T == {s \in SUBSET S : sum[s] \in Int}
               U == {n \in Nat : \A s \in SUBSET S : Cardinality(s) = n => s \in T}
    <2> HIDE DEF sum
    <2>1. \A s \in SUBSET S : sum[s] = IF s = {} THEN 0 ELSE fun[Pick(s)] + sum[s \ {Pick(s)}]
      BY <1>2 DEF AddsUp
    <2>2. \A s \in SUBSET S : /\ IsFiniteSet(s) /\ Cardinality(s) \in Nat
                              /\ Cardinality(s) = 0 <=> s = {}
      BY FS_Subset, FS_CardinalityType, FS_EmptySet
    <2>3. 0 \in U
      BY <2>1, <2>2
    <2>4. ASSUME NEW n \in Nat, n \in U
          PROVE  n + 1 \in U
      <3> SUFFICES ASSUME NEW s \in SUBSET S, Cardinality(s) = n + 1
                   PROVE  sum[s] \in Int
        OBVIOUS
      <3>1. s # {} /\ Pick(s) \in s
        BY <2>2 DEF Pick
      <3>2. Cardinality(s \ {Pick(s)}) = (n + 1) - 1
        BY <2>2, <3>1, FS_RemoveElement
      <3>3. sum[s \ {Pick(s)}] \in Int
        BY <2>4, <3>2
      <3>4. QED
        BY <2>1, <3>1, <3>3
    <2>5. Nat \subseteq U
      <3> HIDE DEF U
      <3>1. QED
        BY <2>3, <2>4, Induct
    <2>6. QED
      BY <2>2, <2>5
  <1>4. sum \in [SUBSET S -> Int]
    <2> HIDE DEF sum
    <2>1. sum = [s \in SUBSET S |-> sum[s]]
      BY <1>2 DEF AddsUp
    <2>2. QED
      BY <1>3, <2>1
  <1> HIDE DEF sum
  <1>5. Sums(sum, fun, S)
    BY <1>2, <1>4, AnyOrder
  <1>6. QED
    BY <1>1, <1>5

\* The sum of whole numbers over a finite set is one.
LEMMA SumIsWhole ==
    ASSUME NEW S, IsFiniteSet(S), NEW fun \in [S -> Int]
    PROVE  SumFunction(fun) \in Int
  <1>1. PICK t : Sums(t, fun, S) /\ SumFunction(fun) = t[S]
    BY SumsExist
  <1>2. t \in [SUBSET S -> Int] /\ S \in SUBSET S
    BY <1>1 DEF Sums
  <1>3. QED
    BY <1>1, <1>2

\* The sum of a function over a part of its domain is the sum of its restriction.
LEMMA SumOfPart ==
    ASSUME NEW S, IsFiniteSet(S), NEW fun \in [S -> Int], NEW t, Sums(t, fun, S),
           NEW part \in SUBSET S
    PROVE  SumFunction([x \in part |-> fun[x]]) = t[part]
  <1> DEFINE g == [x \in part |-> fun[x]]
  <1>1. IsFiniteSet(part) /\ g \in [part -> Int]
    BY FS_Subset
  <1>2. PICK u : Sums(u, g, part) /\ SumFunction(g) = u[part]
    <2> HIDE DEF g
    <2>1. QED
      BY <1>1, SumsExist
  <1> DEFINE T == {s \in SUBSET part : u[s] = t[s]}
  <1>3. {} \in T
    BY <1>2 DEF Sums
  <1>4. ASSUME NEW s \in SUBSET part, NEW x \in part \ s, s \in T
        PROVE  s \union {x} \in T
    <2> DEFINE more == s \union {x}
    <2>1. more \in SUBSET part /\ more \in SUBSET S /\ x \in more /\ more \ {x} = s
      BY <1>4
    <2>2. g[x] = fun[x]
      OBVIOUS
    <2> HIDE DEF more, g
    <2>3. u[more] = g[x] + u[more \ {x}]
      BY <1>2, <2>1 DEF Sums
    <2>4. t[more] = fun[x] + t[more \ {x}]
      BY <2>1 DEF Sums
    <2>5. u[more] = t[more]
      BY <1>4, <2>1, <2>2, <2>3, <2>4
    <2>6. QED
      BY <2>1, <2>5 DEF more
  <1>5. SUBSET part \subseteq T
    <2> HIDE DEF T
    <2>1. QED
      BY <1>1, <1>3, <1>4, InductSubsets
  <1>6. QED
    BY <1>2, <1>5

\* Two parts that share nothing have the sum of their sums.
LEMMA SumOfTwoParts ==
    ASSUME NEW S, IsFiniteSet(S), NEW fun \in [S -> Int], NEW t, Sums(t, fun, S),
           NEW a \in SUBSET S, NEW b \in SUBSET S, a \intersect b = {}
    PROVE  t[a \union b] = t[a] + t[b]
  <1> DEFINE T == {s \in SUBSET a : t[s \union b] = t[s] + t[b]}
  <1>1. IsFiniteSet(a)
    BY FS_Subset
  <1>2. \A s \in SUBSET S : t[s] \in Int
    BY DEF Sums
  <1>3. {} \in T
    <2>1. {} \union b = b /\ t[{}] = 0
      BY DEF Sums
    <2>2. QED
      BY <1>2, <2>1
  <1>4. ASSUME NEW s \in SUBSET a, NEW x \in a \ s, s \in T
        PROVE  s \union {x} \in T
    <2> DEFINE more == s \union {x}
               all == more \union b
    <2>1. /\ more \in SUBSET a /\ more \in SUBSET S /\ x \in more /\ more \ {x} = s
          /\ all \in SUBSET S /\ x \in all /\ all \ {x} = s \union b
          /\ s \union b \in SUBSET S /\ x \in S
      BY <1>4
    <2> HIDE DEF more, all
    <2>2. t[more] = fun[x] + t[more \ {x}] /\ t[all] = fun[x] + t[all \ {x}]
      BY <2>1 DEF Sums
    <2>3. t[s \union b] = t[s] + t[b] /\ t[s] \in Int /\ t[b] \in Int /\ fun[x] \in Int
      BY <1>2, <1>4, <2>1
    <2>4. t[more] = fun[x] + t[s] /\ t[all] = fun[x] + t[s \union b]
      BY <2>1, <2>2
    <2>a. t[all] = t[more] + t[b]
      BY <2>3, <2>4
    <2>5. QED
      BY <2>1, <2>a DEF more, all
  <1>5. SUBSET a \subseteq T
    <2> HIDE DEF T
    <2>1. QED
      BY <1>1, <1>3, <1>4, InductSubsets
  <1>6. QED
    BY <1>5

\* The sum of sums is the sum of both.
LEMMA SumOfBoth ==
    ASSUME NEW S, IsFiniteSet(S), NEW f \in [S -> Int], NEW g \in [S -> Int], NEW h \in [S -> Int],
           \A x \in S : h[x] = f[x] + g[x]
    PROVE  SumFunction(h) = SumFunction(f) + SumFunction(g)
  <1>1. PICK t : Sums(t, f, S) /\ SumFunction(f) = t[S]
    BY SumsExist
  <1>2. PICK u : Sums(u, g, S) /\ SumFunction(g) = u[S]
    BY SumsExist
  <1>3. PICK v : Sums(v, h, S) /\ SumFunction(h) = v[S]
    BY SumsExist
  <1> DEFINE T == {s \in SUBSET S : v[s] = t[s] + u[s]}
  <1>4. {} \in T
    BY <1>1, <1>2, <1>3 DEF Sums
  <1>5. ASSUME NEW s \in SUBSET S, NEW x \in S \ s, s \in T
        PROVE  s \union {x} \in T
    <2> DEFINE more == s \union {x}
    <2>1. more \in SUBSET S /\ x \in more /\ more \ {x} = s
      BY <1>5
    <2>2. t[s] \in Int /\ u[s] \in Int /\ f[x] \in Int /\ g[x] \in Int
      BY <1>1, <1>2 DEF Sums
    <2> HIDE DEF more
    <2>3. /\ t[more] = f[x] + t[more \ {x}]
          /\ u[more] = g[x] + u[more \ {x}]
          /\ v[more] = h[x] + v[more \ {x}]
      BY <1>1, <1>2, <1>3, <2>1 DEF Sums
    <2>a. t[more] = f[x] + t[s] /\ u[more] = g[x] + u[s] /\ v[more] = h[x] + v[s]
      BY <2>1, <2>3
    <2>b. v[s] = t[s] + u[s] /\ h[x] = f[x] + g[x]
      BY <1>5
    <2>4. v[more] = t[more] + u[more]
      BY <2>2, <2>a, <2>b
    <2>5. QED
      BY <2>1, <2>4 DEF more
  <1>6. SUBSET S \subseteq T
    <2> HIDE DEF T
    <2>1. QED
      BY <1>4, <1>5, InductSubsets
  <1>7. QED
    BY <1>1, <1>2, <1>3, <1>6

\* What hangs below node n of a forest, and the sum of it.
Under(up, n) == {m \in DOMAIN up : up[m] = n}
SumUnder(up, fun, n) == SumFunction([m \in Under(up, n) |-> fun[m]])

\* Summed over all nodes, the sums of what hangs below each are the sum of all
\* that hangs below any: nothing is lost or counted twice.
LEMMA SumOfSums ==
    ASSUME NEW N, IsFiniteSet(N), NEW P \in SUBSET N, NEW up \in [P -> N], NEW fun \in [N -> Int]
    PROVE  /\ [n \in N |-> SumUnder(up, fun, n)] \in [N -> Int]
           /\ SumFunction([n \in N |-> SumUnder(up, fun, n)]) = SumFunction([m \in P |-> fun[m]])
  <1> DEFINE G == [n \in N |-> SumUnder(up, fun, n)]
             Among(s) == {m \in P : up[m] \in s}
  <1>1. PICK t : Sums(t, fun, N)
    BY SumsExist
  <1>2. \A n \in N : Under(up, n) \in SUBSET N /\ SumUnder(up, fun, n) = t[Under(up, n)]
    <2>1. \A n \in N : Under(up, n) \in SUBSET N
      BY DEF Under
    <2>2. QED
      BY <1>1, <2>1, SumOfPart DEF SumUnder
  <1>3. \A s \in SUBSET N : t[s] \in Int
    BY <1>1 DEF Sums
  <1>4. G \in [N -> Int]
    BY <1>2, <1>3
  <1> HIDE DEF G
  <1>5. PICK u : Sums(u, G, N) /\ SumFunction(G) = u[N]
    BY <1>4, SumsExist
  <1> DEFINE T == {s \in SUBSET N : u[s] = t[Among(s)]}
  <1>6. {} \in T
    <2>1. Among({}) = {}
      OBVIOUS
    <2> HIDE DEF Among
    <2>2. QED
      BY <1>1, <1>5, <2>1 DEF Sums
  <1>7. ASSUME NEW s \in SUBSET N, NEW x \in N \ s, s \in T
        PROVE  s \union {x} \in T
    <2> DEFINE more == s \union {x}
               one == Under(up, x)
    <2>1. more \in SUBSET N /\ x \in more /\ more \ {x} = s
      BY <1>7
    <2>2. /\ Among(more) = one \union Among(s) /\ one \intersect Among(s) = {}
          /\ one \in SUBSET N /\ Among(s) \in SUBSET N
      BY <1>7 DEF Under
    <2>3. G[x] = t[one]
      BY <1>2 DEF G
    <2> HIDE DEF more, one, Among
    <2>4. t[Among(more)] = t[one] + t[Among(s)]
      BY <1>1, <2>2, SumOfTwoParts
    <2>5. u[more] = G[x] + u[more \ {x}]
      BY <1>5, <2>1 DEF Sums
    <2>6. u[more] = t[Among(more)]
      BY <1>7, <2>1, <2>3, <2>4, <2>5
    <2>7. QED
      BY <2>1, <2>6 DEF more
  <1>8. SUBSET N \subseteq T
    <2> HIDE DEF T
    <2>1. QED
      BY <1>6, <1>7, InductSubsets
  <1>9. Among(N) = P
    OBVIOUS
  <1>10. u[N] = t[P]
    <2> HIDE DEF Among
    <2>1. N \in T
      BY <1>8
    <2>2. QED
      BY <1>9, <2>1
  <1>11. SumFunction([m \in P |-> fun[m]]) = t[P]
    BY <1>1, SumOfPart
  <1>12. QED
    BY <1>4, <1>5, <1>10, <1>11 DEF G

=============================================================================
