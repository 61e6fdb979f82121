----------------------------- MODULE Sums_proofs ----------------------------
(***************************************************************************)
(* Sums over finite sets, as every ledger uses them: SumFunctionOnSet adds *)
(* the values of a function on a set, one element after the other in the   *)
(* order that CHOOSE picks.  What a proof needs of it does not depend on   *)
(* that order: the sum of one element more, of two functions, of a set     *)
(* where the rest is zero.                                                 *)
(*                                                                         *)
(* Induction is stated with a set in the place of a predicate: the members *)
(* of `good` are the sets (or numbers) that a claim holds of.              *)
(***************************************************************************)
EXTENDS Integers, FiniteSets, Functions, FiniteSetTheorems, TLAPS

\* Every nonempty set of naturals has a smallest member.
LEMMA SmallestNat ==
  ASSUME NEW S \in SUBSET Nat, S # {}
  PROVE  \E n \in S : \A m \in S : n <= m
<1>1. \A m, n \in Nat : <<m, n>> \in OpToRel(<, Nat) <=> m < n
  BY DEF OpToRel
<1>2. PICK less : IsWellFoundedOn(less, Nat) /\ \A m, n \in Nat : <<m, n>> \in less <=> m < n
  BY <1>1, NatLessThanWellFounded
<1>3. S \subseteq Nat
  OBVIOUS
<1>4. PICK n \in S : \A m \in S : ~ (<<m, n>> \in less)
  <2>1. ASSUME NEW N, IsWellFoundedOn(less, N), S \subseteq N
        PROVE  \E n \in S : \A m \in S : ~ (<<m, n>> \in less)
    BY <2>1, WFMin
  <2> QED
    BY <1>2, <1>3, <2>1
<1>5. \A m \in S : ~ (m < n)
  BY <1>2, <1>3, <1>4, Zenon
<1>6. \A i, j \in Nat : ~ (i < j) => j <= i
  OBVIOUS
<1> QED
  BY <1>3, <1>5, <1>6

\* Induction over the naturals.
LEMMA NatRule ==
  ASSUME NEW good, 0 \in good, \A n \in Nat : n \in good => n + 1 \in good
  PROVE  Nat \subseteq good
<1> SUFFICES ASSUME Nat \ good # {} PROVE FALSE
  OBVIOUS
<1>1. PICK n \in Nat \ good : \A m \in Nat \ good : n <= m
  BY SmallestNat
<1>2. n # 0
  BY <1>1
<1>3. n - 1 \in Nat /\ ~ (n <= n - 1)
  BY <1>2
<1>4. n - 1 \in good
  BY <1>1, <1>3
<1> QED
  BY <1>1, <1>3, <1>4

\* Induction over the subsets of a finite set, an element at a time.
LEMMA SetRule ==
  ASSUME NEW S, IsFiniteSet(S), NEW good, {} \in good,
         \A A \in SUBSET S, x \in S : A \in good /\ x \notin A => A \cup {x} \in good
  PROVE  S \in good
<1> DEFINE sizes == {n \in Nat : \A A \in SUBSET S : Cardinality(A) = n => A \in good}
<1>1. \A A \in SUBSET S : IsFiniteSet(A) /\ Cardinality(A) \in Nat
  BY FS_Subset, FS_CardinalityType
<1>2. 0 \in sizes
  BY <1>1, FS_EmptySet
<1>3. ASSUME NEW n \in Nat, n \in sizes
      PROVE  n + 1 \in sizes
  <2> SUFFICES ASSUME NEW A \in SUBSET S, Cardinality(A) = n + 1
               PROVE  A \in good
    OBVIOUS
  <2>1. A # {}
    BY FS_EmptySet
  <2>2. PICK x : x \in A
    BY <2>1
  <2>3. Cardinality(A \ {x}) = n
    <3>1. IsFiniteSet(A)
      BY <1>1
    <3>2. Cardinality(A \ {x}) = Cardinality(A) - 1
      BY <2>2, <3>1, FS_RemoveElement
    <3> QED
      BY <3>2
  <2>4. A \ {x} \in good
    BY <1>3, <2>3
  <2>5. (A \ {x}) \cup {x} = A
    BY <2>2
  <2> QED
    BY <2>2, <2>4, <2>5
<1> HIDE DEF sizes
<1>4. S \in SUBSET S /\ Cardinality(S) \in sizes
  BY <1>1, <1>2, <1>3, NatRule, FS_CardinalityType
<1> QED
  BY <1>4 DEF sizes

-----------------------------------------------------------------------------
(* The recursion that defines the sum has exactly one solution *)

Pick(s) == CHOOSE x \in s : TRUE

\* g adds f over every set of D.
Adds(g, f, D) == g = [s \in D |-> IF s = {} THEN 0 ELSE f[Pick(s)] + g[s \ {Pick(s)}]]

\* The element picked is one of the set.
LEMMA Picked == \A s : s # {} => Pick(s) \in s
  BY DEF Pick

\* The sum is the solution of its recursion that CHOOSE gives.
LEMMA SumIs ==
  ASSUME NEW f, NEW S
  PROVE  SumFunctionOnSet(f, S) = (CHOOSE g : Adds(g, f, SUBSET S))[S]
  BY DEF SumFunctionOnSet, FoldFunctionOnSet, MapThenFoldSet, Adds, Pick

\* There is a solution, and its values are integers.
LEMMA SolutionExists ==
  ASSUME NEW S, IsFiniteSet(S), NEW f, \A x \in S : f[x] \in Int
  PROVE  \E g \in [SUBSET S -> Int] : Adds(g, f, SUBSET S)
<1> DEFINE Upto(n) == {s \in SUBSET S : Cardinality(s) <= n}
           good == {n \in Nat : \E g \in [Upto(n) -> Int] : Adds(g, f, Upto(n))}
<1>1. \A s \in SUBSET S : IsFiniteSet(s) /\ Cardinality(s) \in Nat /\ Cardinality(s) <= Cardinality(S)
  BY FS_Subset, FS_CardinalityType
<1>2. 0 \in good
  <2> DEFINE g == [s \in Upto(0) |-> 0]
  <2>1. \A s \in Upto(0) : s = {}
    BY <1>1, FS_EmptySet
  <2>2. Adds(g, f, Upto(0))
    BY <2>1 DEF Adds
  <2>3. g \in [Upto(0) -> Int]
    OBVIOUS
  <2> QED
    BY <2>2, <2>3
<1>3. ASSUME NEW n \in Nat, n \in good
      PROVE  n + 1 \in good
  <2>1. PICK g \in [Upto(n) -> Int] : Adds(g, f, Upto(n))
    BY <1>3
  <2> DEFINE next == [s \in Upto(n + 1) |-> IF s \in Upto(n) THEN g[s]
                                            ELSE f[Pick(s)] + g[s \ {Pick(s)}]]
  <2>2. ASSUME NEW s \in SUBSET S, s # {}
        PROVE  /\ Cardinality(s \ {Pick(s)}) = Cardinality(s) - 1
               /\ s \ {Pick(s)} \in SUBSET S /\ Pick(s) \in S /\ f[Pick(s)] \in Int
    BY <1>1, <2>2, Picked, FS_RemoveElement
  <2>3. ASSUME NEW s \in Upto(n + 1), s # {}
        PROVE  s \ {Pick(s)} \in Upto(n)
    BY <1>1, <2>2, <2>3
  <2>4. Upto(n) \subseteq Upto(n + 1)
    BY <1>1
  <2>5. {} \in Upto(n)
    BY FS_EmptySet
  <2>6. next \in [Upto(n + 1) -> Int]
    <3> SUFFICES ASSUME NEW s \in Upto(n + 1)
                 PROVE  (IF s \in Upto(n) THEN g[s] ELSE f[Pick(s)] + g[s \ {Pick(s)}]) \in Int
      OBVIOUS
    <3>1. CASE s \in Upto(n)
      BY <3>1
    <3>2. CASE s \notin Upto(n)
      <4>1. s # {} /\ s \in SUBSET S
        BY <2>5, <3>2
      <4>2. f[Pick(s)] \in Int /\ g[s \ {Pick(s)}] \in Int
        BY <2>2, <2>3, <4>1
      <4> QED
        BY <3>2, <4>2
    <3> QED
      BY <3>1, <3>2
  <2>7. ASSUME NEW s \in Upto(n + 1)
        PROVE  next[s] = IF s = {} THEN 0 ELSE f[Pick(s)] + next[s \ {Pick(s)}]
    <3>1. CASE s = {}
      BY <2>1, <2>5, <2>4, <3>1 DEF Adds
    <3>2. CASE s # {}
      <4>1. next[s \ {Pick(s)}] = g[s \ {Pick(s)}]
        BY <2>3, <2>4, <3>2
      <4>2. s \in Upto(n) => g[s] = f[Pick(s)] + g[s \ {Pick(s)}]
        BY <2>1, <3>2 DEF Adds
      <4>3. next[s] = f[Pick(s)] + g[s \ {Pick(s)}]
        BY <4>2
      <4> QED
        BY <3>2, <4>1, <4>3
    <3> QED
      BY <3>1, <3>2
  <2>8. Adds(next, f, Upto(n + 1))
    <3>1. next = [s \in Upto(n + 1) |-> next[s]]
      OBVIOUS
    <3> HIDE DEF next
    <3> QED
      BY <2>7, <3>1 DEF Adds
  <2>9. \E k \in [Upto(n + 1) -> Int] : Adds(k, f, Upto(n + 1))
    BY <2>6, <2>8
  <2> HIDE DEF next, Upto
  <2> QED
    BY <2>9
<1>4. Upto(Cardinality(S)) = SUBSET S
  BY <1>1
<1> HIDE DEF good
<1>5. S \in SUBSET S /\ Cardinality(S) \in good
  BY <1>1, <1>2, <1>3, NatRule, FS_CardinalityType
<1> QED
  BY <1>4, <1>5 DEF good

\* Solutions over the subsets of two sets agree on a set that is in both.
LEMMA SolutionsAgree ==
  ASSUME NEW S, IsFiniteSet(S), NEW f, NEW D, NEW E, SUBSET S \subseteq D, SUBSET S \subseteq E,
         NEW g, Adds(g, f, D), NEW h, Adds(h, f, E)
  PROVE  g[S] = h[S]
<1> DEFINE good == {n \in Nat : \A s \in SUBSET S : Cardinality(s) = n => g[s] = h[s]}
<1>1. \A s \in SUBSET S : IsFiniteSet(s) /\ Cardinality(s) \in Nat
  BY FS_Subset, FS_CardinalityType
<1>2. 0 \in good
  BY <1>1, FS_EmptySet DEF Adds
<1>3. ASSUME NEW n \in Nat, n \in good
      PROVE  n + 1 \in good
  <2> SUFFICES ASSUME NEW s \in SUBSET S, Cardinality(s) = n + 1
               PROVE  g[s] = h[s]
    OBVIOUS
  <2>1. s # {} /\ IsFiniteSet(s)
    <3>1. n + 1 # 0
      OBVIOUS
    <3> QED
      BY <1>1, <3>1, FS_EmptySet
  <2>2. Cardinality(s \ {Pick(s)}) = n /\ s \ {Pick(s)} \in SUBSET S
    <3>1. Cardinality(s \ {Pick(s)}) = Cardinality(s) - 1
      BY <2>1, Picked, FS_RemoveElement
    <3> QED
      BY <3>1
  <2>3. g[s \ {Pick(s)}] = h[s \ {Pick(s)}]
    BY <1>3, <2>2
  <2>4. s \in D /\ s \in E
    OBVIOUS
  <2> QED
    BY <2>1, <2>3, <2>4 DEF Adds
<1> HIDE DEF good
<1>4. S \in SUBSET S /\ Cardinality(S) \in good
  BY <1>1, <1>2, <1>3, NatRule, FS_CardinalityType
<1> QED
  BY <1>4 DEF good

-----------------------------------------------------------------------------

\* The sum over the empty set, and over a set by the element that CHOOSE picks.
LEMMA SumRecursion ==
  ASSUME NEW S, IsFiniteSet(S), NEW f, \A x \in S : f[x] \in Int
  PROVE  /\ SumFunctionOnSet(f, S) \in Int
         /\ S = {} => SumFunctionOnSet(f, S) = 0
         /\ S # {} => SumFunctionOnSet(f, S) = f[Pick(S)] + SumFunctionOnSet(f, S \ {Pick(S)})
<1> DEFINE Sol(A) == CHOOSE g : Adds(g, f, SUBSET A)
<1>1. ASSUME NEW A \in SUBSET S
      PROVE  Adds(Sol(A), f, SUBSET A) /\ SumFunctionOnSet(f, A) = Sol(A)[A] /\ IsFiniteSet(A)
  <2>1. IsFiniteSet(A)
    BY FS_Subset
  <2>2. \E g : Adds(g, f, SUBSET A)
    BY <2>1, SolutionExists
  <2>3. Adds(Sol(A), f, SUBSET A)
    BY <2>2
  <2> QED
    BY <2>1, <2>3, SumIs
<1> HIDE DEF Sol
<1>2. PICK g \in [SUBSET S -> Int] : Adds(g, f, SUBSET S)
  BY SolutionExists
<1>3. Sol(S)[S] = g[S]
  BY <1>1, <1>2, SolutionsAgree
<1>4. SumFunctionOnSet(f, S) = Sol(S)[S] /\ Adds(Sol(S), f, SUBSET S)
  BY <1>1
<1>5. S # {} => Sol(S)[S \ {Pick(S)}] = Sol(S \ {Pick(S)})[S \ {Pick(S)}]
  <2> DEFINE A == S \ {Pick(S)}
  <2>1. A \in SUBSET S
    OBVIOUS
  <2> HIDE DEF A
  <2>2. Adds(Sol(A), f, SUBSET A) /\ IsFiniteSet(A)
    BY <1>1, <2>1
  <2>3. SUBSET A \subseteq SUBSET S
    BY <2>1
  <2>4. Sol(S)[A] = Sol(A)[A]
    BY <1>4, <2>2, <2>3, SolutionsAgree
  <2> QED
    BY <2>4 DEF A
<1>6. S # {} => SumFunctionOnSet(f, S \ {Pick(S)}) = Sol(S \ {Pick(S)})[S \ {Pick(S)}]
  BY <1>1
<1>7. Sol(S)[S] = IF S = {} THEN 0 ELSE f[Pick(S)] + Sol(S)[S \ {Pick(S)}]
  BY <1>4 DEF Adds
<1> QED
  BY <1>2, <1>3, <1>4, <1>5, <1>6, <1>7

\* The order does not matter: any element may be taken first.
LEMMA SumWithout ==
  ASSUME NEW S, IsFiniteSet(S), NEW f, \A x \in S : f[x] \in Int
  PROVE  \A x \in S : SumFunctionOnSet(f, S) = f[x] + SumFunctionOnSet(f, S \ {x})
<1> DEFINE good == {n \in Nat : \A A \in SUBSET S : Cardinality(A) = n =>
                      \A x \in A : SumFunctionOnSet(f, A) = f[x] + SumFunctionOnSet(f, A \ {x})}
<1>1. \A A \in SUBSET S : IsFiniteSet(A) /\ Cardinality(A) \in Nat
  BY FS_Subset, FS_CardinalityType
<1>2. ASSUME NEW A \in SUBSET S
      PROVE  /\ SumFunctionOnSet(f, A) \in Int
             /\ A # {} => /\ SumFunctionOnSet(f, A) = f[Pick(A)] + SumFunctionOnSet(f, A \ {Pick(A)})
                          /\ Pick(A) \in A /\ f[Pick(A)] \in Int
  <2>1. IsFiniteSet(A) /\ \A x \in A : f[x] \in Int
    BY <1>1
  <2> QED
    BY <2>1, SumRecursion, Picked
<1>3. 0 \in good
  BY <1>1, FS_EmptySet
<1>4. ASSUME NEW n \in Nat, n \in good
      PROVE  n + 1 \in good
  <2> SUFFICES ASSUME NEW A \in SUBSET S, Cardinality(A) = n + 1, NEW x \in A
               PROVE  SumFunctionOnSet(f, A) = f[x] + SumFunctionOnSet(f, A \ {x})
    OBVIOUS
  <2> DEFINE y == Pick(A)
  <2>1. y \in A /\ SumFunctionOnSet(f, A) = f[y] + SumFunctionOnSet(f, A \ {y})
    BY <1>2
  <2> HIDE DEF y
  <2>2. CASE y = x
    BY <2>1, <2>2
  <2>3. CASE y # x
    <3>1. Cardinality(A \ {y}) = n /\ Cardinality(A \ {x}) = n
      BY <1>1, <2>1, FS_RemoveElement
    <3>2. SumFunctionOnSet(f, A \ {y}) = f[x] + SumFunctionOnSet(f, (A \ {y}) \ {x})
      BY <1>4, <2>3, <3>1
    <3>3. SumFunctionOnSet(f, A \ {x}) = f[y] + SumFunctionOnSet(f, (A \ {x}) \ {y})
      BY <1>4, <2>1, <2>3, <3>1
    <3>4. (A \ {y}) \ {x} = (A \ {x}) \ {y}
      OBVIOUS
    <3>5. f[x] \in Int /\ f[y] \in Int /\ SumFunctionOnSet(f, (A \ {x}) \ {y}) \in Int
      BY <1>2, <2>1
    <3>6. SumFunctionOnSet(f, A) = f[y] + (f[x] + SumFunctionOnSet(f, (A \ {x}) \ {y}))
      BY <2>1, <3>2, <3>4
    <3>7. \A i, j, k \in Int : i + (j + k) = j + (i + k)
      OBVIOUS
    <3> QED
      BY <3>3, <3>5, <3>6, <3>7
  <2> QED
    BY <2>2, <2>3
<1> HIDE DEF good
<1>5. S \in SUBSET S /\ Cardinality(S) \in good
  BY <1>1, <1>3, <1>4, NatRule, FS_CardinalityType
<1> QED
  BY <1>5 DEF good

\* The sum of integers is an integer, that of nothing is zero, and one more adds its value.
THEOREM SumAdds ==
  ASSUME NEW S, IsFiniteSet(S), NEW f, \A x \in S : f[x] \in Int
  PROVE  /\ SumFunctionOnSet(f, {}) = 0
         /\ \A A \in SUBSET S : SumFunctionOnSet(f, A) \in Int
         /\ \A A \in SUBSET S, x \in S :
              x \notin A => SumFunctionOnSet(f, A \cup {x}) = SumFunctionOnSet(f, A) + f[x]
<1>1. ASSUME NEW A \in SUBSET S
      PROVE  IsFiniteSet(A) /\ SumFunctionOnSet(f, A) \in Int
  <2>1. IsFiniteSet(A)
    BY FS_Subset
  <2> QED
    BY <2>1, SumRecursion
<1>2. SumFunctionOnSet(f, {}) = 0
  BY FS_EmptySet, SumRecursion
<1>3. ASSUME NEW A \in SUBSET S, NEW x \in S, x \notin A
      PROVE  SumFunctionOnSet(f, A \cup {x}) = SumFunctionOnSet(f, A) + f[x]
  <2> DEFINE B == A \cup {x}
  <2>1. B \in SUBSET S /\ x \in B /\ B \ {x} = A
    BY <1>3
  <2> HIDE DEF B
  <2>2. SumFunctionOnSet(f, B) = f[x] + SumFunctionOnSet(f, B \ {x})
    BY <1>1, <2>1, SumWithout
  <2>3. f[x] \in Int /\ SumFunctionOnSet(f, A) \in Int
    BY <1>1
  <2>4. SumFunctionOnSet(f, B) = f[x] + SumFunctionOnSet(f, A)
    BY <2>1, <2>2
  <2>5. \A i, j \in Int : i + j = j + i
    OBVIOUS
  <2> QED
    BY <2>3, <2>4, <2>5 DEF B
<1> QED
  BY <1>1, <1>2, <1>3

\* Functions that agree on a set have the same sum over it.
LEMMA SumSame ==
  ASSUME NEW S, IsFiniteSet(S), NEW f, NEW g, \A x \in S : f[x] \in Int /\ g[x] = f[x]
  PROVE  SumFunctionOnSet(g, S) = SumFunctionOnSet(f, S)
<1> DEFINE good == {A \in SUBSET S : SumFunctionOnSet(g, A) = SumFunctionOnSet(f, A)}
<1>1. \A x \in S : f[x] \in Int
  OBVIOUS
<1>2. \A x \in S : g[x] \in Int
  OBVIOUS
<1>3. {} \in good
  BY <1>1, <1>2, SumAdds
<1>4. ASSUME NEW A \in SUBSET S, NEW x \in S, A \in good, x \notin A
      PROVE  A \cup {x} \in good
  <2>1. SumFunctionOnSet(f, A \cup {x}) = SumFunctionOnSet(f, A) + f[x]
    BY <1>1, <1>4, SumAdds
  <2>2. SumFunctionOnSet(g, A \cup {x}) = SumFunctionOnSet(g, A) + g[x]
    BY <1>2, <1>4, SumAdds
  <2> QED
    BY <1>4, <2>1, <2>2
<1> HIDE DEF good
<1>5. S \in good
  BY <1>3, <1>4, SetRule
<1> QED
  BY <1>5 DEF good

\* Adding two functions adds their sums.
LEMMA SumPlus ==
  ASSUME NEW S, IsFiniteSet(S), NEW f, NEW g, NEW h,
         \A x \in S : f[x] \in Int /\ g[x] \in Int /\ h[x] = f[x] + g[x]
  PROVE  SumFunctionOnSet(h, S) = SumFunctionOnSet(f, S) + SumFunctionOnSet(g, S)
<1> DEFINE good == {A \in SUBSET S : SumFunctionOnSet(h, A)
                                       = SumFunctionOnSet(f, A) + SumFunctionOnSet(g, A)}
<1>1. \A x \in S : f[x] \in Int
  OBVIOUS
<1>2. \A x \in S : g[x] \in Int
  OBVIOUS
<1>3. \A x \in S : h[x] \in Int
  OBVIOUS
<1>4. {} \in good
  BY <1>1, <1>2, <1>3, SumAdds
<1>5. ASSUME NEW A \in SUBSET S, NEW x \in S, A \in good, x \notin A
      PROVE  A \cup {x} \in good
  <2>1. /\ SumFunctionOnSet(f, A \cup {x}) = SumFunctionOnSet(f, A) + f[x]
        /\ SumFunctionOnSet(f, A) \in Int /\ f[x] \in Int
    BY <1>1, <1>5, SumAdds
  <2>2. /\ SumFunctionOnSet(g, A \cup {x}) = SumFunctionOnSet(g, A) + g[x]
        /\ SumFunctionOnSet(g, A) \in Int /\ g[x] \in Int
    BY <1>2, <1>5, SumAdds
  <2>3. SumFunctionOnSet(h, A \cup {x}) = SumFunctionOnSet(h, A) + h[x] /\ h[x] = f[x] + g[x]
    BY <1>3, <1>5, SumAdds
  <2> QED
    BY <1>5, <2>1, <2>2, <2>3
<1> HIDE DEF good
<1>6. S \in good
  BY <1>4, <1>5, SetRule
<1> QED
  BY <1>6 DEF good

\* What is zero outside a part of the set sums to what it sums to there.
LEMMA SumSupport ==
  ASSUME NEW S, IsFiniteSet(S), NEW f, \A x \in S : f[x] \in Int,
         NEW T \in SUBSET S, \A x \in S \ T : f[x] = 0
  PROVE  SumFunctionOnSet(f, S) = SumFunctionOnSet(f, T)
<1> DEFINE good == {A \in SUBSET (S \ T) :
                      SumFunctionOnSet(f, T \cup A) = SumFunctionOnSet(f, T)}
<1>1. IsFiniteSet(S \ T)
  BY FS_Subset
<1>2. {} \in good
  <2>1. T \cup {} = T
    OBVIOUS
  <2> QED
    BY <2>1
<1>3. ASSUME NEW A \in SUBSET (S \ T), NEW x \in S \ T, A \in good, x \notin A
      PROVE  A \cup {x} \in good
  <2> DEFINE B == T \cup A
  <2>1. B \in SUBSET S /\ x \notin B /\ x \in S
    BY <1>3
  <2>2. T \cup (A \cup {x}) = B \cup {x}
    OBVIOUS
  <2>3. SumFunctionOnSet(f, B) = SumFunctionOnSet(f, T)
    BY <1>3
  <2> HIDE DEF B
  <2>4. SumFunctionOnSet(f, B \cup {x}) = SumFunctionOnSet(f, B) + f[x]
        /\ SumFunctionOnSet(f, B) \in Int
    BY <2>1, SumAdds
  <2>5. f[x] = 0
    OBVIOUS
  <2>6. SumFunctionOnSet(f, B \cup {x}) = SumFunctionOnSet(f, T)
    BY <2>3, <2>4, <2>5
  <2>7. SumFunctionOnSet(f, T \cup (A \cup {x})) = SumFunctionOnSet(f, T)
    BY <2>2, <2>6, Zenon
  <2> QED
    BY <2>7
<1> HIDE DEF good
<1>4. S \ T \in good
  BY <1>1, <1>2, <1>3, SetRule
<1>5. T \cup (S \ T) = S
  OBVIOUS
<1>6. SumFunctionOnSet(f, T \cup (S \ T)) = SumFunctionOnSet(f, T)
  BY <1>4 DEF good
<1> QED
  BY <1>5, <1>6

\* A sum over a part is the sum over the whole of what is zero elsewhere.
LEMMA SumOverPart ==
  ASSUME NEW S, IsFiniteSet(S), NEW T \in SUBSET S, NEW f, \A x \in T : f[x] \in Int
  PROVE  /\ SumFunctionOnSet(f, T) = SumFunctionOnSet([x \in S |-> IF x \in T THEN f[x] ELSE 0], S)
         /\ SumFunctionOnSet(f, T) \in Int
<1> DEFINE g == [x \in S |-> IF x \in T THEN f[x] ELSE 0]
<1>1. \A x \in S : g[x] \in Int
  OBVIOUS
<1>2. \A x \in S \ T : g[x] = 0
  OBVIOUS
<1>3. \A x \in T : f[x] \in Int /\ g[x] = f[x]
  OBVIOUS
<1> HIDE DEF g
<1>4. SumFunctionOnSet(g, S) = SumFunctionOnSet(g, T)
  BY <1>1, <1>2, SumSupport
<1>5. IsFiniteSet(T)
  BY FS_Subset
<1>6. SumFunctionOnSet(g, T) = SumFunctionOnSet(f, T)
  BY <1>3, <1>5, SumSame
<1>7. SumFunctionOnSet(f, T) \in Int
  BY <1>5, SumAdds
<1> QED
  BY <1>4, <1>6, <1>7 DEF g

\* A function that is nowhere greater has no greater sum.
LEMMA SumAtMost ==
  ASSUME NEW S, IsFiniteSet(S), NEW f, NEW g,
         \A x \in S : f[x] \in Int /\ g[x] \in Int /\ f[x] <= g[x]
  PROVE  SumFunctionOnSet(f, S) <= SumFunctionOnSet(g, S)
<1> DEFINE good == {A \in SUBSET S : SumFunctionOnSet(f, A) <= SumFunctionOnSet(g, A)}
<1>1. \A x \in S : f[x] \in Int
  OBVIOUS
<1>2. \A x \in S : g[x] \in Int
  OBVIOUS
<1>3. {} \in good
  <2>1. SumFunctionOnSet(f, {}) = 0 /\ SumFunctionOnSet(g, {}) = 0
    BY <1>1, <1>2, SumAdds
  <2> QED
    BY <2>1
<1>4. ASSUME NEW A \in SUBSET S, NEW x \in S, A \in good, x \notin A
      PROVE  A \cup {x} \in good
  <2>1. /\ SumFunctionOnSet(f, A \cup {x}) = SumFunctionOnSet(f, A) + f[x]
        /\ SumFunctionOnSet(f, A) \in Int /\ f[x] \in Int
    BY <1>1, <1>4, SumAdds
  <2>2. /\ SumFunctionOnSet(g, A \cup {x}) = SumFunctionOnSet(g, A) + g[x]
        /\ SumFunctionOnSet(g, A) \in Int /\ g[x] \in Int
    BY <1>2, <1>4, SumAdds
  <2>3. f[x] <= g[x]
    OBVIOUS
  <2> QED
    BY <1>4, <2>1, <2>2, <2>3
<1> HIDE DEF good
<1>5. S \in good
  BY <1>3, <1>4, SetRule
<1> QED
  BY <1>5 DEF good
\* A sum changes by what one of its terms changes by.
LEMMA SumGrows ==
  ASSUME NEW S, IsFiniteSet(S), NEW f, NEW g, \A y \in S : f[y] \in Int /\ g[y] \in Int
  PROVE  \A x \in S : (\A y \in S : y # x => g[y] = f[y])
           => SumFunctionOnSet(g, S) = SumFunctionOnSet(f, S) + (g[x] - f[x])
<1> SUFFICES ASSUME NEW x, x \in S, \A y \in S : y # x => g[y] = f[y]
             PROVE  SumFunctionOnSet(g, S) = SumFunctionOnSet(f, S) + (g[x] - f[x])
  OBVIOUS
<1> DEFINE rest == S \ {x}
<1>1. rest \in SUBSET S /\ x \notin rest /\ rest \cup {x} = S
  OBVIOUS
<1>2. f[x] \in Int /\ g[x] \in Int
  OBVIOUS
<1>3. IsFiniteSet(rest)
  BY FS_Subset
<1>4. SumFunctionOnSet(g, rest) = SumFunctionOnSet(f, rest)
  BY <1>3, SumSame
<1> HIDE DEF rest
<1>5. /\ SumFunctionOnSet(f, S) = SumFunctionOnSet(f, rest) + f[x]
      /\ SumFunctionOnSet(f, rest) \in Int
  BY <1>1, SumAdds
<1>6. SumFunctionOnSet(g, S) = SumFunctionOnSet(g, rest) + g[x]
  BY <1>1, SumAdds
<1> QED
  BY <1>2, <1>4, <1>5, <1>6
=============================================================================
