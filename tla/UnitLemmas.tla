----------------------------- MODULE UnitLemmas -----------------------------
(***************************************************************************)
(* Lemmas that several of the proofs need: induction over the natural      *)
(* numbers, sums of a function over a finite set, and costs counted by     *)
(* sets.                                                                   *)
(***************************************************************************)
EXTENDS Integers, FiniteSets, FiniteSetTheorems, TLAPS

(* Induction, as the least number of a set of counterexamples.             *)
LEMMA LeastElement ==
  ASSUME NEW T, T \subseteq Nat, T # {}
  PROVE  \E m \in T : \A k \in T : m <= k
<1>1. IsWellFoundedOn(OpToRel(<, Nat), Nat)
  BY NatLessThanWellFounded
<1>2. PICK m \in T : \A k \in T : ~(<<k, m>> \in OpToRel(<, Nat))
  BY <1>1, WFMin
<1>3. \A k \in T : ~(k < m)
  BY <1>2 DEF OpToRel
<1> QED
  BY <1>3

(* A loop of n rounds has a value after each of them: f[i] after i rounds. *)
Rounds(f, n, b, h, V) ==
  /\ f \in [0..n -> V]
  /\ f[0] = b
  /\ \A i \in 1..n : f[i] = h[i][f[i - 1]]

LEMMA LoopExists ==
  ASSUME NEW n \in Nat, NEW V, NEW b \in V, NEW h \in [1..n -> [V -> V]]
  PROVE  \E f : Rounds(f, n, b, h, V)
<1> USE DEF Rounds
<1> DEFINE Partial(f, m) == Rounds(f, m, b, h, V)
           T == {m \in 0..n : ~\E f : Partial(f, m)}
<1>1. SUFFICES ASSUME T # {} PROVE FALSE
  <2>1. n \in 0..n
    OBVIOUS
  <2> QED
    BY <2>1
<1>2. PICK m \in T : \A k \in T : m <= k
  <2>1. T \subseteq Nat
    OBVIOUS
  <2> HIDE DEF T
  <2> QED
    BY <1>1, <2>1, LeastElement
<1>3. m # 0
  <2>1. Partial([i \in 0..0 |-> b], 0)
    OBVIOUS
  <2> QED
    BY <2>1
<1>4. m \in 1..n /\ m - 1 \in 0..n /\ m - 1 \notin T
  <2> HIDE DEF Partial
  <2>1. m \in 0..n
    BY <1>2
  <2>2. m \in 1..n /\ m - 1 \in 0..n /\ ~(m <= m - 1)
    BY <1>3, <2>1
  <2> QED
    BY <1>2, <2>2
<1>5. PICK f : Partial(f, m - 1)
  BY <1>4
<1> DEFINE v == h[m][f[m - 1]]
           g == [i \in 0..m |-> IF i = m THEN v ELSE f[i]]
<1>6. m \in Nat /\ m - 1 \in 0..(m - 1) /\ f \in [0..(m - 1) -> V]
  BY <1>4, <1>5
<1>7. v \in V
  BY <1>4, <1>6
<1>8. \A i \in 0..m : i # m => i \in 0..(m - 1)
  BY <1>6
<1>9. g \in [0..m -> V]
  <2> HIDE DEF v
  <2> QED
    BY <1>6, <1>7, <1>8
<1>10. g[0] = b
  BY <1>3, <1>5, <1>6
<1>11. ASSUME NEW i \in 1..m
       PROVE  g[i] = h[i][g[i - 1]]
  <2>1. i \in 0..m /\ i - 1 \in 0..m /\ i - 1 # m
    BY <1>6
  <2>2. CASE i = m
    BY <2>1, <2>2
  <2>3. CASE i # m
    <3>1. i \in 1..(m - 1)
      BY <1>6, <2>3
    <3> QED
      BY <1>5, <2>1, <2>3, <3>1
  <2> QED
    BY <2>2, <2>3
<1>12. Partial(g, m)
  BY <1>9, <1>10, <1>11
<1> QED
  BY <1>2, <1>12

(***************************************************************************)
(* Sums of a function over finite sets.                                    *)
(***************************************************************************)

(* F gives the sum of f over each subset of S, whichever element goes      *)
(* first.                                                                  *)
SumsBy(F, f, S) ==
  /\ F \in [SUBSET S -> Int]
  /\ F[{}] = 0
  /\ \A T \in SUBSET S : \A x \in T : F[T] = f[x] + F[T \ {x}]

LEMMA SumsByMore ==
  ASSUME NEW S, NEW a, a \notin S, NEW f, f[a] \in Int, \A x \in S : f[x] \in Int,
         NEW F, SumsBy(F, f, S)
  PROVE  \E G : SumsBy(G, f, S \cup {a})
<1> DEFINE G == [T \in SUBSET (S \cup {a}) |-> IF a \in T THEN f[a] + F[T \ {a}] ELSE F[T]]
<1>1. \A T \in SUBSET (S \cup {a}) : T \ {a} \in SUBSET S /\ (a \notin T => T \in SUBSET S)
  OBVIOUS
<1>2. \A T \in SUBSET S : F[T] \in Int
  BY DEF SumsBy
<1>3. G \in [SUBSET (S \cup {a}) -> Int]
  BY <1>1, <1>2
<1>4. G[{}] = 0
  BY DEF SumsBy
<1>5. ASSUME NEW T \in SUBSET (S \cup {a}), NEW x \in T
      PROVE  G[T] = f[x] + G[T \ {x}]
  <2>0. T \ {x} \in SUBSET (S \cup {a})
    OBVIOUS
  <2>1. CASE x = a
    BY <2>0, <2>1
  <2>2. CASE x # a /\ a \notin T
    BY <1>1, <2>0, <2>2 DEF SumsBy
  <2>3. CASE x # a /\ a \in T
    <3>1. G[T] = f[a] + F[T \ {a}] /\ G[T \ {x}] = f[a] + F[(T \ {x}) \ {a}]
      BY <2>0, <2>3
    <3>2. (T \ {x}) \ {a} = (T \ {a}) \ {x} /\ x \in T \ {a}
      BY <2>3
    <3>3. F[T \ {a}] = f[x] + F[(T \ {a}) \ {x}]
      BY <1>1, <3>2 DEF SumsBy
    <3>4. F[(T \ {a}) \ {x}] \in Int /\ f[x] \in Int
      BY <1>1, <1>2, <2>3
    <3>5. PICK u \in Int, v \in Int, w \in Int :
            u = F[(T \ {a}) \ {x}] /\ v = f[a] /\ w = f[x]
      BY <3>4
    <3>6. G[T] = v + (w + u) /\ G[T \ {x}] = v + u
      <4> HIDE DEF G
      <4> QED
        BY <3>1, <3>2, <3>3, <3>5
    <3> HIDE DEF G
    <3> QED
      BY <3>5, <3>6
  <2> QED
    BY <2>1, <2>2, <2>3
<1> HIDE DEF G
<1>6. SumsBy(G, f, S \cup {a})
  BY <1>3, <1>4, <1>5 DEF SumsBy
<1> QED
  BY <1>6

LEMMA SumsByExist ==
  ASSUME NEW S, IsFiniteSet(S), NEW f, \A x \in S : f[x] \in Int
  PROVE  \E F : SumsBy(F, f, S)
<1> DEFINE Bad(U) == U \subseteq S /\ ~\E F : SumsBy(F, f, U)
           N == {n \in Nat : \E U \in SUBSET S : Bad(U) /\ Cardinality(U) = n}
<1>1. \A U \in SUBSET S : IsFiniteSet(U) /\ Cardinality(U) \in Nat
  BY FS_Subset, FS_CardinalityType
<1> SUFFICES ASSUME N # {} PROVE FALSE
  BY <1>1
<1>2. PICK n \in N : \A k \in N : n <= k
  <2>1. N \subseteq Nat
    OBVIOUS
  <2> HIDE DEF N
  <2> QED
    BY <2>1, LeastElement
<1>3. PICK U \in SUBSET S : Bad(U) /\ Cardinality(U) = n
  OBVIOUS
<1>4. U # {}
  <2>1. SumsBy([T \in SUBSET {} |-> 0], f, {})
    BY DEF SumsBy
  <2> QED
    BY <1>3, <2>1
<1>5. PICK a : a \in U
  BY <1>4
<1>6. IsFiniteSet(U \ {a}) /\ Cardinality(U \ {a}) = n - 1 /\ n - 1 \in Nat
  BY <1>1, <1>3, <1>5, FS_RemoveElement, FS_CardinalityType
<1>7. ~Bad(U \ {a})
  <2>1. n \in Nat /\ ~(n <= n - 1)
    BY <1>2
  <2>2. n - 1 \notin N
    BY <1>2, <2>1
  <2> HIDE DEF Bad
  <2> QED
    BY <1>6, <2>2
<1>8. PICK F : SumsBy(F, f, U \ {a})
  BY <1>7
<1>9. (U \ {a}) \cup {a} = U
  BY <1>5
<1>10. \E G : SumsBy(G, f, (U \ {a}) \cup {a})
  BY <1>5, <1>8, SumsByMore
<1> QED
  BY <1>3, <1>9, <1>10

(* The fold takes the elements in some order and comes to the same.        *)
LEMMA SumsByFold ==
  ASSUME NEW S, IsFiniteSet(S), NEW f, \A x \in S : f[x] \in Int, NEW F, SumsBy(F, f, S)
  PROVE  SumFunctionOnSet(f, S) = F[S]
<1> DEFINE pick(s) == CHOOSE x \in s : TRUE
           Loop(g) == g = [s \in SUBSET S |-> IF s = {} THEN 0 ELSE f[pick(s)] + g[s \ {pick(s)}]]
           iter == CHOOSE g : Loop(g)
<1>1. SumFunctionOnSet(f, S) = iter[S]
  BY Zenon DEF SumFunctionOnSet, FoldFunctionOnSet, MapThenFoldSet
<1>2. \A s \in SUBSET S : s # {} => pick(s) \in s
  OBVIOUS
<1>3. Loop(F)
  <2> HIDE DEF pick
  <2> QED
    BY <1>2 DEF SumsBy
<1>4. Loop(iter)
  BY Zenon, <1>3
<1> DEFINE N == {n \in Nat : \E U \in SUBSET S : iter[U] # F[U] /\ Cardinality(U) = n}
<1> HIDE DEF iter
<1>5. \A U \in SUBSET S : IsFiniteSet(U) /\ Cardinality(U) \in Nat
  BY FS_Subset, FS_CardinalityType
<1>6. ASSUME N # {} PROVE FALSE
  <2>1. PICK n \in N : \A k \in N : n <= k
    <3>1. N \subseteq Nat
      OBVIOUS
    <3> HIDE DEF N
    <3> QED
      BY <1>6, <3>1, LeastElement
  <2>2. PICK U \in SUBSET S : iter[U] # F[U] /\ Cardinality(U) = n
    OBVIOUS
  <2>3. U # {}
    BY <1>4, <2>2 DEF SumsBy
  <2>4. PICK a : a = pick(U) /\ a \in U
    BY <1>2, <2>3
  <2>5. Cardinality(U \ {a}) = n - 1 /\ n - 1 \in Nat
    <3>1. IsFiniteSet(U) /\ IsFiniteSet(U \ {a}) /\ U \ {a} \in SUBSET S
      BY <1>5
    <3>2. Cardinality(U \ {a}) = n - 1
      BY <2>2, <2>4, <3>1, FS_RemoveElement
    <3> QED
      BY <1>5, <3>1, <3>2
  <2>6. iter[U \ {a}] = F[U \ {a}]
    <3>1. n \in Nat /\ ~(n <= n - 1)
      BY <2>1
    <3>2. n - 1 \notin N
      BY <2>1, <3>1
    <3> QED
      BY <2>5, <3>2
  <2>7. iter[U] = f[a] + iter[U \ {a}]
    <3> HIDE DEF pick
    <3> QED
      BY <1>4, <2>3, <2>4
  <2>8. F[U] = f[a] + F[U \ {a}]
    BY <2>4 DEF SumsBy
  <2> QED
    BY <2>2, <2>6, <2>7, <2>8
<1> QED
  BY <1>1, <1>5, <1>6

LEMMA SumFacts ==
  ASSUME NEW S, IsFiniteSet(S), NEW f, \A x \in S : f[x] \in Int
  PROVE  /\ SumFunctionOnSet(f, S) \in Int
         /\ \A x \in S : SumFunctionOnSet(f, S) = f[x] + SumFunctionOnSet(f, S \ {x})
<1>1. PICK F : SumsBy(F, f, S)
  BY SumsByExist
<1>2. SumFunctionOnSet(f, S) = F[S] /\ F[S] \in Int
  <2>1. SumFunctionOnSet(f, S) = F[S]
    BY <1>1, SumsByFold
  <2>2. F \in [SUBSET S -> Int] /\ S \in SUBSET S
    BY <1>1 DEF SumsBy
  <2> QED
    BY <2>1, <2>2
<1>3. ASSUME NEW x \in S
      PROVE  SumFunctionOnSet(f, S) = f[x] + SumFunctionOnSet(f, S \ {x})
  <2> DEFINE G == [T \in SUBSET (S \ {x}) |-> F[T]]
  <2>1. SumsBy(G, f, S \ {x})
    <3>1. \A T \in SUBSET (S \ {x}) : T \in SUBSET S /\ \A y \in T : T \ {y} \in SUBSET (S \ {x})
      OBVIOUS
    <3> QED
      BY <1>1, <3>1 DEF SumsBy
  <2>2. IsFiniteSet(S \ {x})
    BY FS_RemoveElement
  <2>3. SumFunctionOnSet(f, S \ {x}) = G[S \ {x}]
    <3> HIDE DEF G
    <3> QED
      BY <2>1, <2>2, SumsByFold
  <2> QED
    BY <1>1, <1>2, <2>3 DEF SumsBy
<1> QED
  BY <1>2, <1>3

LEMMA SumEmpty ==
  ASSUME NEW f
  PROVE  SumFunctionOnSet(f, {}) = 0
<1>1. SumsBy([T \in SUBSET {} |-> 0], f, {})
  BY DEF SumsBy
<1>2. IsFiniteSet({})
  BY FS_EmptySet
<1> QED
  BY <1>1, <1>2, SumsByFold

LEMMA SumZero ==
  ASSUME NEW S, IsFiniteSet(S), NEW f, \A x \in S : f[x] = 0
  PROVE  SumFunctionOnSet(f, S) = 0
<1>1. SumsBy([T \in SUBSET S |-> 0], f, S)
  BY DEF SumsBy
<1>2. \A x \in S : f[x] \in Int
  OBVIOUS
<1> QED
  BY <1>1, <1>2, SumsByFold

(* An element more adds what the function gives for it.                    *)
LEMMA SumMore ==
  ASSUME NEW S, IsFiniteSet(S), NEW a, a \notin S, NEW f, \A x \in S \cup {a} : f[x] \in Int
  PROVE  SumFunctionOnSet(f, S \cup {a}) = f[a] + SumFunctionOnSet(f, S)
<1>1. IsFiniteSet(S \cup {a}) /\ (S \cup {a}) \ {a} = S
  BY FS_AddElement
<1> QED
  BY <1>1, SumFacts

(* Functions that agree on a set have one sum over it.                     *)
LEMMA SumSame ==
  ASSUME NEW S, IsFiniteSet(S), NEW f, NEW g, \A x \in S : f[x] \in Int /\ g[x] = f[x]
  PROVE  SumFunctionOnSet(f, S) = SumFunctionOnSet(g, S)
<1>1. PICK F : SumsBy(F, f, S)
  BY SumsByExist
<1>2. SumsBy(F, g, S)
  BY <1>1 DEF SumsBy
<1> QED
  BY <1>1, <1>2, SumsByFold

(* What the other elements add is the same for both functions.             *)
LEMMA SumOthers ==
  ASSUME NEW S, IsFiniteSet(S), NEW f, NEW g, NEW a \in S,
         \A x \in S : f[x] \in Int,
         \A x \in S \ {a} : g[x] = f[x]
  PROVE  /\ SumFunctionOnSet(f, S \ {a}) = SumFunctionOnSet(g, S \ {a})
         /\ SumFunctionOnSet(f, S \ {a}) \in Int
<1>1. IsFiniteSet(S \ {a})
  BY FS_RemoveElement
<1> QED
  BY <1>1, SumSame, SumFacts

(***************************************************************************)
(* Counting cost by sets: a position x of cost n stands for the block of   *)
(* its n units <<x, 1>> .. <<x, n>>, and what is charged on a counter is   *)
(* the number of units of its blocks.  The lemmas say what adding or       *)
(* removing one block does to that number.                                 *)
(***************************************************************************)

Block(x, n) == {<<x, i>> : i \in 1..n}

(* A block of n units has n elements. *)
LEMMA BlockCardinality ==
  ASSUME NEW x, NEW n \in Nat
  PROVE  IsFiniteSet(Block(x, n)) /\ Cardinality(Block(x, n)) = n
<1> DEFINE f == [i \in 1..n |-> <<x, i>>]
<1>1. IsFiniteSet(1..n) /\ Cardinality(1..n) = n
  BY FS_Interval
<1>2. f \in Bijection(1..n, Block(x, n))
  <2>1. f \in [1..n -> Block(x, n)]
    BY DEF Block
  <2>2. IsInjective(f)
    BY DEF IsInjective
  <2>3. \A t \in Block(x, n) : \E i \in 1..n : f[i] = t
    BY DEF Block
  <2> QED
    BY <2>1, <2>2, <2>3 DEF Bijection, Injection, Surjection
<1>3. ExistsBijection(1..n, Block(x, n))
  BY <1>2 DEF ExistsBijection
<1> QED
  BY <1>1, <1>3, FS_Bijection

(* Adding a block of new units to a finite set adds its cost. *)
LEMMA AddBlock ==
  ASSUME NEW U, IsFiniteSet(U), NEW x, NEW n \in Nat, U \cap Block(x, n) = {}
  PROVE  /\ IsFiniteSet(U \cup Block(x, n))
         /\ Cardinality(U \cup Block(x, n)) = Cardinality(U) + n
<1>1. IsFiniteSet(Block(x, n)) /\ Cardinality(Block(x, n)) = n
  BY BlockCardinality
<1>2. Cardinality(U) \in Nat
  BY FS_CardinalityType
<1>3. Cardinality(U \cap Block(x, n)) = 0
  BY FS_EmptySet
<1> QED
  BY <1>1, <1>2, <1>3, FS_Union

(* Removing a block that a finite set contains subtracts its cost, which   *)
(* is not more than there was.                                             *)
LEMMA RemoveBlock ==
  ASSUME NEW U, IsFiniteSet(U), NEW x, NEW n \in Nat, Block(x, n) \subseteq U
  PROVE  /\ IsFiniteSet(U \ Block(x, n))
         /\ Cardinality(U \ Block(x, n)) = Cardinality(U) - n
         /\ n <= Cardinality(U)
<1>1. IsFiniteSet(Block(x, n)) /\ Cardinality(Block(x, n)) = n
  BY BlockCardinality
<1>2. Cardinality(U) \in Nat
  BY FS_CardinalityType
<1>3. U \cap Block(x, n) = Block(x, n)
  OBVIOUS
<1>4. IsFiniteSet(U \ Block(x, n))
      /\ Cardinality(U \ Block(x, n)) = Cardinality(U) - Cardinality(U \cap Block(x, n))
  BY FS_Difference
<1>5. n <= Cardinality(U)
  BY <1>1, FS_Subset
<1> QED
  BY <1>1, <1>3, <1>4, <1>5
=============================================================================
