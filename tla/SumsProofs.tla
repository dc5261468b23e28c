------------------------------ MODULE SumsProofs ------------------------------
(***************************************************************************)
(* Numbers, images and sums: the lemmas the proofs about the stream, its   *)
(* demo, the scorer and the tables of gold share.                          *)
(***************************************************************************)
EXTENDS Sums, FiniteSetTheorems, WellFoundedInduction, TLAPS

\* Every inhabited set of naturals has a least one.
LEMMA LeastNatural ==
    ASSUME NEW T \in SUBSET Nat, T # {}
    PROVE  \E m \in T : \A n \in T : m <= n
<1>1. \E m \in T : \A n \in T : <<n, m>> \notin OpToRel(<, Nat)
  BY NatLessThanWellFounded, WFMin
<1>2. \A m, n \in Nat : <<n, m>> \notin OpToRel(<, Nat) => m <= n
  BY DEF OpToRel
<1> QED
  BY <1>1, <1>2

\* The image of a finite set under a function, and its size when no two values agree.
LEMMA FiniteImage ==
    ASSUME NEW S, IsFiniteSet(S), NEW T, NEW f \in [S -> T], \A t \in T : \E x \in S : f[x] = t
    PROVE  /\ IsFiniteSet(T)
           /\ (\A x, y \in S : f[x] = f[y] => x = y) => Cardinality(T) = Cardinality(S)
<1>1. f \in Surjection(S, T)
  BY DEF Surjection
<1>2. (\A x, y \in S : f[x] = f[y] => x = y) => f \in Injection(S, T)
  BY DEF Injection, IsInjective
<1> QED
  BY <1>1, <1>2, FS_Surjection

-----------------------------------------------------------------------------
(* Sums *)

LEMMA UnitOf ==
    ASSUME NEW D, NEW f \in [D -> Nat]
    PROVE  /\ \A u \in Units(f) : u[1] \in D /\ u[2] \in 1 .. f[u[1]] /\ u = <<u[1], u[2]>>
           /\ \A x \in D : \A i \in 1 .. f[x] : <<x, i>> \in Units(f)
<1>1. DOMAIN f = D
  OBVIOUS
<1>2. ASSUME NEW u \in Units(f)
      PROVE  u[1] \in D /\ u[2] \in 1 .. f[u[1]] /\ u = <<u[1], u[2]>>
  <2>1. PICK x \in D : u \in {x} \X (1 .. f[x])
    BY <1>1 DEF Units
  <2> QED
    BY <2>1
<1>3. ASSUME NEW x \in D, NEW i \in 1 .. f[x]
      PROVE  <<x, i>> \in Units(f)
  <2>1. <<x, i>> \in {x} \X (1 .. f[x])
    OBVIOUS
  <2> QED
    BY <1>1, <2>1 DEF Units
<1> QED
  BY <1>2, <1>3

\* The sets A[x] part U, and f[x] is the size of A[x].
Parts(D, f, A, U) ==
    /\ f \in [D -> Nat] /\ IsFiniteSet(U) /\ A \in [D -> SUBSET U]
    /\ \A x \in D : Cardinality(A[x]) = f[x]
    /\ \A a \in U : \E x \in D : a \in A[x]
    /\ \A x, y \in D : \A a \in A[x] : a \in A[y] => x = y

\* Then the sum of f is the size of U.
LEMMA SumOfSizes ==
    ASSUME NEW D, NEW f, NEW A, NEW U, Parts(D, f, A, U)
    PROVE  SumOf(f) = Cardinality(U)
<1> USE DEF Parts
<1> DEFINE num == [x \in D |-> CHOOSE b : b \in Bijection(1 .. f[x], A[x])]
           G == [u \in Units(f) |-> num[u[1]][u[2]]]
<1>1. ASSUME NEW x \in D
      PROVE  /\ num[x] \in [1 .. f[x] -> A[x]]
             /\ \A i, j \in 1 .. f[x] : num[x][i] = num[x][j] => i = j
             /\ \A a \in A[x] : \E i \in 1 .. f[x] : num[x][i] = a
  <2>1. IsFiniteSet(A[x])
    <3>1. A[x] \in SUBSET U
      OBVIOUS
    <3> QED
      BY <3>1, FS_Subset
  <2>2. \E b : b \in Bijection(1 .. f[x], A[x])
    BY <2>1, FS_CardinalityType DEF ExistsBijection
  <2>3. num[x] \in Bijection(1 .. f[x], A[x])
    BY <2>2
  <2> HIDE DEF num
  <2> QED
    BY <2>3 DEF Bijection, Injection, Surjection, IsInjective
<1>2. \A x \in D : A[x] \subseteq U
  OBVIOUS
<1> HIDE DEF num
<1>4. \A u \in Units(f) : /\ u[1] \in D /\ u[2] \in 1 .. f[u[1]] /\ u = <<u[1], u[2]>>
                          /\ G[u] \in A[u[1]] /\ G[u] = num[u[1]][u[2]]
  BY <1>1, UnitOf
<1>5. G \in [Units(f) -> U]
  <2>1. \A u \in Units(f) : num[u[1]][u[2]] \in U
    BY <1>2, <1>4
  <2> QED
    BY <2>1
<1>6. \A u, v \in Units(f) : G[u] = G[v] => u = v
  <2> SUFFICES ASSUME NEW u \in Units(f), NEW v \in Units(f), G[u] = G[v]
               PROVE  u = v
    OBVIOUS
  <2>1. u[1] = v[1]
    BY <1>4
  <2> HIDE DEF G
  <2>2. u[2] = v[2]
    BY <1>1, <1>4, <2>1
  <2> QED
    BY <1>4, <2>1, <2>2
<1>7. \A a \in U : \E u \in Units(f) : G[u] = a
  <2> SUFFICES ASSUME NEW a \in U
               PROVE  \E u \in Units(f) : G[u] = a
    OBVIOUS
  <2>1. PICK x \in D : a \in A[x]
    OBVIOUS
  <2>2. PICK i \in 1 .. f[x] : num[x][i] = a
    BY <1>1, <2>1
  <2>3. <<x, i>> \in Units(f) /\ G[<<x, i>>] = a
    BY <2>2, UnitOf
  <2> QED
    BY <2>3
<1> HIDE DEF G
<1>9. G \in Injection(Units(f), U) /\ G \in Surjection(Units(f), U)
  BY <1>5, <1>6, <1>7 DEF Injection, Surjection, IsInjective
<1>10. Cardinality(Units(f)) = Cardinality(U)
  BY <1>9, FS_Injection
<1> QED
  BY <1>10 DEF SumOf

\* A sum of zeros and ones counts the ones.
LEMMA SumOfBits ==
    ASSUME NEW D, IsFiniteSet(D), NEW f \in [D -> {0, 1}]
    PROVE  SumOf(f) \in Nat /\ SumOf(f) <= Cardinality(D)
<1> DEFINE A == [x \in D |-> IF f[x] = 1 THEN {x} ELSE {}]
           U == {x \in D : f[x] = 1}
<1>1. U \in SUBSET D /\ A \in [D -> SUBSET U]
  OBVIOUS
<1>2. \A x \in D : Cardinality(A[x]) = f[x]
  BY FS_Singleton, FS_EmptySet
<1>3. /\ \A a \in U : \E x \in D : a \in A[x]
      /\ \A x, y \in D : \A a \in A[x] : a \in A[y] => x = y
  OBVIOUS
<1>4. f \in [D -> Nat]
  OBVIOUS
<1>5. IsFiniteSet(U) /\ Cardinality(U) <= Cardinality(D)
  BY <1>1, FS_Subset
<1>6. Parts(D, f, A, U)
  BY <1>1, <1>2, <1>3, <1>4, <1>5 DEF Parts
<1> HIDE DEF A, U
<1>7. SumOf(f) = Cardinality(U)
  BY <1>6, SumOfSizes
<1> QED
  BY <1>5, <1>7, FS_CardinalityType

LEMMA SumIsNatural ==
    ASSUME NEW D, IsFiniteSet(D), NEW f \in [D -> Nat]
    PROVE  IsFiniteSet(Units(f)) /\ SumOf(f) \in Nat
<1> DEFINE P(x) == {x} \X (1 .. f[x])
           T == {P(x) : x \in D}
           h == [x \in D |-> P(x)]
<1>1. \A x \in D : IsFiniteSet(P(x))
  <2> SUFFICES ASSUME NEW x \in D
               PROVE  IsFiniteSet({x} \X (1 .. f[x]))
    OBVIOUS
  <2>1. IsFiniteSet({x})
    BY FS_Singleton
  <2>2. f[x] \in Nat /\ IsFiniteSet(1 .. f[x])
    BY FS_Interval
  <2> QED
    BY <2>1, <2>2, FS_Product
<1>2. \A t \in T : IsFiniteSet(t)
  BY <1>1
<1>3. h \in [D -> T] /\ \A t \in T : \E x \in D : h[x] = t
  OBVIOUS
<1>4. Units(f) = UNION T
  BY DEF Units
<1> HIDE DEF h, T
<1>5. IsFiniteSet(T)
  BY <1>3, FiniteImage
<1>6. IsFiniteSet(UNION T)
  BY <1>2, <1>5, FS_UNION
<1> QED
  BY <1>4, <1>6, FS_CardinalityType DEF SumOf

\* One more number.
LEMMA SumOneMore ==
    ASSUME NEW D, IsFiniteSet(D), NEW x, x \notin D, NEW f \in [D -> Nat], NEW n \in Nat,
           NEW g \in [D \cup {x} -> Nat], g[x] = n, \A y \in D : g[y] = f[y]
    PROVE  SumOf(g) = SumOf(f) + n
<1> DEFINE new == {x} \X (1 .. n)
<1>1. Units(g) = Units(f) \cup new
  <2>1. DOMAIN g = D \cup {x} /\ DOMAIN f = D
    OBVIOUS
  <2>2. Units(g) = UNION {{y} \X (1 .. g[y]) : y \in D \cup {x}}
        /\ Units(f) = UNION {{y} \X (1 .. f[y]) : y \in D}
    BY <2>1 DEF Units
  <2>3. \A y \in D : {y} \X (1 .. g[y]) = {y} \X (1 .. f[y])
    OBVIOUS
  <2>4. {x} \X (1 .. g[x]) = new
    OBVIOUS
  <2>5. \A w \in Units(g) : w \in Units(f) \cup new
    BY <2>2, <2>3, <2>4
  <2>6. \A w \in Units(f) \cup new : w \in Units(g)
    BY <2>2, <2>3, <2>4
  <2> QED
    BY <2>5, <2>6
<1>2. Units(f) \cap new = {}
  BY UnitOf
<1>3. IsFiniteSet(new) /\ Cardinality(new) = n
  <2>1. IsFiniteSet({x}) /\ Cardinality({x}) = 1
    BY FS_Singleton
  <2>2. IsFiniteSet(1 .. n) /\ Cardinality(1 .. n) = n
    BY FS_Interval
  <2>3. IsFiniteSet(new) /\ Cardinality(new) = Cardinality({x}) * Cardinality(1 .. n)
    BY <2>1, <2>2, FS_Product
  <2> QED
    BY <2>1, <2>2, <2>3
<1>4. IsFiniteSet(Units(f)) /\ SumOf(f) \in Nat
  BY SumIsNatural
<1> HIDE DEF new
<1>5. Cardinality(Units(g)) = Cardinality(Units(f)) + Cardinality(new) - Cardinality({})
  BY <1>1, <1>2, <1>3, <1>4, FS_Union
<1>6. Cardinality({}) = 0
  BY FS_EmptySet
<1> QED
  BY <1>3, <1>4, <1>5, <1>6 DEF SumOf

\* The sum of no number, and of one.
LEMMA SumOfFew ==
    /\ SumOf(<<>>) = 0
    /\ \A n \in Nat : SumOf(<<n>>) = n
<1>1. SumOf(<<>>) = 0
  <2>1. Units(<<>>) = {}
    BY DEF Units
  <2> QED
    BY <2>1, FS_EmptySet DEF SumOf
<1>2. ASSUME NEW n \in Nat
      PROVE  SumOf(<<n>>) = n
  <2> DEFINE f == <<n>>
             A == [x \in {1} |-> 1 .. n]
             U == 1 .. n
  <2>1. f \in [{1} -> Nat] /\ f[1] = n
    OBVIOUS
  <2>2. A \in [{1} -> SUBSET U] /\ \A a \in U : \E x \in {1} : a \in A[x]
    OBVIOUS
  <2>3. IsFiniteSet(U) /\ Cardinality(U) = n
    BY FS_Interval
  <2>4. \A x \in {1} : Cardinality(A[x]) = f[x]
    BY <2>3
  <2>5. \A x, y \in {1} : \A a \in A[x] : a \in A[y] => x = y
    OBVIOUS
  <2>6. Parts({1}, f, A, U)
    BY <2>1, <2>2, <2>3, <2>4, <2>5 DEF Parts
  <2> HIDE DEF f, A, U
  <2>7. SumOf(f) = Cardinality(U)
    BY <2>6, SumOfSizes
  <2> QED
    BY <2>3, <2>7 DEF f
<1> QED
  BY <1>1, <1>2
=============================================================================
