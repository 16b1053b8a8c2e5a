----------------------------- MODULE SetFacts ------------------------------
(***************************************************************************)
(* What the proofs need of finite sets: least and greatest members, which  *)
(* the operators that CHOOSE one rely on (the oldest file, the last line   *)
(* naming a value); ranks in an order; sums of numbers over a set.         *)
(***************************************************************************)
EXTENDS Integers, FiniteSetTheorems, WellFoundedInduction, TLAPS

(* A non-empty set of naturals has a least member. *)
LEMMA LeastIn ==
  ASSUME NEW S \in SUBSET Nat, S # {}
  PROVE  \E x \in S : \A y \in S : x <= y
<1> DEFINE T == {0..x : x \in S}
           R == StrictSubsetOrdering(Nat)
<1>1. T \subseteq FiniteSubsetsOf(Nat) /\ T # {}
  <2>1. \A x \in S : 0..x \in SUBSET Nat /\ IsFiniteSet(0..x)
    BY FS_Interval
  <2> QED BY <2>1 DEF FiniteSubsetsOf
<1>2. PICK t \in T : \A u \in T : ~(<<u, t>> \in R)
  <2> HIDE DEF T, R
  <2>1. IsWellFoundedOn(R, FiniteSubsetsOf(Nat))
    BY FS_StrictSubsetOrderingWellFounded DEF R
  <2> QED BY <1>1, <2>1, WFMin
<1>3. PICK x \in S : t = 0..x
  OBVIOUS
<1>4. ASSUME NEW y \in S, y < x
      PROVE  FALSE
  <2>1. 0..y \subseteq 0..x /\ 0..y # 0..x
    BY <1>4
  <2>2. <<0..y, 0..x>> \in R
    BY <2>1 DEF StrictSubsetOrdering
  <2> QED BY <1>2, <1>3, <2>2
<1> QED BY <1>4

(* A non-empty bounded one has a greatest. *)
LEMMA GreatestIn ==
  ASSUME NEW S \in SUBSET Nat, S # {}, NEW b \in Nat, \A x \in S : x <= b
  PROVE  \E x \in S : \A y \in S : y <= x
<1> DEFINE T == {n \in Nat : b - n \in S}
<1>1. T # {}
  <2>1. PICK x \in S : TRUE
    OBVIOUS
  <2>2. b - x \in Nat /\ b - (b - x) = x
    OBVIOUS
  <2> QED BY <2>1, <2>2
<1>2. PICK n \in T : \A u \in T : n <= u
  BY <1>1, LeastIn
<1>3. b - n \in S
  BY <1>2
<1>4. ASSUME NEW y \in S
      PROVE  y <= b - n
  <2>1. b - y \in Nat /\ b - (b - y) = y
    OBVIOUS
  <2>2. b - y \in T
    BY <2>1
  <2>3. n <= b - y
    BY <1>2, <2>2
  <2>4. n \in Nat
    BY <1>2
  <2> QED BY <2>1, <2>3, <2>4
<1> QED BY <1>3, <1>4

(* Among subsets of a finite set some are minimal. *)
LEMMA MinimalIn ==
  ASSUME NEW S, IsFiniteSet(S), NEW C \in SUBSET (SUBSET S), C # {}
  PROVE  \E c \in C : \A d \in C : d \subseteq c => d = c
<1> DEFINE R == StrictSubsetOrdering(S)
<1>1. C \subseteq FiniteSubsetsOf(S)
  BY FS_Subset DEF FiniteSubsetsOf
<1>2. PICK c \in C : \A d \in C : ~(<<d, c>> \in R)
  <2>1. IsWellFoundedOn(R, FiniteSubsetsOf(S))
    BY FS_StrictSubsetOrderingWellFounded
  <2> HIDE DEF R
  <2> QED BY <1>1, <2>1, WFMin
<1> QED BY <1>2 DEF StrictSubsetOrdering

-----------------------------------------------------------------------------
(* Ranks in an order. *)

(* A strict order of all of S.                                              *)
Ordering(S, R) ==
  /\ \A m \in S : <<m, m>> \notin R
  /\ \A m, n \in S : m # n => <<m, n>> \in R \/ <<n, m>> \in R
  /\ \A k, m, n \in S : <<k, m>> \in R /\ <<m, n>> \in R => <<k, n>> \in R

Rank(S, R, m) == Cardinality({n \in S : <<n, m>> \in R})

(* Ranks are those of a sequence of all of S, and no two are equal.         *)
LEMMA Ranks ==
  ASSUME NEW S, IsFiniteSet(S), NEW R, Ordering(S, R)
  PROVE  /\ \A m \in S : Rank(S, R, m) \in 0..Cardinality(S) - 1
         /\ \A m, n \in S : Rank(S, R, m) = Rank(S, R, n) => m = n
         /\ \A k \in 0..Cardinality(S) - 1 : \E m \in S : Rank(S, R, m) = k
<1> DEFINE Before(m) == {n \in S : <<n, m>> \in R}
<1>1. \A m \in S : /\ Before(m) \subseteq S /\ IsFiniteSet(Before(m)) /\ m \notin Before(m)
                   /\ Cardinality(Before(m)) \in Nat /\ Rank(S, R, m) = Cardinality(Before(m))
  <2>1. \A m \in S : Before(m) \subseteq S /\ m \notin Before(m)
    BY DEF Ordering
  <2> HIDE DEF Before
  <2>2. \A m \in S : IsFiniteSet(Before(m))
    BY <2>1, FS_Subset
  <2>3. \A m \in S : Cardinality(Before(m)) \in Nat
    BY <2>2, FS_CardinalityType
  <2>4. \A m \in S : Rank(S, R, m) = Cardinality(Before(m))
    BY DEF Rank, Before
  <2> QED BY <2>1, <2>2, <2>3, <2>4
<1>2. Cardinality(S) \in Nat
  BY FS_CardinalityType
<1>3. ASSUME NEW m \in S PROVE Rank(S, R, m) \in 0..Cardinality(S) - 1
  <2>1. Before(m) # S
    BY <1>1
  <2> HIDE DEF Before
  <2>2. Cardinality(Before(m)) < Cardinality(S)
    BY <1>1, <1>2, <2>1, FS_Subset
  <2> QED BY <1>1, <1>2, <2>2
<1>4. ASSUME NEW m \in S, NEW n \in S, <<m, n>> \in R
      PROVE  Rank(S, R, m) < Rank(S, R, n)
  <2>1. Before(m) \subseteq Before(n) /\ m \in Before(n) /\ m \notin Before(m)
    BY <1>1, <1>4 DEF Ordering
  <2> HIDE DEF Before
  <2>2. Cardinality(Before(m)) < Cardinality(Before(n))
    BY <1>1, <2>1, FS_Subset
  <2> QED BY <1>1, <2>2
<1>5. ASSUME NEW m \in S, NEW n \in S, Rank(S, R, m) = Rank(S, R, n), m # n
      PROVE  FALSE
  <2>1. <<m, n>> \in R \/ <<n, m>> \in R
    BY <1>5 DEF Ordering
  <2>2. Rank(S, R, m) \in Nat /\ Rank(S, R, n) \in Nat
    BY <1>1
  <2> QED BY <1>4, <1>5, <2>1, <2>2
<1> DEFINE T == 0..Cardinality(S) - 1
           f == [m \in S |-> Rank(S, R, m)]
<1>6. f \in Injection(S, T)
  <2>1. f \in [S -> T]
    BY <1>3
  <2>2. \A m, n \in S : f[m] = f[n] => m = n
    BY <1>5
  <2> HIDE DEF f, T
  <2> QED BY <2>1, <2>2 DEF Injection, IsInjective
<1>7. IsFiniteSet(T) /\ Cardinality(T) = Cardinality(S)
  BY SMTT(20), <1>2, FS_Interval
<1>8. f \in Surjection(S, T)
  <2> HIDE DEF f, T
  <2> QED BY <1>6, <1>7, FS_Injection
<1>9. \A k \in T : \E m \in S : f[m] = k
  <2> HIDE DEF f, T
  <2> QED BY <1>8 DEF Surjection
<1>10. \A k \in T : \E m \in S : Rank(S, R, m) = k
  BY <1>9
<1> QED BY <1>3, <1>5, <1>10

-----------------------------------------------------------------------------
(* Sums of numbers over a finite set. *)

(* The function the fold is computed by: what is chosen first is added to   *)
(* the total of the rest.                                                   *)
Chosen(s) == CHOOSE x \in s : TRUE
WithNext(f, it, s) == IF s = {} THEN 0 ELSE f[Chosen(s)] + it[s \ {Chosen(s)}]
SumTable(f, S, it) == it = [s \in SUBSET S |-> WithNext(f, it, s)]

LEMMA SumIs ==
  ASSUME NEW f, NEW S
  PROVE  SumFunctionOnSet(f, S) = (CHOOSE it : SumTable(f, S, it))[S]
BY DEF SumFunctionOnSet, FoldFunctionOnSet, MapThenFoldSet, SumTable, WithNext, Chosen

LEMMA TablesAgree ==
  ASSUME NEW S, IsFiniteSet(S), NEW T \in SUBSET S, NEW f, NEW g,
         \A x \in T : f[x] = g[x], NEW it, NEW jt, SumTable(f, S, it), SumTable(g, T, jt)
  PROVE  it[T] = jt[T]
<1> DEFINE C == {s \in SUBSET T : it[s] # jt[s]}
<1> SUFFICES ASSUME C # {} PROVE FALSE
  OBVIOUS
<1>1. IsFiniteSet(T)
  BY FS_Subset
<1>2. PICK s \in C : \A d \in C : d \subseteq s => d = s
  <2> HIDE DEF C
  <2>1. C \in SUBSET (SUBSET T)
    BY DEF C
  <2> QED BY <1>1, <2>1, MinimalIn
<1>3. /\ s \in SUBSET T /\ s \in SUBSET S
      /\ it[s] = WithNext(f, it, s) /\ jt[s] = WithNext(g, jt, s) /\ it[s] # jt[s]
  BY DEF SumTable
<1>4. s # {}
  BY <1>3 DEF WithNext
<1>5. Chosen(s) \in s
  BY <1>4 DEF Chosen
<1>6. it[s \ {Chosen(s)}] = jt[s \ {Chosen(s)}]
  BY <1>2, <1>3, <1>5
<1> QED BY <1>3, <1>4, <1>5, <1>6 DEF WithNext

LEMMA TablesExist ==
  ASSUME NEW S, IsFiniteSet(S), NEW f
  PROVE  \E it : SumTable(f, S, it)
<1> DEFINE Upto(n) == {s \in SUBSET S : Cardinality(s) <= n}
           Rec(n, it) == it = [s \in Upto(n) |-> WithNext(f, it, s)]
           Bad == {n \in Nat : ~\E it : Rec(n, it)}
<1>1. \A s \in SUBSET S : IsFiniteSet(s) /\ Cardinality(s) \in Nat
  BY FS_Subset, FS_CardinalityType
<1>2. Bad = {}
  <2> SUFFICES ASSUME Bad # {} PROVE FALSE
    OBVIOUS
  <2>1. PICK n \in Bad : \A m \in Bad : n <= m
    <3> HIDE DEF Bad
    <3>1. Bad \in SUBSET Nat
      BY DEF Bad
    <3> QED BY <3>1, LeastIn
  <2>2. CASE n = 0
    <3>1. Upto(0) = {{}}
      <4>1. \A s \in Upto(0) : s = {}
        BY <1>1, FS_EmptySet
      <4>2. {} \in Upto(0)
        BY <1>1, FS_EmptySet
      <4> HIDE DEF Upto
      <4> QED BY <4>1, <4>2
    <3>2. Rec(0, [s \in {{}} |-> 0])
      BY <3>1 DEF WithNext
    <3> QED BY <2>2, <3>2
  <2>3. CASE n # 0
    <3>1. n - 1 \in Nat /\ n \in Nat
      BY <2>3
    <3>2. PICK it : Rec(n - 1, it)
      <4>1. n - 1 \notin Bad
        <5> HIDE DEF Bad
        <5> QED BY <2>1, <3>1
      <4> HIDE DEF Rec
      <4> QED BY <3>1, <4>1
    <3> DEFINE jt == [s \in Upto(n) |-> WithNext(f, it, s)]
    <3>3. \A s \in Upto(n - 1) : s \in Upto(n) /\ jt[s] = it[s]
      <4>1. \A s \in Upto(n - 1) : s \in Upto(n)
        BY <1>1, <3>1
      <4>2. \A s \in Upto(n - 1) : it[s] = WithNext(f, it, s)
        BY <3>2
      <4> HIDE DEF Upto
      <4> QED BY <4>1, <4>2
    <3>4. ASSUME NEW s \in Upto(n) PROVE WithNext(f, it, s) = WithNext(f, jt, s)
      <4>1. CASE s = {}
        BY <4>1 DEF WithNext
      <4>2. CASE s # {}
        <5>1. Chosen(s) \in s
          BY <4>2 DEF Chosen
        <5>2. Cardinality(s \ {Chosen(s)}) = Cardinality(s) - 1
          BY <1>1, <5>1, FS_RemoveElement
        <5>3. s \ {Chosen(s)} \in Upto(n - 1)
          BY <1>1, <3>1, <5>2
        <5> HIDE DEF jt, Upto
        <5> QED BY <3>3, <4>2, <5>3 DEF WithNext
      <4> QED BY <4>1, <4>2
    <3>5. Rec(n, jt)
      <4> HIDE DEF Upto
      <4>1. jt = [s \in Upto(n) |-> WithNext(f, it, s)]
        OBVIOUS
      <4> HIDE DEF jt
      <4>2. [s \in Upto(n) |-> WithNext(f, it, s)] = [s \in Upto(n) |-> WithNext(f, jt, s)]
        BY <3>4
      <4> QED BY <4>1, <4>2
    <3> HIDE DEF Rec, jt
    <3> QED BY <3>5
  <2> QED BY <2>2, <2>3
<1>3. Cardinality(S) \in Nat
  BY FS_CardinalityType
<1>4. PICK it : Rec(Cardinality(S), it)
  <2> HIDE DEF Rec
  <2> QED BY <1>2, <1>3
<1>5. Upto(Cardinality(S)) = SUBSET S
  BY FS_Subset
<1> QED BY <1>4, <1>5 DEF SumTable

(* Equal summands, equal sums. *)
LEMMA SumSame ==
  ASSUME NEW S, IsFiniteSet(S), NEW f, NEW g, \A x \in S : f[x] = g[x]
  PROVE  SumFunctionOnSet(f, S) = SumFunctionOnSet(g, S)
<1> DEFINE it == CHOOSE h : SumTable(f, S, h)
           jt == CHOOSE h : SumTable(g, S, h)
<1>1. SumTable(f, S, it) /\ SumTable(g, S, jt)
  BY TablesExist
<1>2. SumFunctionOnSet(f, S) = it[S] /\ SumFunctionOnSet(g, S) = jt[S]
  BY SumIs
<1> HIDE DEF it, jt
<1> QED BY <1>1, <1>2, TablesAgree

LEMMA SumEmpty == ASSUME NEW f PROVE SumFunctionOnSet(f, {}) = 0
<1> DEFINE it == CHOOSE h : SumTable(f, {}, h)
<1>1. SumTable(f, {}, it)
  BY TablesExist, FS_EmptySet
<1>2. SumFunctionOnSet(f, {}) = it[{}]
  BY SumIs
<1> HIDE DEF it
<1>3. it[{}] = WithNext(f, it, {})
  BY <1>1 DEF SumTable
<1> QED BY <1>2, <1>3 DEF WithNext

LEMMA SumFirst ==
  ASSUME NEW S, IsFiniteSet(S), S # {}, NEW f
  PROVE  SumFunctionOnSet(f, S) = f[Chosen(S)] + SumFunctionOnSet(f, S \ {Chosen(S)})
<1> DEFINE T == S \ {Chosen(S)}
           it == CHOOSE h : SumTable(f, S, h)
           jt == CHOOSE h : SumTable(f, T, h)
<1>1. T \in SUBSET S /\ IsFiniteSet(T)
  BY FS_Subset
<1>2. SumTable(f, S, it) /\ SumTable(f, T, jt)
  BY <1>1, TablesExist
<1>3. SumFunctionOnSet(f, S) = it[S] /\ SumFunctionOnSet(f, T) = jt[T]
  BY SumIs
<1> HIDE DEF it, jt
<1>4. it[T] = jt[T]
  <2> HIDE DEF T
  <2> QED BY <1>1, <1>2, TablesAgree
<1>5. it[S] = f[Chosen(S)] + it[T]
  BY <1>2 DEF SumTable, WithNext
<1> QED BY <1>3, <1>4, <1>5

LEMMA SumNat ==
  ASSUME NEW S, IsFiniteSet(S), NEW f, \A x \in S : f[x] \in Nat
  PROVE  SumFunctionOnSet(f, S) \in Nat
<1> DEFINE C == {s \in SUBSET S : SumFunctionOnSet(f, s) \notin Nat}
<1> SUFFICES ASSUME C # {} PROVE FALSE
  OBVIOUS
<1>1. PICK s \in C : \A d \in C : d \subseteq s => d = s
  <2>1. C \in SUBSET (SUBSET S)
    OBVIOUS
  <2> HIDE DEF C
  <2> QED BY <2>1, MinimalIn
<1>2. s # {}
  BY SumEmpty
<1>3. Chosen(s) \in s /\ IsFiniteSet(s)
  BY <1>2, FS_Subset DEF Chosen
<1>4. SumFunctionOnSet(f, s \ {Chosen(s)}) \in Nat
  BY <1>1, <1>3
<1>5. f[Chosen(s)] \in Nat
  BY <1>3
<1>6. SumFunctionOnSet(f, s) = f[Chosen(s)] + SumFunctionOnSet(f, s \ {Chosen(s)})
  BY <1>2, <1>3, SumFirst
<1>7. SumFunctionOnSet(f, s) \in Nat
  BY <1>4, <1>5, <1>6
<1> QED BY <1>7

LEMMA SumInt ==
  ASSUME NEW S, IsFiniteSet(S), NEW f, \A x \in S : f[x] \in Int
  PROVE  SumFunctionOnSet(f, S) \in Int
<1> DEFINE C == {s \in SUBSET S : SumFunctionOnSet(f, s) \notin Int}
<1> SUFFICES ASSUME C # {} PROVE FALSE
  OBVIOUS
<1>1. PICK s \in C : \A d \in C : d \subseteq s => d = s
  <2>1. C \in SUBSET (SUBSET S)
    OBVIOUS
  <2> HIDE DEF C
  <2> QED BY <2>1, MinimalIn
<1>2. s # {}
  BY SumEmpty
<1>3. Chosen(s) \in s /\ IsFiniteSet(s)
  BY <1>2, FS_Subset DEF Chosen
<1>4. SumFunctionOnSet(f, s \ {Chosen(s)}) \in Int
  BY <1>1, <1>3
<1>5. f[Chosen(s)] \in Int
  BY <1>3
<1>6. SumFunctionOnSet(f, s) = f[Chosen(s)] + SumFunctionOnSet(f, s \ {Chosen(s)})
  BY <1>2, <1>3, SumFirst
<1>7. SumFunctionOnSet(f, s) \in Int
  BY <1>4, <1>5, <1>6
<1> QED BY <1>7

(* Any member may be taken out first. *)
LEMMA SumRemove ==
  ASSUME NEW S, IsFiniteSet(S), NEW f, \A x \in S : f[x] \in Int, NEW y \in S
  PROVE  SumFunctionOnSet(f, S) = f[y] + SumFunctionOnSet(f, S \ {y})
<1> DEFINE C == {s \in SUBSET S : \E x \in s : SumFunctionOnSet(f, s) # f[x] + SumFunctionOnSet(f, s \ {x})}
<1> SUFFICES ASSUME C # {} PROVE FALSE
  OBVIOUS
<1>1. PICK s \in C : \A d \in C : d \subseteq s => d = s
  <2>1. C \in SUBSET (SUBSET S)
    OBVIOUS
  <2> HIDE DEF C
  <2> QED BY <2>1, MinimalIn
<1>2. s \in SUBSET S
  OBVIOUS
<1>3. PICK x \in s : SumFunctionOnSet(f, s) # f[x] + SumFunctionOnSet(f, s \ {x})
  OBVIOUS
<1> DEFINE c == Chosen(s)
           rest == (s \ {c}) \ {x}
<1>4. c \in s /\ IsFiniteSet(s) /\ IsFiniteSet(s \ {x}) /\ IsFiniteSet(rest)
  BY <1>2, <1>3, FS_Subset DEF Chosen
<1>5. SumFunctionOnSet(f, s) = f[c] + SumFunctionOnSet(f, s \ {c})
  BY <1>3, <1>4, SumFirst
<1>6. x # c
  BY <1>3, <1>5
<1>7. s \ {c} \notin C /\ s \ {x} \notin C
  BY <1>1, <1>3, <1>4
<1> HIDE DEF c
<1>8. SumFunctionOnSet(f, s \ {c}) = f[x] + SumFunctionOnSet(f, rest)
  BY <1>2, <1>6, <1>7
<1>9. SumFunctionOnSet(f, s \ {x}) = f[c] + SumFunctionOnSet(f, rest)
  <2>1. (s \ {x}) \ {c} = rest
    OBVIOUS
  <2> QED BY <1>2, <1>4, <1>6, <1>7, <2>1
<1>10. f[x] \in Int /\ f[c] \in Int /\ SumFunctionOnSet(f, rest) \in Int
  BY <1>2, <1>4, SumInt
<1> HIDE DEF rest
<1> QED BY <1>3, <1>5, <1>8, <1>9, <1>10

(* The sum over a set is that over another it is matched with one to one.   *)
LEMMA SumMatched ==
  ASSUME NEW S, IsFiniteSet(S), NEW T, IsFiniteSet(T), NEW f, \A x \in S : f[x] \in Int,
         NEW g, \A y \in T : g[y] \in Int,
         NEW b \in Bijection(S, T), \A x \in S : f[x] = g[b[x]]
  PROVE  SumFunctionOnSet(f, S) = SumFunctionOnSet(g, T)
<1> DEFINE I(s) == {y \in T : \E x \in s : y = b[x]}
           C == {s \in SUBSET S : SumFunctionOnSet(f, s) # SumFunctionOnSet(g, I(s))}
<1>1. /\ \A x \in S : b[x] \in T
      /\ \A x, y \in S : b[x] = b[y] => x = y
      /\ \A y \in T : \E x \in S : b[x] = y
  BY DEF Bijection, Injection, Surjection, IsInjective
<1>2. I(S) = T
  BY <1>1
<1>3. C = {}
  <2> SUFFICES ASSUME C # {} PROVE FALSE
    OBVIOUS
  <2>1. PICK s \in C : \A d \in C : d \subseteq s => d = s
    <3>1. C \in SUBSET (SUBSET S)
      OBVIOUS
    <3> HIDE DEF C
    <3> QED BY <3>1, MinimalIn
  <2>2. s \in SUBSET S /\ SumFunctionOnSet(f, s) # SumFunctionOnSet(g, I(s))
    OBVIOUS
  <2>3. s # {}
    <3>1. I({}) = {}
      OBVIOUS
    <3> QED BY <2>2, <3>1, SumEmpty
  <2>4. PICK x \in s : TRUE
    BY <2>3
  <2>5. I(s) \ {b[x]} = I(s \ {x}) /\ b[x] \in I(s)
    BY <1>1, <2>2, <2>4
  <2>6. SumFunctionOnSet(f, s \ {x}) = SumFunctionOnSet(g, I(s \ {x}))
    <3>1. s \ {x} \notin C
      BY <2>1, <2>4
    <3> QED BY <2>2, <3>1
  <2>7. IsFiniteSet(s) /\ \A y \in s : f[y] \in Int
    BY <2>2, FS_Subset
  <2>8. IsFiniteSet(I(s)) /\ \A y \in I(s) : g[y] \in Int
    <3>1. I(s) \subseteq T
      OBVIOUS
    <3> HIDE DEF I
    <3> QED BY <3>1, FS_Subset
  <2> HIDE DEF C, I
  <2>9. SumFunctionOnSet(f, s) = f[x] + SumFunctionOnSet(f, s \ {x})
    BY <2>4, <2>7, SumRemove
  <2>10. SumFunctionOnSet(g, I(s)) = g[b[x]] + SumFunctionOnSet(g, I(s) \ {b[x]})
    BY <2>5, <2>8, SumRemove
  <2>11. f[x] = g[b[x]]
    BY <2>2, <2>4
  <2> QED BY <2>2, <2>5, <2>6, <2>9, <2>10, <2>11
<1>4. S \notin C
  BY <1>3
<1> QED BY <1>2, <1>4

(* A set in two parts. *)
LEMMA SumParts ==
  ASSUME NEW S, IsFiniteSet(S), NEW f, \A x \in S : f[x] \in Int, NEW T \in SUBSET S
  PROVE  SumFunctionOnSet(f, S) = SumFunctionOnSet(f, T) + SumFunctionOnSet(f, S \ T)
<1> DEFINE C == {s \in SUBSET T : SumFunctionOnSet(f, (S \ T) \cup s)
                                    # SumFunctionOnSet(f, s) + SumFunctionOnSet(f, S \ T)}
<1>1. IsFiniteSet(T) /\ IsFiniteSet(S \ T)
  BY FS_Subset
<1>2. SumFunctionOnSet(f, S \ T) \in Int
  BY <1>1, SumInt
<1>3. C = {}
  <2> SUFFICES ASSUME C # {} PROVE FALSE
    OBVIOUS
  <2>1. PICK s \in C : \A d \in C : d \subseteq s => d = s
    <3>1. C \in SUBSET (SUBSET T)
      OBVIOUS
    <3> HIDE DEF C
    <3> QED BY <1>1, <3>1, MinimalIn
  <2> DEFINE u == (S \ T) \cup s
  <2>2. s \in SUBSET T /\ SumFunctionOnSet(f, u) # SumFunctionOnSet(f, s) + SumFunctionOnSet(f, S \ T)
    OBVIOUS
  <2>3. s # {}
    <3>1. s = {} => u = S \ T
      OBVIOUS
    <3> QED BY <1>2, <2>2, <3>1, SumEmpty
  <2>4. PICK x \in s : TRUE
    BY <2>3
  <2>5. SumFunctionOnSet(f, (S \ T) \cup (s \ {x}))
          = SumFunctionOnSet(f, s \ {x}) + SumFunctionOnSet(f, S \ T)
    <3>1. s \ {x} \notin C
      BY <2>1, <2>4
    <3> QED BY <2>2, <3>1
  <2>6. u \ {x} = (S \ T) \cup (s \ {x}) /\ x \in u
    BY <2>2, <2>4
  <2>7. u \subseteq S /\ s \subseteq S
    BY <2>2
  <2> HIDE DEF u, C
  <2>8. IsFiniteSet(u) /\ IsFiniteSet(s) /\ IsFiniteSet(s \ {x})
    BY <2>7, FS_Subset
  <2>9. SumFunctionOnSet(f, u) = f[x] + SumFunctionOnSet(f, u \ {x})
    BY <2>6, <2>7, <2>8, SumRemove
  <2>10. SumFunctionOnSet(f, s) = f[x] + SumFunctionOnSet(f, s \ {x})
    BY <2>4, <2>7, <2>8, SumRemove
  <2>11. f[x] \in Int /\ SumFunctionOnSet(f, s \ {x}) \in Int
    BY <2>4, <2>7, <2>8, SumInt
  <2>12. SumFunctionOnSet(f, u \ {x})
           = SumFunctionOnSet(f, s \ {x}) + SumFunctionOnSet(f, S \ T)
    BY <2>5, <2>6
  <2> QED BY <1>2, <2>2, <2>9, <2>10, <2>11, <2>12
<1>4. T \notin C
  BY <1>3
<1>5. (S \ T) \cup T = S
  OBVIOUS
<1> QED BY <1>4, <1>5

(* The sum of the sums of the fibres of a function. *)
LEMMA SumFibres ==
  ASSUME NEW S, IsFiniteSet(S), NEW c, \A x \in S : c[x] \in Int,
         NEW V, IsFiniteSet(V), NEW name \in [S -> V], NEW h,
         \A v \in V : \E T : /\ \A x : x \in T <=> x \in S /\ name[x] = v
                           /\ h[v] = SumFunctionOnSet(c, T)
  PROVE  SumFunctionOnSet(h, V) = SumFunctionOnSet(c, S)
<1> DEFINE F(s) == {x \in S : name[x] \in s}
           C == {s \in SUBSET V : SumFunctionOnSet(h, s) # SumFunctionOnSet(c, F(s))}
<1>1. F(V) = S
  OBVIOUS
<1>2. \A s : IsFiniteSet(F(s)) /\ F(s) \subseteq S
  <2>1. \A s : F(s) \subseteq S
    OBVIOUS
  <2> HIDE DEF F
  <2> QED BY <2>1, FS_Subset
<1>3. \A v \in V : h[v] = SumFunctionOnSet(c, F({v})) /\ h[v] \in Int
  <2> SUFFICES ASSUME NEW v \in V PROVE h[v] = SumFunctionOnSet(c, F({v})) /\ h[v] \in Int
    OBVIOUS
  <2>1. h[v] = SumFunctionOnSet(c, F({v}))
    <3>1. PICK T : /\ \A x : x \in T <=> x \in S /\ name[x] = v
                   /\ h[v] = SumFunctionOnSet(c, T)
      OBVIOUS
    <3>2. F({v}) = T
      BY <3>1
    <3> QED BY <3>1, <3>2
  <2>2. SumFunctionOnSet(c, F({v})) \in Int
    <3> HIDE DEF F
    <3> QED BY <1>2, SumInt
  <2> QED BY <2>1, <2>2
<1>4. C = {}
  <2> SUFFICES ASSUME C # {} PROVE FALSE
    OBVIOUS
  <2>1. PICK s \in C : \A d \in C : d \subseteq s => d = s
    <3>1. C \in SUBSET (SUBSET V)
      OBVIOUS
    <3> HIDE DEF C
    <3> QED BY <3>1, MinimalIn
  <2>2. s \in SUBSET V /\ SumFunctionOnSet(h, s) # SumFunctionOnSet(c, F(s))
    OBVIOUS
  <2>3. s # {}
    <3>1. F({}) = {}
      OBVIOUS
    <3> QED BY <2>2, <3>1, SumEmpty
  <2>4. PICK v \in s : TRUE
    BY <2>3
  <2>5. SumFunctionOnSet(h, s \ {v}) = SumFunctionOnSet(c, F(s \ {v}))
    <3>1. s \ {v} \notin C
      BY <2>1, <2>4
    <3> QED BY <2>2, <3>1
  <2>6. F(s) \ F({v}) = F(s \ {v}) /\ F({v}) \subseteq F(s)
    BY <2>4
  <2>7. IsFiniteSet(s) /\ v \in V
    BY <2>2, <2>4, FS_Subset
  <2> HIDE DEF C, F
  <2>8. SumFunctionOnSet(h, s) = h[v] + SumFunctionOnSet(h, s \ {v})
    <3>1. \A x \in s : h[x] \in Int
      BY <1>3, <2>2
    <3> QED BY <2>4, <2>7, <3>1, SumRemove
  <2>9. \A x \in F(s) : c[x] \in Int
    BY <1>2
  <2>10. SumFunctionOnSet(c, F(s)) = SumFunctionOnSet(c, F({v})) + SumFunctionOnSet(c, F(s) \ F({v}))
    BY ZenonT(40), <1>2, <2>6, <2>9, SumParts
  <2> QED BY <1>3, <2>2, <2>5, <2>6, <2>7, <2>8, <2>10
<1>5. V \notin C
  BY <1>4
<1> QED BY <1>1, <1>5

(* A cardinality is a sum of ones. *)
LEMMA SumOnes ==
  ASSUME NEW S, IsFiniteSet(S), NEW T \in SUBSET S, NEW f,
         \A x \in S : f[x] = IF x \in T THEN 1 ELSE 0
  PROVE  SumFunctionOnSet(f, S) = Cardinality(T)
<1> DEFINE C == {s \in SUBSET S : SumFunctionOnSet(f, s) # Cardinality(s \cap T)}
<1>1. C = {}
  <2> SUFFICES ASSUME C # {} PROVE FALSE
    OBVIOUS
  <2>1. PICK s \in C : \A d \in C : d \subseteq s => d = s
    <3>1. C \in SUBSET (SUBSET S)
      OBVIOUS
    <3> HIDE DEF C
    <3> QED BY <3>1, MinimalIn
  <2>2. s \in SUBSET S /\ SumFunctionOnSet(f, s) # Cardinality(s \cap T)
    OBVIOUS
  <2>3. s # {}
    <3>1. {} \cap T = {}
      OBVIOUS
    <3> QED BY <2>2, <3>1, SumEmpty, FS_EmptySet
  <2>4. PICK x \in s : TRUE
    BY <2>3
  <2>5. SumFunctionOnSet(f, s \ {x}) = Cardinality((s \ {x}) \cap T)
    <3>1. s \ {x} \notin C
      BY <2>1, <2>4
    <3> QED BY <2>2, <3>1
  <2>6. IsFiniteSet(s) /\ IsFiniteSet(s \cap T) /\ \A y \in s : f[y] \in Int
    BY <2>2, FS_Subset
  <2> HIDE DEF C
  <2>7. SumFunctionOnSet(f, s) = f[x] + SumFunctionOnSet(f, s \ {x})
    BY <2>4, <2>6, SumRemove
  <2>8. CASE x \in T
    <3>1. (s \ {x}) \cap T = (s \cap T) \ {x} /\ x \in s \cap T /\ f[x] = 1
      BY <2>2, <2>4, <2>8
    <3>2. /\ Cardinality((s \cap T) \ {x}) = Cardinality(s \cap T) - 1
          /\ Cardinality(s \cap T) \in Nat
      BY <2>6, <3>1, FS_RemoveElement, FS_CardinalityType
    <3>3. SumFunctionOnSet(f, s \ {x}) = Cardinality(s \cap T) - 1
      BY <2>5, <3>1, <3>2
    <3>4. SumFunctionOnSet(f, s) = 1 + (Cardinality(s \cap T) - 1)
      BY <2>7, <3>1, <3>3
    <3> QED BY <2>2, <3>2, <3>4
  <2>9. CASE x \notin T
    <3>1. (s \ {x}) \cap T = s \cap T /\ f[x] = 0
      BY <2>2, <2>4, <2>9
    <3>2. Cardinality(s \cap T) \in Nat
      BY <2>6, FS_CardinalityType
    <3> QED BY <2>2, <2>5, <2>7, <3>1, <3>2
  <2> QED BY <2>8, <2>9
<1>2. S \notin C /\ S \cap T = T
  BY <1>1
<1> QED BY <1>2
=============================================================================
