------------------------------ MODULE FoldFacts ------------------------------
(***************************************************************************)
(* What a sequence is folded to.  The operator is a constant: an instance  *)
(* of this module for each operator the parser folds with says what        *)
(* SequencesExt!FoldLeft computes with it.  Every instance repeats what    *)
(* the module extends, so it extends no library of theorems: the one fact  *)
(* the proofs need from there, that a set of naturals has a least member,  *)
(* is a hypothesis of theirs, and SetFacts!LeastIn proves it.              *)
(***************************************************************************)
EXTENDS Integers, Sequences

CONSTANT op(_, _)

(* FoldLeft as the community modules write it: a function on the sets of    *)
(* positions, each folded but for its greatest, and that one last.          *)
Largest(S) == CHOOSE x \in S : \A y \in S : x >= y
Before(b, s, it, t) == IF t = {} THEN b ELSE op(it[t \ {Largest(t)}], s[Largest(t)])
Table(b, s, it) == it = [t \in SUBSET DOMAIN s |-> Before(b, s, it, t)]
Folded(b, s) == (CHOOSE it : Table(b, s, it))[DOMAIN s]

-----------------------------------------------------------------------------
(* What holds of the empty sequence and of a longer one if of the shorter   *)
(* holds of all.                                                            *)
LEMMA SeqInduction ==
  ASSUME \A S \in SUBSET Nat : S # {} => \E n \in S : \A m \in S : n <= m,
         NEW T, NEW Q, <<>> \in Q,
         \A s \in Seq(T), x \in T : s \in Q => Append(s, x) \in Q
  PROVE  Seq(T) \subseteq Q
<1> DEFINE Bad == {n \in Nat : \E s \in Seq(T) : s \notin Q /\ Len(s) = n}
<1> SUFFICES ASSUME NEW z \in Seq(T), z \notin Q PROVE FALSE
  OBVIOUS
<1>1. Len(z) \in Bad
  OBVIOUS
<1>2. PICK n \in Bad : \A m \in Bad : n <= m
  <2>1. Bad \in SUBSET Nat
    OBVIOUS
  <2> HIDE DEF Bad
  <2> QED BY <1>1, <2>1
<1>3. n \in Nat
  BY <1>2
<1>4. PICK s \in Seq(T) : s \notin Q /\ Len(s) = n
  BY <1>2
<1>5. s # <<>>
  BY <1>4
<1> DEFINE front == SubSeq(s, 1, Len(s) - 1)
           last == s[Len(s)]
<1>6. last \in T /\ Len(s) \in Nat /\ Len(s) # 0
  BY <1>4, <1>5
<1>7. front \in Seq(T) /\ Len(front) = n - 1
  BY <1>3, <1>4, <1>6
<1>8. s = Append(front, last)
  BY <1>3, <1>4, <1>6, <1>7
<1>9. n - 1 \in Nat /\ n - 1 < n
  BY <1>3, <1>4, <1>6
<1>10. n - 1 \notin Bad
  <2> HIDE DEF Bad
  <2> QED BY <1>2, <1>3, <1>9
<1>11. front \in Q
  BY <1>7, <1>9, <1>10
<1> QED
  <2> HIDE DEF front, last
  <2> QED BY <1>4, <1>6, <1>7, <1>8, <1>11

-----------------------------------------------------------------------------
(* The table is there, and one of a longer sequence goes on from it. *)
LEMMA LargestIn ==
  ASSUME \A S \in SUBSET Nat : S # {} => \E n \in S : \A m \in S : n <= m,
         NEW n \in Nat, NEW t \in SUBSET (1..n), t # {}
  PROVE  Largest(t) \in t /\ \A y \in t : y <= Largest(t)
<1> DEFINE D == {m \in Nat : n - m \in t}
<1>1. D \in SUBSET Nat /\ D # {}
  <2>1. PICK x \in t : TRUE
    OBVIOUS
  <2>2. n - x \in Nat /\ n - (n - x) = x
    OBVIOUS
  <2> QED BY <2>1, <2>2
<1>2. PICK k \in D : \A m \in D : k <= m
  <2> HIDE DEF D
  <2> QED BY <1>1
<1>3. n - k \in t /\ k \in Nat
  BY <1>2
<1>4. ASSUME NEW y \in t PROVE n - k >= y
  <2>1. n - y \in Nat /\ n - (n - y) = y
    OBVIOUS
  <2>2. n - y \in D
    BY <2>1
  <2>3. k <= n - y
    BY <1>2, <2>2
  <2> QED BY <1>3, <2>1, <2>3
<1>5. Largest(t) \in t /\ \A y \in t : Largest(t) >= y
  BY <1>3, <1>4 DEF Largest
<1> QED BY <1>5

LEMMA LargestOfInterval ==
  ASSUME \A S \in SUBSET Nat : S # {} => \E n \in S : \A m \in S : n <= m,
         NEW n \in Nat, n # 0
  PROVE  Largest(1..n) = n /\ (1..n) \ {n} = 1..(n - 1)
<1>1. n \in 1..n
  OBVIOUS
<1>2. Largest(1..n) \in 1..n /\ n <= Largest(1..n)
  BY <1>1, LargestIn
<1> QED BY <1>2

LEMMA TableExists ==
  ASSUME \A S \in SUBSET Nat : S # {} => \E n \in S : \A m \in S : n <= m,
         NEW b, NEW T, NEW s \in Seq(T)
  PROVE  \E it : Table(b, s, it)
<1> DEFINE Rec(n, it) == it = [t \in SUBSET (1..n) |-> Before(b, s, it, t)]
           Bad == {n \in Nat : ~\E it : Rec(n, it)}
<1>1. Len(s) \in Nat /\ DOMAIN s = 1..Len(s)
  OBVIOUS
<1>2. Bad = {}
  <2> SUFFICES ASSUME Bad # {} PROVE FALSE
    OBVIOUS
  <2>1. PICK n \in Bad : \A m \in Bad : n <= m
    <3>1. Bad \in SUBSET Nat
      BY DEF Bad
    <3> HIDE DEF Bad
    <3> QED BY <3>1
  <2>2. CASE n = 0
    <3>1. SUBSET (1..0) = {{}}
      OBVIOUS
    <3>2. Rec(0, [t \in {{}} |-> b])
      BY <3>1 DEF Before
    <3> QED BY <2>2, <3>2
  <2>3. CASE n # 0
    <3>1. n - 1 \in Nat /\ n \in Nat
      BY <2>1, <2>3
    <3>2. PICK it : Rec(n - 1, it)
      <4>1. n - 1 \notin Bad
        <5> HIDE DEF Bad
        <5> QED BY <2>1, <3>1
      <4> HIDE DEF Rec
      <4> QED BY <3>1, <4>1
    <3> DEFINE jt == [t \in SUBSET (1..n) |-> Before(b, s, it, t)]
    <3>3. \A t \in SUBSET (1..(n - 1)) : t \in SUBSET (1..n) /\ jt[t] = it[t]
      <4>1. \A t \in SUBSET (1..(n - 1)) : t \in SUBSET (1..n)
        BY <3>1
      <4>2. \A t \in SUBSET (1..(n - 1)) : it[t] = Before(b, s, it, t)
        BY <3>2
      <4> QED BY <4>1, <4>2
    <3>4. ASSUME NEW t \in SUBSET (1..n) PROVE Before(b, s, it, t) = Before(b, s, jt, t)
      <4>1. CASE t = {}
        BY <4>1 DEF Before
      <4>2. CASE t # {}
        <5>1. Largest(t) \in t /\ \A y \in t : y <= Largest(t)
          BY <3>1, <4>2, LargestIn
        <5>2. t \ {Largest(t)} \in SUBSET (1..(n - 1))
          <6> SUFFICES ASSUME NEW y \in t, y # Largest(t) PROVE y \in 1..(n - 1)
            OBVIOUS
          <6>1. y \in 1..n /\ Largest(t) \in 1..n /\ y <= Largest(t)
            BY <5>1
          <6> QED BY <3>1, <6>1
        <5> HIDE DEF jt
        <5> QED BY <3>3, <4>2, <5>2 DEF Before
      <4> QED BY <4>1, <4>2
    <3>5. Rec(n, jt)
      <4>1. jt = [t \in SUBSET (1..n) |-> Before(b, s, it, t)]
        OBVIOUS
      <4> HIDE DEF jt
      <4>2. [t \in SUBSET (1..n) |-> Before(b, s, it, t)]
              = [t \in SUBSET (1..n) |-> Before(b, s, jt, t)]
        BY <3>4
      <4> QED BY <4>1, <4>2
    <3> HIDE DEF Rec, jt
    <3> QED BY <3>5, <3>1, <2>1 DEF Bad
  <2> QED BY <2>2, <2>3
<1>3. PICK it : Rec(Len(s), it)
  <2> HIDE DEF Rec
  <2> QED BY <1>1, <1>2
<1> QED BY <1>1, <1>3 DEF Table

LEMMA TableContinues ==
  ASSUME \A S \in SUBSET Nat : S # {} => \E n \in S : \A m \in S : n <= m,
         NEW b, NEW T, NEW s \in Seq(T), NEW x \in T, NEW it, NEW jt,
         Table(b, s, it), Table(b, Append(s, x), jt)
  PROVE  it[DOMAIN s] = jt[DOMAIN s]
<1> DEFINE C == {n \in 0..Len(s) : it[1..n] # jt[1..n]}
<1>1. /\ Len(s) \in Nat /\ DOMAIN s = 1..Len(s)
      /\ DOMAIN Append(s, x) = 1..(Len(s) + 1)
      /\ \A i \in 1..Len(s) : Append(s, x)[i] = s[i]
  OBVIOUS
<1> SUFFICES ASSUME C # {} PROVE FALSE
  <2>1. Len(s) \in 0..Len(s)
    BY <1>1
  <2> QED BY <1>1, <2>1
<1>2. PICK n \in C : \A m \in C : n <= m
  <2>1. C \in SUBSET Nat
    OBVIOUS
  <2> HIDE DEF C
  <2> QED BY <2>1
<1>3. n \in Nat /\ n <= Len(s) /\ it[1..n] # jt[1..n]
  BY <1>1, <1>2
<1>4. /\ 1..n \in SUBSET DOMAIN s
      /\ 1..n \in SUBSET DOMAIN Append(s, x)
  BY <1>1, <1>3
<1>5. it[1..n] = Before(b, s, it, 1..n) /\ jt[1..n] = Before(b, Append(s, x), jt, 1..n)
  <2> HIDE DEF C
  <2> QED BY <1>4 DEF Table
<1>6. n # 0
  <2> SUFFICES ASSUME n = 0 PROVE FALSE
    OBVIOUS
  <2>1. 1..n = {}
    OBVIOUS
  <2> QED BY <1>3, <1>5, <2>1 DEF Before
<1>7. 1..n # {} /\ n - 1 \in Nat /\ n \in 1..Len(s) /\ n - 1 <= Len(s) /\ n - 1 < n
  <2> HIDE DEF C
  <2>1. n \in 1..n /\ n - 1 \in Nat /\ n - 1 < n /\ n \in 1..Len(s)
    BY <1>1, <1>3, <1>6
  <2>2. n - 1 <= Len(s)
    BY <1>1, <1>3
  <2> QED BY <2>1, <2>2
<1>8. Largest(1..n) = n /\ (1..n) \ {n} = 1..(n - 1)
  BY <1>3, <1>6, LargestOfInterval
<1>9. n - 1 \notin C
  <2> HIDE DEF C
  <2> QED BY <1>2, <1>3, <1>7
<1>10. it[1..(n - 1)] = jt[1..(n - 1)]
  BY <1>7, <1>9, <1>1
<1> HIDE DEF C
<1>11. it[1..n] = op(it[1..(n - 1)], s[n])
  BY <1>5, <1>7, <1>8 DEF Before
<1>12. jt[1..n] = op(jt[1..(n - 1)], Append(s, x)[n])
  BY <1>5, <1>7, <1>8 DEF Before
<1> QED BY <1>1, <1>3, <1>7, <1>10, <1>11, <1>12

-----------------------------------------------------------------------------
(* The equations of a fold. *)

(* Nothing leaves the start as it is. *)
THEOREM FoldEmpty == ASSUME NEW b PROVE Folded(b, <<>>) = b
<1> DEFINE it == CHOOSE h : Table(b, <<>>, h)
<1>1. DOMAIN <<>> = {} /\ SUBSET {} = {{}}
  OBVIOUS
<1>2. Table(b, <<>>, [t \in {{}} |-> b])
  BY <1>1 DEF Table, Before
<1>3. Table(b, <<>>, it)
  <2> HIDE DEF Table
  <2> QED BY <1>2
<1>4. Folded(b, <<>>) = it[{}]
  BY <1>1 DEF Folded
<1> HIDE DEF it
<1> QED BY <1>1, <1>3, <1>4 DEF Table, Before

(* A last member is folded in last. *)
THEOREM FoldAppend ==
  ASSUME \A S \in SUBSET Nat : S # {} => \E n \in S : \A m \in S : n <= m,
         NEW b, NEW T, NEW s \in Seq(T), NEW x \in T
  PROVE  Folded(b, Append(s, x)) = op(Folded(b, s), x)
<1> DEFINE it == CHOOSE h : Table(b, s, h)
           jt == CHOOSE h : Table(b, Append(s, x), h)
           n == Len(s) + 1
<1>1. /\ Append(s, x) \in Seq(T) /\ DOMAIN Append(s, x) = 1..n
      /\ Append(s, x)[n] = x /\ n \in Nat /\ n # 0 /\ DOMAIN s = 1..(n - 1)
  OBVIOUS
<1>2. Table(b, s, it)
  BY TableExists
<1>3. Table(b, Append(s, x), jt)
  BY <1>1, TableExists
<1>4. Folded(b, s) = it[DOMAIN s] /\ Folded(b, Append(s, x)) = jt[1..n]
  BY <1>1 DEF Folded
<1> HIDE DEF it, jt, n
<1>5. it[DOMAIN s] = jt[DOMAIN s]
  <2> HIDE DEF Table
  <2> QED BY <1>2, <1>3, TableContinues
<1>6. jt[1..n] = Before(b, Append(s, x), jt, 1..n)
  BY <1>1, <1>3 DEF Table
<1>7. Largest(1..n) = n /\ (1..n) \ {n} = 1..(n - 1) /\ 1..n # {}
  <2>1. n \in 1..n
    BY <1>1
  <2> QED BY <1>1, <2>1, LargestOfInterval
<1> QED BY <1>1, <1>4, <1>5, <1>6, <1>7 DEF Before

(* A set the operator stays in holds what is folded. *)
THEOREM FoldType ==
  ASSUME \A S \in SUBSET Nat : S # {} => \E n \in S : \A m \in S : n <= m,
         NEW T, NEW S, NEW b \in S, \A v \in S, x \in T : op(v, x) \in S
  PROVE  \A s \in Seq(T) : Folded(b, s) \in S
<1> DEFINE Q == {s \in Seq(T) : Folded(b, s) \in S}
<1>1. <<>> \in Q
  BY FoldEmpty
<1>2. ASSUME NEW s \in Seq(T), NEW x \in T, s \in Q PROVE Append(s, x) \in Q
  BY <1>2, FoldAppend
<1>3. Seq(T) \subseteq Q
  <2> HIDE DEF Q
  <2> QED BY <1>1, <1>2, SeqInduction
<1> QED BY <1>3

(* Two sequences one after the other. *)
THEOREM FoldConcat ==
  ASSUME \A S \in SUBSET Nat : S # {} => \E n \in S : \A m \in S : n <= m,
         NEW T, NEW b, NEW s \in Seq(T)
  PROVE  \A u \in Seq(T) : Folded(b, s \o u) = Folded(Folded(b, s), u)
<1> DEFINE Q == {u \in Seq(T) : Folded(b, s \o u) = Folded(Folded(b, s), u)}
<1>1. <<>> \in Q
  BY FoldEmpty
<1>2. ASSUME NEW u \in Seq(T), NEW x \in T, u \in Q PROVE Append(u, x) \in Q
  <2>1. s \o u \in Seq(T) /\ s \o Append(u, x) = Append(s \o u, x)
    OBVIOUS
  <2>2. Folded(b, Append(s \o u, x)) = op(Folded(b, s \o u), x)
    <3> DEFINE w == s \o u
    <3>1. w \in Seq(T)
      BY <2>1
    <3> HIDE DEF w
    <3>2. Folded(b, Append(w, x)) = op(Folded(b, w), x)
      BY <3>1, FoldAppend
    <3> QED BY <3>2 DEF w
  <2>3. Folded(Folded(b, s), Append(u, x)) = op(Folded(Folded(b, s), u), x)
    <3> DEFINE c == Folded(b, s)
    <3> HIDE DEF c
    <3>1. Folded(c, Append(u, x)) = op(Folded(c, u), x)
      BY FoldAppend
    <3> QED BY <3>1 DEF c
  <2>4. Folded(b, s \o u) = Folded(Folded(b, s), u) /\ Append(u, x) \in Seq(T)
    BY <1>2
  <2>5. Folded(b, s \o Append(u, x)) = Folded(Folded(b, s), Append(u, x))
    BY <2>1, <2>2, <2>3, <2>4
  <2> QED BY <2>4, <2>5
<1>3. Seq(T) \subseteq Q
  <2> HIDE DEF Q
  <2> QED BY <1>1, <1>2, SeqInduction
<1> QED BY <1>3
=============================================================================
