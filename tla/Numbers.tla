------------------------------ MODULE Numbers --------------------------------
(***************************************************************************)
(* Facts about natural numbers.  The least-number principle for sets, from *)
(* the well-founded ordering of finite sets by inclusion, stands in for    *)
(* induction where a proof needs the first of some ids, pools or turns of  *)
(* a loop; recursive functions on numbers follow their equations; quotient *)
(* and remainder take packed addresses apart; and powers of two are the    *)
(* numbers of subsets, which gives the power of a sum.                     *)
(***************************************************************************)
EXTENDS Integers, FiniteSets, FiniteSetTheorems, TLAPS

(* Of a nonempty set of natural numbers one is the least: the initial       *)
(* segments below its elements are finite sets, ordered by inclusion.       *)
LEMMA LeastElement ==
  ASSUME NEW T \in SUBSET Nat, T # {}
  PROVE  \E m \in T : \A y \in T : m <= y
<1> DEFINE Down == {0..t : t \in T}
<1>1. Down \subseteq FiniteSubsetsOf(Nat)
  <2>1. ASSUME NEW t \in T PROVE 0..t \subseteq Nat /\ IsFiniteSet(0..t)
    <3>1. t \in Int /\ 0 \in Int
      OBVIOUS
    <3>2. IsFiniteSet(0..t)
      BY <3>1, FS_Interval
    <3> QED BY <3>2
  <2> QED BY <2>1 DEF FiniteSubsetsOf
<1>2. Down # {}
  OBVIOUS
<1>3. IsWellFoundedOn(StrictSubsetOrdering(Nat), FiniteSubsetsOf(Nat))
  BY FS_StrictSubsetOrderingWellFounded
<1>4. PICK D \in Down : \A E \in Down : ~ (<<E, D>> \in StrictSubsetOrdering(Nat))
  <2> HIDE DEF Down
  <2> QED BY <1>1, <1>2, <1>3, WFMin
<1>5. PICK m \in T : D = 0..m
  OBVIOUS
<1>6. ASSUME NEW y \in T PROVE m <= y
  <2>1. SUFFICES ASSUME y < m PROVE FALSE
    OBVIOUS
  <2>2. 0..y \in Down /\ 0..y \subseteq 0..m
    BY <2>1
  <2>3. m \in 0..m /\ m \notin 0..y
    BY <2>1
  <2>4. 0..y # 0..m
    BY <2>3
  <2>5. <<0..y, 0..m>> \in StrictSubsetOrdering(Nat)
    <3>1. 0..y \in SUBSET Nat /\ 0..m \in SUBSET Nat
      OBVIOUS
    <3> QED BY <3>1, <2>2, <2>4, Zenon DEF StrictSubsetOrdering
  <2> QED BY <1>4, <1>5, <2>2, <2>5
<1> QED BY <1>6

(* Quotient and remainder of a number written as d * m + r.                  *)
LEMMA Remainders ==
  ASSUME NEW m \in Nat \ {0}, NEW d \in Nat, NEW r \in 0..(m - 1)
  PROVE  (d * m + r) \div m = d /\ (d * m + r) % m = r
OBVIOUS

(* Every number is its quotient times m and its remainder.                  *)
LEMMA Quotients ==
  ASSUME NEW m \in Nat \ {0}, NEW o \in Nat
  PROVE  /\ o \div m \in Nat /\ o % m \in 0..(m - 1)
         /\ (o \div m) * m + (o % m) = o
         /\ m > 1 /\ o > 0 => o \div m < o
OBVIOUS

(* Multiples of m below c * m leave room for m more.                         *)
LEMMA Below ==
  ASSUME NEW m \in Nat \ {0}, NEW c \in Nat \ {0}, NEW d \in 0..(c - 1)
  PROVE  d * m \in Nat /\ c * m \in Nat /\ d * m <= c * m - m
OBVIOUS

(* What holds at the start and is passed on by every turn holds throughout. *)
LEMMA Throughout ==
  ASSUME NEW N \in Nat, NEW B \in SUBSET Nat, 0 \in B,
         \A n \in 1..N : n - 1 \in B => n \in B
  PROVE  \A n \in 0..N : n \in B
<1> DEFINE Bad == {n \in 0..N : n \notin B}
<1>1. SUFFICES ASSUME Bad # {} PROVE FALSE
  OBVIOUS
<1>2. PICK k \in Bad : \A y \in Bad : k <= y
  <2>1. Bad \in SUBSET Nat
    OBVIOUS
  <2> HIDE DEF Bad
  <2> QED BY <1>1, <2>1, LeastElement
<1>3. k \in 1..N /\ k - 1 \in 0..N /\ k - 1 \notin Bad
  BY <1>2
<1> QED BY <1>2, <1>3

(* f is the list of the states of a loop after each number of turns: from b,  *)
(* the n-th turn being G[n], for N turns, with states in S.                 *)
Iterates(f, N, S, b, G) ==
  /\ f \in [0..N -> S] /\ f[0] = b
  /\ \A n \in 1..N : f[n] = G[n][f[n - 1]]

(* A loop computes something.                                               *)
LEMMA Iteration ==
  ASSUME NEW N \in Nat, NEW S, NEW b \in S, NEW G \in [1..N -> [S -> S]]
  PROVE  \E f : Iterates(f, N, S, b, G)
<1> DEFINE Runs(f, k) == /\ f \in [0..k -> S] /\ f[0] = b
                         /\ \A n \in 1..k : f[n] = G[n][f[n - 1]]
           Runnable == {k \in Nat : \E f : Runs(f, k)}
<1>1. 0 \in Runnable
  <2> DEFINE f == [n \in 0..0 |-> b]
  <2>1. f \in [0..0 -> S] /\ f[0] = b /\ 1..0 = {}
    OBVIOUS
  <2> QED BY <2>1
<1>2. ASSUME NEW k \in 1..N, k - 1 \in Runnable
      PROVE  k \in Runnable
  <2>1. k \in Nat /\ k > 0
    OBVIOUS
  <2>2. PICK f : Runs(f, k - 1)
    BY <1>2
  <2> DEFINE g == [n \in 0..k |-> IF n = k THEN G[k][f[k - 1]] ELSE f[n]]
  <2>3. \A n \in 0..(k - 1) : g[n] = f[n] /\ f[n] \in S
    BY <2>1, <2>2
  <2>4. G[k][f[k - 1]] \in S
    <3>1. k - 1 \in 0..(k - 1)
      BY <2>1
    <3>2. G[k] \in [S -> S] /\ f[k - 1] \in S
      BY <2>1, <2>3, <3>1
    <3> QED BY <3>2
  <2>5. g \in [0..k -> S]
    <3>1. \A n \in 0..k : n # k => n \in 0..(k - 1)
      BY <2>1
    <3>2. \A n \in 0..k : n # k => f[n] \in S
      BY <2>3, <3>1
    <3> QED BY <2>4, <3>2
  <2>6. g[0] = b
    BY <2>1, <2>2
  <2>7. g[k] = G[k][f[k - 1]]
    BY <2>1
  <2> HIDE DEF g
  <2>8. ASSUME NEW n \in 1..k PROVE g[n] = G[n][g[n - 1]]
    <3>1. n - 1 \in 0..(k - 1) /\ n \in 0..k
      BY <2>1
    <3>2. g[n - 1] = f[n - 1]
      BY <2>3, <3>1
    <3>3. CASE n = k
      BY <2>7, <3>2, <3>3
    <3>4. CASE n # k
      <4>1. n \in 1..(k - 1) /\ n \in 0..(k - 1)
        BY <2>1, <3>4
      <4>2. f[n] = G[n][f[n - 1]]
        BY <2>2, <4>1
      <4> QED BY <2>3, <3>2, <4>1, <4>2
    <3> QED BY <3>3, <3>4
  <2>9. Runs(g, k)
    BY <2>5, <2>6, <2>8
  <2> QED BY <2>1, <2>9
<1>3. N \in Runnable
  <2>1. Runnable \in SUBSET Nat /\ N \in 0..N
    OBVIOUS
  <2> HIDE DEF Runnable
  <2>2. \A n \in 0..N : n \in Runnable
    BY <1>1, <1>2, <2>1, Throughout
  <2> QED BY <2>1, <2>2
<1> QED BY <1>3 DEF Iterates

(* Powers of two are the numbers of subsets.                                *)
LEMMA PowersOfTwo ==
  ASSUME NEW a \in Nat
  PROVE  2^a \in Nat \ {0}
<1>1. IsFiniteSet(1..a) /\ Cardinality(1..a) = a
  BY FS_Interval
<1>2. IsFiniteSet(SUBSET (1..a)) /\ Cardinality(SUBSET (1..a)) = 2^a
  BY <1>1, FS_SUBSET
<1>3. 2^a \in Nat
  BY <1>2, FS_CardinalityType
<1>4. SUBSET (1..a) # {}
  OBVIOUS
<1>5. 2^a # 0
  BY <1>2, <1>4, FS_EmptySet
<1> QED BY <1>3, <1>5

(* Of one bit there are two.                                               *)
LEMMA OneBit == 2^1 = 2
<1>1. IsFiniteSet({0}) /\ Cardinality({0}) = 1
  BY FS_Singleton
<1>2. SUBSET {0} = {{}} \cup {{0}} /\ {{}} \cap {{0}} = {}
  OBVIOUS
<1>3. /\ IsFiniteSet({{}}) /\ Cardinality({{}}) = 1
      /\ IsFiniteSet({{0}}) /\ Cardinality({{0}}) = 1
  BY FS_Singleton
<1>4. Cardinality(SUBSET {0}) = 2
  <2> DEFINE S == {{}}
             T == {{0}}
  <2> HIDE DEF S, T
  <2>1. /\ IsFiniteSet(S) /\ Cardinality(S) = 1 /\ IsFiniteSet(T) /\ Cardinality(T) = 1
        /\ S \cap T = {} /\ SUBSET {0} = S \cup T
    BY <1>2, <1>3 DEF S, T
  <2>2. Cardinality(S \cup T) = Cardinality(S) + Cardinality(T) - Cardinality(S \cap T)
    BY <2>1, FS_Union
  <2>3. Cardinality(S \cap T) = 0
    BY <2>1, FS_EmptySet
  <2> DEFINE x == Cardinality(S \cup T)
  <2>4. x = 2
    <3> HIDE DEF x
    <3>1. x = 1 + 1 - 0
      BY <2>1, <2>2, <2>3 DEF x
    <3> QED BY <3>1
  <2> QED BY <2>1, <2>4
<1>5. Cardinality(SUBSET {0}) = 2^1
  BY <1>1, FS_SUBSET
<1> QED BY <1>4, <1>5

(* A subset of a set in two parts is a subset of each.                      *)
LEMMA PowerSum ==
  ASSUME NEW a \in Nat, NEW b \in Nat
  PROVE  2^(a + b) = 2^a * 2^b
<1> DEFINE A == 1..a
           B == (a + 1)..(a + b)
           Both == 1..(a + b)
           S == SUBSET Both
           T == (SUBSET A) \X (SUBSET B)
           f == [X \in S |-> <<X \cap A, X \cap B>>]
<1>1. /\ IsFiniteSet(A) /\ Cardinality(A) = a
      /\ IsFiniteSet(B) /\ Cardinality(B) = b
      /\ IsFiniteSet(Both) /\ Cardinality(Both) = a + b
  <2>1. a \in Int /\ a + 1 \in Int /\ a + b \in Int /\ 1 \in Int
    OBVIOUS
  <2>2. IsFiniteSet(A) /\ Cardinality(A) = IF 1 > a THEN 0 ELSE a - 1 + 1
    BY <2>1, FS_Interval
  <2>3. /\ IsFiniteSet(B)
        /\ Cardinality(B) = IF a + 1 > a + b THEN 0 ELSE (a + b) - (a + 1) + 1
    BY <2>1, FS_Interval
  <2>4. IsFiniteSet(Both) /\ Cardinality(Both) = IF 1 > a + b THEN 0 ELSE (a + b) - 1 + 1
    BY <2>1, FS_Interval
  <2> HIDE DEF A, B, Both
  <2> QED BY <2>2, <2>3, <2>4
<1>2. Both = A \cup B /\ A \cap B = {}
  OBVIOUS
<1> HIDE DEF A, B, Both
<1>3. /\ IsFiniteSet(S) /\ Cardinality(S) = 2^(a + b)
      /\ IsFiniteSet(SUBSET A) /\ Cardinality(SUBSET A) = 2^a
      /\ IsFiniteSet(SUBSET B) /\ Cardinality(SUBSET B) = 2^b
  BY <1>1, FS_SUBSET
<1>4. Cardinality(T) = 2^a * 2^b
  <2>1. Cardinality(T) = Cardinality(SUBSET A) * Cardinality(SUBSET B)
    BY <1>3, FS_Product
  <2> QED BY <1>3, <2>1
<1>5. f \in [S -> T]
  OBVIOUS
<1>6. \A X, Y \in S : f[X] = f[Y] => X = Y
  <2> TAKE X, Y \in S
  <2>1. X = (X \cap A) \cup (X \cap B) /\ Y = (Y \cap A) \cup (Y \cap B)
    BY <1>2
  <2> QED BY <2>1
<1>7. \A z \in T : \E X \in S : f[X] = z
  <2> TAKE z \in T
  <2>1. z = <<z[1], z[2]>> /\ z[1] \subseteq A /\ z[2] \subseteq B
    OBVIOUS
  <2> DEFINE X == z[1] \cup z[2]
  <2>2. X \in S /\ X \cap A = z[1] /\ X \cap B = z[2]
    BY <1>2, <2>1
  <2> QED BY <2>1, <2>2
<1> HIDE DEF f, S, T
<1>8. f \in Bijection(S, T)
  <2>1. IsInjective(f)
    BY <1>5, <1>6 DEF IsInjective
  <2> QED BY <1>5, <1>7, <2>1 DEF Bijection, Injection, Surjection
<1>9. Cardinality(T) = Cardinality(S)
  BY <1>3, <1>8, FS_Bijection DEF ExistsBijection
<1> QED BY <1>3, <1>4, <1>9
=============================================================================
