---------------------------- MODULE Totals_proofs ----------------------------
(***************************************************************************)
(* What a sum over a finite set is: the facts about Total that the proofs  *)
(* about the store need, each stated once.                                 *)
(***************************************************************************)
EXTENDS Totals, FiniteSetTheorems, FunctionTheorems, WellFoundedInduction, TLAPS

(* A cent is a member and a number up to the member's amount.              *)
LEMMA CentsElement ==
  ASSUME NEW f, NEW S, NEW c
  PROVE  c \in Cents(f, S) <=> \E x \in S : \E n \in 1 .. f[x] : c = <<x, n>>
BY DEF Cents

(* One member has as many cents as its amount says.                        *)
LEMMA SliceSize ==
  ASSUME NEW x, NEW n \in Nat
  PROVE  IsFiniteSet({x} \X (1 .. n)) /\ Cardinality({x} \X (1 .. n)) = n
<1>1. IsFiniteSet({x}) /\ Cardinality({x}) = 1
  BY FS_Singleton
<1>2. IsFiniteSet(1 .. n) /\ Cardinality(1 .. n) = n
  <2>1. 1 \in Int /\ n \in Int
    OBVIOUS
  <2>2. Cardinality(1 .. n) = IF 1 > n THEN 0 ELSE n - 1 + 1
    BY <2>1, FS_Interval
  <2> QED
    BY <2>1, <2>2, FS_Interval
<1> DEFINE A == {x}
<1> DEFINE B == 1 .. n
<1> HIDE DEF A, B
<1>3. IsFiniteSet(A \X B) /\ Cardinality(A \X B) = Cardinality(A) * Cardinality(B)
  BY <1>1, <1>2, FS_Product DEF A, B
<1> QED
  BY <1>1, <1>2, <1>3 DEF A, B

(* A finite set of amounts has finitely many cents.                        *)
LEMMA TotalType ==
  ASSUME NEW f, NEW S, IsFiniteSet(S), \A x \in S : f[x] \in Nat
  PROVE  IsFiniteSet(Cents(f, S)) /\ Total(f, S) \in Nat
<1> DEFINE slice == [x \in S |-> {x} \X (1 .. f[x])]
<1> DEFINE slices == {{x} \X (1 .. f[x]) : x \in S}
<1>1. slice \in Surjection(S, slices)
  BY DEF Surjection
<1>2. IsFiniteSet(slices)
  BY <1>1, FS_Surjection
<1>3. \A T \in slices : IsFiniteSet(T)
  <2> SUFFICES ASSUME NEW x \in S
               PROVE  IsFiniteSet({x} \X (1 .. f[x]))
    OBVIOUS
  <2> DEFINE n == f[x]
  <2>1. n \in Nat
    OBVIOUS
  <2> HIDE DEF n
  <2>2. IsFiniteSet({x} \X (1 .. n))
    BY <2>1, SliceSize
  <2> QED
    BY <2>2 DEF n
<1>4. IsFiniteSet(UNION slices)
  BY <1>2, <1>3, FS_UNION
<1> QED
  BY <1>4, FS_CardinalityType DEF Cents, Total

(* Nothing sums to zero.                                                   *)
LEMMA TotalEmpty ==
  ASSUME NEW f
  PROVE  Total(f, {}) = 0
<1>1. Cents(f, {}) = {}
  BY DEF Cents
<1> QED
  BY <1>1, FS_EmptySet DEF Total

(* The sum of one amount is that amount.                                   *)
LEMMA TotalOne ==
  ASSUME NEW f, NEW x, f[x] \in Nat
  PROVE  Total(f, {x}) = f[x]
<1>1. Cents(f, {x}) = {x} \X (1 .. f[x])
  BY DEF Cents
<1> QED
  BY <1>1, SliceSize DEF Total

(* The sum over a set is the sum over its two parts.                       *)
LEMMA TotalSplit ==
  ASSUME NEW f, NEW S, NEW T, IsFiniteSet(S), IsFiniteSet(T), S \cap T = {},
         \A x \in S \cup T : f[x] \in Nat
  PROVE  Total(f, S \cup T) = Total(f, S) + Total(f, T)
<1>1. Cents(f, S \cup T) = Cents(f, S) \cup Cents(f, T)
  BY CentsElement
<1>2. Cents(f, S) \cap Cents(f, T) = {}
  BY CentsElement
<1>3. IsFiniteSet(Cents(f, S)) /\ IsFiniteSet(Cents(f, T))
  BY TotalType
<1>4. Total(f, S) \in Nat /\ Total(f, T) \in Nat
  BY TotalType
<1>5. Cardinality(Cents(f, S) \cap Cents(f, T)) = 0
  BY <1>2, FS_EmptySet
<1>6. Cardinality(Cents(f, S) \cup Cents(f, T)) =
        Cardinality(Cents(f, S)) + Cardinality(Cents(f, T))
          - Cardinality(Cents(f, S) \cap Cents(f, T))
  BY <1>3, FS_Union
<1>7. Total(f, S \cup T) = Cardinality(Cents(f, S) \cup Cents(f, T))
  BY <1>1 DEF Total
<1>8. Total(f, S) = Cardinality(Cents(f, S)) /\ Total(f, T) = Cardinality(Cents(f, T))
  BY DEF Total
<1> QED
  BY <1>4, <1>5, <1>6, <1>7, <1>8

(* One more member adds its amount.                                        *)
LEMMA TotalAdd ==
  ASSUME NEW f, NEW S, IsFiniteSet(S), NEW x, x \notin S, f[x] \in Nat,
         \A y \in S : f[y] \in Nat
  PROVE  Total(f, S \cup {x}) = Total(f, S) + f[x]
<1>1. IsFiniteSet({x})
  BY FS_Singleton
<1>2. Total(f, S \cup {x}) = Total(f, S) + Total(f, {x})
  BY <1>1, TotalSplit
<1> QED
  BY <1>2, TotalOne

(* The sum depends on the amounts of the members only.                     *)
LEMMA TotalSame ==
  ASSUME NEW f, NEW g, NEW S, \A x \in S : f[x] = g[x]
  PROVE  Total(f, S) = Total(g, S)
<1>1. Cents(f, S) \subseteq Cents(g, S)
  BY CentsElement
<1>2. Cents(g, S) \subseteq Cents(f, S)
  BY CentsElement
<1> QED
  BY <1>1, <1>2 DEF Total

(* When every member has one of its own on the other side whose amount is  *)
(* no smaller, the other side's sum is no smaller.                         *)
LEMMA TotalInjection ==
  ASSUME NEW f, NEW S, NEW g, NEW T, IsFiniteSet(T),
         NEW h \in Injection(S, T),
         \A x \in S : f[x] \in Nat, \A y \in T : g[y] \in Nat,
         \A x \in S : f[x] <= g[h[x]]
  PROVE  IsFiniteSet(S) /\ Total(f, S) <= Total(g, T)
<1> DEFINE move == [c \in Cents(f, S) |-> <<h[c[1]], c[2]>>]
<1>0. /\ h \in [S -> T]
      /\ \A x, y \in S : h[x] = h[y] => x = y
  BY DEF Injection, IsInjective
<1>1. IsFiniteSet(Cents(g, T))
  BY TotalType
<1>2. move \in [Cents(f, S) -> Cents(g, T)]
  <2> SUFFICES ASSUME NEW c \in Cents(f, S)
               PROVE  <<h[c[1]], c[2]>> \in Cents(g, T)
    OBVIOUS
  <2>1. PICK x \in S : \E n \in 1 .. f[x] : c = <<x, n>>
    BY CentsElement
  <2>2. PICK n \in 1 .. f[x] : c = <<x, n>>
    BY <2>1
  <2>3. h[x] \in T /\ n \in 1 .. g[h[x]]
    BY <1>0
  <2> QED
    BY <2>2, <2>3, CentsElement
<1>3. ASSUME NEW c \in Cents(f, S), NEW d \in Cents(f, S), move[c] = move[d]
      PROVE  c = d
  <2>1. PICK x \in S : \E n \in 1 .. f[x] : c = <<x, n>>
    BY CentsElement
  <2>2. PICK n \in 1 .. f[x] : c = <<x, n>>
    BY <2>1
  <2>3. PICK y \in S : \E m \in 1 .. f[y] : d = <<y, m>>
    BY CentsElement
  <2>4. PICK m \in 1 .. f[y] : d = <<y, m>>
    BY <2>3
  <2>5. h[x] = h[y] /\ n = m
    BY <1>3, <2>2, <2>4
  <2> QED
    BY <2>2, <2>4, <2>5, <1>0
<1>4. move \in Injection(Cents(f, S), Cents(g, T))
  BY <1>2, <1>3 DEF Injection, IsInjective
<1>5. Total(f, S) <= Total(g, T)
  BY <1>1, <1>4, FS_Injection DEF Total
<1> QED
  BY <1>5, FS_Injection

(* Fewer members, no larger sum.                                           *)
LEMMA TotalSubset ==
  ASSUME NEW f, NEW T, IsFiniteSet(T), NEW S \in SUBSET T,
         \A x \in T : f[x] \in Nat
  PROVE  IsFiniteSet(S) /\ Total(f, S) <= Total(f, T)
<1>1. [x \in S |-> x] \in Injection(S, T)
  BY DEF Injection, IsInjective
<1>2. \A x \in S : f[x] <= f[[y \in S |-> y][x]]
  OBVIOUS
<1> QED
  BY <1>1, <1>2, TotalInjection

(* No amount is larger than the sum it is in.                              *)
LEMMA TotalMember ==
  ASSUME NEW f, NEW S, IsFiniteSet(S), \A x \in S : f[x] \in Nat, NEW x \in S
  PROVE  f[x] <= Total(f, S)
<1>1. {x} \in SUBSET S
  OBVIOUS
<1>2. Total(f, {x}) <= Total(f, S)
  BY <1>1, TotalSubset
<1> QED
  BY <1>2, TotalOne

(* Changing one amount changes the sum by as much.                         *)
LEMMA TotalUpdate ==
  ASSUME NEW f, NEW g, NEW S, IsFiniteSet(S), NEW x \in S,
         \A y \in S : f[y] \in Nat, g[x] \in Nat,
         \A y \in S \ {x} : g[y] = f[y]
  PROVE  /\ Total(f, S) \in Nat /\ Total(g, S) \in Nat
         /\ Total(g, S) + f[x] = Total(f, S) + g[x]
<1> DEFINE R == S \ {x}
<1>1. IsFiniteSet(R) /\ x \notin R /\ S = R \cup {x}
  BY FS_RemoveElement
<1>2. \A y \in R : f[y] \in Nat /\ g[y] \in Nat /\ f[y] = g[y]
  OBVIOUS
<1> HIDE DEF R
<1>3. Total(f, R) = Total(g, R)
  BY <1>2, TotalSame
<1>4. Total(f, R) \in Nat
  BY <1>1, <1>2, TotalType
<1>5. Total(f, S) = Total(f, R) + f[x] /\ Total(g, S) = Total(g, R) + g[x]
  BY <1>1, <1>2, TotalAdd
<1> QED
  BY <1>3, <1>4, <1>5

(* Members without an amount do not count.                                 *)
LEMMA TotalSupport ==
  ASSUME NEW f, NEW S, \A x \in S : f[x] \in Nat,
         NEW T \in SUBSET S, \A x \in S \ T : f[x] = 0
  PROVE  Total(f, S) = Total(f, T)
<1>1. Cents(f, T) \subseteq Cents(f, S)
  BY CentsElement
<1>2. ASSUME NEW c \in Cents(f, S)
      PROVE  c \in Cents(f, T)
  <2>1. PICK x \in S : \E n \in 1 .. f[x] : c = <<x, n>>
    BY CentsElement
  <2>2. f[x] # 0
    BY <2>1
  <2>3. x \in T
    BY <2>2
  <2> QED
    BY <2>1, <2>3, CentsElement
<1>3. Cents(f, S) = Cents(f, T)
  BY <1>1, <1>2
<1> QED
  BY <1>3 DEF Total

(* Some natural number of a set is the smallest.                           *)
LEMMA SmallestNumber ==
  ASSUME NEW T \in SUBSET Nat, T # {}
  PROVE  \E n \in T : \A m \in T : n <= m
<1> DEFINE R == OpToRel(<, Nat)
<1>1. IsWellFoundedOn(R, Nat)
  BY NatLessThanWellFounded
<1>2. \A m, n \in Nat : m < n => <<m, n>> \in R
  BY Zenon DEF OpToRel
<1> HIDE DEF R
<1>3. PICK n \in T : \A m \in T : ~(<<m, n>> \in R)
  BY <1>1, WFMin
<1>4. ASSUME NEW m \in T
      PROVE  n <= m
  <2>1. n \in Nat /\ m \in Nat
    OBVIOUS
  <2>2. ~(<<m, n>> \in R)
    BY <1>3
  <2>3. ~(m < n)
    BY <1>2, <2>1, <2>2, Zenon
  <2> QED
    BY <2>1, <2>3
<1> QED
  BY <1>4

(* Some amount of a finite set is the largest.                             *)
LEMMA LargestAmount ==
  ASSUME NEW f, NEW S, IsFiniteSet(S), S # {}, \A x \in S : f[x] \in Nat
  PROVE  \E x \in S : \A y \in S : f[y] <= f[x]
<1> DEFINE N == Total(f, S)
<1>1. N \in Nat /\ \A x \in S : f[x] <= N
  BY TotalType, TotalMember
<1> HIDE DEF N
<1> DEFINE T == {n \in Nat : \E x \in S : n + f[x] = N}
<1>2. T # {}
  <2>1. PICK x \in S : TRUE
    OBVIOUS
  <2>2. N - f[x] \in T
    BY <1>1
  <2> QED
    BY <2>2
<1>3. PICK n \in T : \A m \in T : n <= m
  <2>1. T \in SUBSET Nat
    OBVIOUS
  <2> HIDE DEF T
  <2> QED
    BY <1>2, <2>1, SmallestNumber
<1>4. PICK x \in S : n + f[x] = N
  OBVIOUS
<1>5. ASSUME NEW y \in S
      PROVE  f[y] <= f[x]
  <2>1. N - f[y] \in T
    BY <1>1
  <2>2. n <= N - f[y]
    BY <1>3, <2>1
  <2> QED
    BY <1>1, <1>4, <2>2
<1> QED
  BY <1>5
=============================================================================
