--------------------------- MODULE TotalsTheorems ---------------------------
(***************************************************************************)
(* The laws of Total, for a function from a finite set to the naturals;    *)
(* the least and the largest number of a set, and induction over sets.     *)
(***************************************************************************)
EXTENDS Totals, FiniteSetTheorems, WellFoundedInduction, TLAPS

\* The coins of all holders but a.
OtherCoins(f, S, a) == UNION {CoinsOf(b, f[b]) : b \in S \ {a}}

(* A holder of n coins contributes n elements.                             *)
LEMMA CoinsOfCount ==
  ASSUME NEW a, NEW n \in Nat
  PROVE  IsFiniteSet(CoinsOf(a, n)) /\ Cardinality(CoinsOf(a, n)) = n
<1>1. IsFiniteSet({a}) /\ Cardinality({a}) = 1
  BY FS_Singleton
<1>2. IsFiniteSet(1 .. n) /\ Cardinality(1 .. n) = n
  BY FS_Interval
<1>3. Cardinality({a} \X (1 .. n)) = 1 * n
  BY <1>1, <1>2, FS_Product
<1>4. QED
  BY <1>1, <1>2, <1>3, FS_Product DEF CoinsOf

(* There are finitely many coins.                                          *)
LEMMA CoinsFinite ==
  ASSUME NEW S, IsFiniteSet(S), NEW f \in [S -> Nat], NEW T \in SUBSET S
  PROVE  IsFiniteSet(UNION {CoinsOf(b, f[b]) : b \in T})
<1>1. IsFiniteSet(T)
  BY FS_Subset
<1> DEFINE Parts == {CoinsOf(b, f[b]) : b \in T}
           g     == [b \in T |-> CoinsOf(b, f[b])]
<1>2. g \in Surjection(T, Parts)
  BY DEF Surjection
<1>3. IsFiniteSet(Parts)
  BY <1>1, <1>2, FS_Surjection DEF ExistsSurjection
<1>4. \A P \in Parts : IsFiniteSet(P)
  BY CoinsOfCount
<1>5. QED
  BY <1>3, <1>4, FS_UNION

(* The holders' coins are disjoint, so a holder's coins and those of the   *)
(* others add up.                                                          *)
LEMMA TotalSplit ==
  ASSUME NEW S, IsFiniteSet(S), NEW f \in [S -> Nat], NEW a \in S
  PROVE  /\ Cardinality(OtherCoins(f, S, a)) \in Nat
         /\ Total(f) = Cardinality(OtherCoins(f, S, a)) + f[a]
<1> DEFINE O == OtherCoins(f, S, a)
           C == CoinsOf(a, f[a])
<1>1. IsFiniteSet(O)
  BY CoinsFinite DEF OtherCoins
<1>2. IsFiniteSet(C) /\ Cardinality(C) = f[a]
  BY CoinsOfCount
<1>3. O \cap C = {}
  BY DEF OtherCoins, CoinsOf
<1>4. Coins(f) = O \cup C
  BY DEF Coins, OtherCoins
<1>5. Cardinality(O \cap C) = 0
  BY <1>3, FS_EmptySet
<1>6. Cardinality(O \cup C) = Cardinality(O) + Cardinality(C) - Cardinality(O \cap C)
  BY <1>1, <1>2, FS_Union
<1>7. Cardinality(O) \in Nat
  BY <1>1, FS_CardinalityType
<1> HIDE DEF O, C
<1>8. Total(f) = Cardinality(O) + f[a]
  BY <1>2, <1>4, <1>5, <1>6, <1>7 DEF Total
<1>9. QED
  BY <1>7, <1>8 DEF O

(* The total is a natural number.                                          *)
THEOREM TotalType ==
  ASSUME NEW S, IsFiniteSet(S), NEW f \in [S -> Nat]
  PROVE  Total(f) \in Nat
<1>1. IsFiniteSet(Coins(f))
  BY CoinsFinite DEF Coins
<1>2. QED
  BY <1>1, FS_CardinalityType DEF Total

(* Nobody holds more than the total.                                       *)
THEOREM TotalAtLeast ==
  ASSUME NEW S, IsFiniteSet(S), NEW f \in [S -> Nat], NEW a \in S
  PROVE  f[a] <= Total(f)
  BY TotalSplit

(* Changing what one holder has changes the total by as much.              *)
THEOREM TotalUpdate ==
  ASSUME NEW S, IsFiniteSet(S), NEW f \in [S -> Nat], NEW a \in S, NEW n \in Nat
  PROVE  /\ WithBalance(f, a, n) \in [S -> Nat]
         /\ Total(WithBalance(f, a, n)) = Total(f) - f[a] + n
<1> DEFINE g == WithBalance(f, a, n)
<1>1. g \in [S -> Nat] /\ g[a] = n
  BY DEF WithBalance
<1>2. OtherCoins(g, S, a) = OtherCoins(f, S, a)
  BY DEF OtherCoins, WithBalance
<1> HIDE DEF g
<1>3. /\ Cardinality(OtherCoins(f, S, a)) \in Nat
      /\ Total(f) = Cardinality(OtherCoins(f, S, a)) + f[a]
  BY TotalSplit
<1>4. Total(g) = Cardinality(OtherCoins(g, S, a)) + g[a]
  BY <1>1, TotalSplit
<1>5. Total(g) = Total(f) - f[a] + n
  BY <1>1, <1>2, <1>3, <1>4
<1>6. QED
  BY <1>1, <1>5 DEF g

(* The same for two functions that differ in one argument.                 *)
THEOREM TotalChanged ==
  ASSUME NEW S, IsFiniteSet(S), NEW f \in [S -> Nat], NEW g \in [S -> Nat], NEW a \in S,
         \A b \in S : b # a => g[b] = f[b]
  PROVE  Total(g) = Total(f) - f[a] + g[a]
<1>1. PICK n \in Nat : n = g[a]
  OBVIOUS
<1>2. PICK h : h = WithBalance(f, a, n)
  OBVIOUS
<1>3. h \in [S -> Nat] /\ \A b \in S : h[b] = g[b]
  BY <1>1, <1>2 DEF WithBalance
<1>4. h = g
  BY <1>3
<1>5. Total(h) = Total(f) - f[a] + n
  BY <1>2, TotalUpdate
<1>6. QED
  BY <1>1, <1>4, <1>5

(* A gain of one holder is a gain of the total.                            *)
THEOREM TotalGain ==
  ASSUME NEW S, IsFiniteSet(S), NEW f \in [S -> Nat], NEW a \in S, NEW n \in Nat
  PROVE  /\ WithBalance(f, a, f[a] + n) \in [S -> Nat]
         /\ Total(WithBalance(f, a, f[a] + n)) = Total(f) + n
<1>1. PICK k \in Nat : k = f[a] + n
  OBVIOUS
<1>2. /\ WithBalance(f, a, k) \in [S -> Nat]
      /\ Total(WithBalance(f, a, k)) = Total(f) - f[a] + k
  BY TotalUpdate
<1>3. Total(f) \in Nat
  BY TotalType
<1>4. QED
  BY <1>1, <1>2, <1>3

(* Two holders lose everything.                                            *)
THEOREM TotalTwoEmptied ==
  ASSUME NEW S, IsFiniteSet(S), NEW f \in [S -> Nat], NEW a \in S, NEW b \in S, a # b
  PROVE  /\ WithBalance(WithBalance(f, a, 0), b, 0) \in [S -> Nat]
         /\ Total(WithBalance(WithBalance(f, a, 0), b, 0)) = Total(f) - f[a] - f[b]
<1>1. PICK g : g = WithBalance(f, a, 0)
  OBVIOUS
<1>2. Total(g) = Total(f) - f[a] + 0
  BY <1>1, TotalUpdate
<1>7. g \in [S -> Nat]
  BY <1>1 DEF WithBalance
<1>3. g[b] = f[b]
  BY <1>1 DEF WithBalance
<1>8. WithBalance(g, b, 0) \in [S -> Nat]
  BY <1>7 DEF WithBalance
<1>9. \A h \in [S -> Nat] : \A c \in S : Total(WithBalance(h, c, 0)) = Total(h) - h[c] + 0
  BY TotalUpdate
<1>4. Total(WithBalance(g, b, 0)) = Total(g) - g[b] + 0
  BY <1>7, <1>9
<1>5. Total(f) \in Nat
  BY TotalType
<1>6. QED
  BY <1>1, <1>2, <1>3, <1>4, <1>5, <1>8

(* Nobody holds anything when all have nothing.                            *)
THEOREM TotalZero ==
  ASSUME NEW S, NEW f \in [S -> Nat], \A a \in S : f[a] = 0
  PROVE  Total(f) = 0
<1>1. \A a \in S : CoinsOf(a, f[a]) = {}
  BY DEF CoinsOf
<1>2. Coins(f) = {}
  BY <1>1 DEF Coins
<1>3. QED
  BY <1>2, FS_EmptySet DEF Total

(* A new holder adds what it has.                                          *)
THEOREM TotalExtended ==
  ASSUME NEW S, IsFiniteSet(S), NEW f \in [S -> Nat], NEW a, a \notin S,
         NEW g \in [S \cup {a} -> Nat], \A b \in S : g[b] = f[b]
  PROVE  Total(g) = Total(f) + g[a]
<1>1. PICK T : T = S \cup {a}
  OBVIOUS
<1>2. IsFiniteSet(T)
  BY <1>1, FS_AddElement
<1>3. OtherCoins(g, T, a) = Coins(f)
  BY <1>1 DEF OtherCoins, Coins
<1>4. /\ Cardinality(OtherCoins(g, T, a)) \in Nat
      /\ Total(g) = Cardinality(OtherCoins(g, T, a)) + g[a]
  BY <1>1, <1>2, TotalSplit
<1> QED
  BY <1>3, <1>4 DEF Total

(* The total of one holder is what it has.                                 *)
THEOREM TotalOfOne ==
  ASSUME NEW a, NEW g \in [{a} -> Nat]
  PROVE  Total(g) = g[a]
<1>1. DOMAIN g = {a} /\ g[a] \in Nat
  OBVIOUS
<1>2. Coins(g) = CoinsOf(a, g[a])
  BY <1>1 DEF Coins
<1> QED
  BY <1>1, <1>2, CoinsOfCount DEF Total
-----------------------------------------------------------------------------
(* A set of natural numbers has a least one: < is well-founded.            *)
LEMMA LeastElement ==
  ASSUME NEW T, T \subseteq Nat, T # {}
  PROVE  \E x \in T : \A y \in T : x <= y
<1>1. PICK R : R = {p \in Nat \X Nat : p[1] < p[2]}
  OBVIOUS
<1>2. IsWellFoundedOn(R, Nat)
  BY <1>1, NatLessThanWellFounded DEF OpToRel
<1>3. PICK x \in T : \A y \in T : ~ (<<y, x>> \in R)
  BY <1>2, WFMin
<1>4. \A y \in T : ~ (y < x)
  BY <1>1, <1>3
<1> QED
  BY <1>3, <1>4

(* Induction, for a set rather than an operator.                           *)
LEMMA SetInduction ==
  ASSUME NEW S, 0 \in S, \A n \in Nat : n \in S => n + 1 \in S
  PROVE  Nat \subseteq S
<1> SUFFICES ASSUME Nat \ S # {} PROVE FALSE
  OBVIOUS
<1>1. PICK x \in Nat \ S : \A y \in Nat \ S : x <= y
  BY LeastElement
<1>2. x # 0 /\ x - 1 \in Nat
  BY <1>1
<1>3. x - 1 \in S
  BY <1>1, <1>2
<1>4. (x - 1) + 1 \in S
  BY <1>2, <1>3
<1> QED
  BY <1>1, <1>2, <1>4

(* Finitely many numbers have a largest one.                              *)
LEMMA LargestElement ==
  ASSUME NEW T, T \subseteq Nat, T # {}, IsFiniteSet(T)
  PROVE  \E x \in T : \A y \in T : y <= x
<1> DEFINE Bounds == {n \in Nat : \A U \in SUBSET Nat : U # {} /\ IsFiniteSet(U) /\ Cardinality(U) <= n => \E x \in U : \A y \in U : y <= x}
<1>1. 0 \in Bounds
  BY FS_EmptySet, FS_CardinalityType
<1>2. ASSUME NEW n \in Nat, n \in Bounds PROVE n + 1 \in Bounds
  <2> SUFFICES ASSUME NEW U \in SUBSET Nat, U # {}, IsFiniteSet(U), Cardinality(U) <= n + 1
               PROVE  \E x \in U : \A y \in U : y <= x
    BY DEF Bounds
  <2>1. PICK a \in U : TRUE
    OBVIOUS
  <2>2. IsFiniteSet(U \ {a}) /\ Cardinality(U \ {a}) = Cardinality(U) - 1 /\ Cardinality(U) \in Nat
    BY FS_RemoveElement, FS_CardinalityType
  <2>3. CASE U \ {a} = {}
    BY <2>1, <2>3
  <2>4. CASE U \ {a} # {}
    <3>1. Cardinality(U \ {a}) <= n
      BY <2>2
    <3>2. PICK x \in U \ {a} : \A y \in U \ {a} : y <= x
      BY <1>2, <2>2, <2>4, <3>1
    <3>3. CASE a <= x
      BY <3>2, <3>3
    <3>4. CASE ~ (a <= x)
      BY <3>2, <3>4
    <3> QED
      BY <3>3, <3>4
  <2> QED
    BY <2>3, <2>4
<1>3. Nat \subseteq Bounds
  <2> HIDE DEF Bounds
  <2> QED
    BY <1>1, <1>2, SetInduction
<1> QED
  BY <1>3, FS_CardinalityType
=============================================================================
