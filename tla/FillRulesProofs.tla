--------------------------- MODULE FillRulesProofs ---------------------------
(****************************************************************************)
(* Facts about the arithmetic of a fill, for every scale and fee rate, and  *)
(* about the sums that the value and the exposure of an account are.  The   *)
(* library's theorems on induction take an operator, which the provers do   *)
(* not instantiate: NatSetInduction takes a set.                            *)
(****************************************************************************)
EXTENDS FillRules, FiniteSets, Functions, FiniteSetTheorems, WellFoundedInduction, TLAPS

(* The fee and the notional of an order are amounts of money, not negative, *)
(* and a sale never costs money: the fee is at most the notional.           *)
LEMMA AmountsNat ==
  ASSUME NEW price \in Nat, NEW q \in Nat
  PROVE  /\ Notional(price, q) \in Nat
         /\ CalculateFee(price, q) \in Nat
         /\ BuyCost(price, q) \in Nat
         /\ SellProceeds(price, q) \in Nat
<1>1. price * q \in Nat
  OBVIOUS
<1>2. \A n \in Nat : Scale * n \in Nat /\ FeeRate * n \in Nat /\ FeeRate * n <= Scale * n
  BY FillAssumption
<1>3. Notional(price, q) = Scale * (price * q) /\ CalculateFee(price, q) = FeeRate * (price * q)
  BY FillAssumption DEF Notional, CalculateFee
<1>. QED
  BY <1>1, <1>2, <1>3 DEF BuyCost, SellProceeds

(* The cost that sold units carry is part of the position's cost.           *)
LEMMA CostShareBounded ==
  ASSUME NEW pos \in Positions, NEW q \in Nat \ {0}, pos.qty >= q
  PROVE  CostShare(pos, q) \in 0..pos.cost
<1> DEFINE d == CostShare(pos, q)
<1>1. pos.qty \in Nat \ {0} /\ pos.cost \in Nat
  BY DEF Positions
<1>2. pos.cost * q \in Nat /\ pos.cost * q <= pos.cost * pos.qty
  BY <1>1
<1>3. d \in Int /\ pos.qty * d <= pos.cost * q /\ pos.cost * q < pos.qty * d + pos.qty
  BY <1>1, <1>2 DEF CostShare
<1>4. d <= pos.cost
  BY <1>1, <1>2, <1>3
<1>5. d >= 0
  BY <1>1, <1>2, <1>3
<1>. QED
  BY <1>1, <1>3, <1>4, <1>5

(* A fill that the checks accept leaves an account with cash and positions. *)
LEMMA FillIsTyped ==
  ASSUME NEW side \in {"buy", "sell"}, NEW price \in Nat, NEW q \in Nat \ {0},
         NEW cash \in Nat, NEW pos \in Positions, CanFill(side, price, q, cash, pos)
  PROVE  NewCash(side, price, q, cash) \in Nat /\ NewPosition(side, price, q, pos) \in Positions
<1>1. /\ Notional(price, q) \in Nat /\ BuyCost(price, q) \in Nat
      /\ SellProceeds(price, q) \in Nat
  BY AmountsNat
<1>2. pos.qty \in Nat /\ pos.cost \in Nat
  BY DEF Positions
<1>3. CASE side = "buy"
  BY <1>1, <1>2, <1>3 DEF CanFill, NewCash, NewPosition, Positions
<1>4. CASE side = "sell"
  <2>1. pos.qty >= q
    BY <1>4 DEF CanFill
  <2>2. CostShare(pos, q) \in 0 .. pos.cost
    BY <2>1, CostShareBounded
  <2>. QED
    BY <1>1, <1>2, <1>4, <2>1, <2>2 DEF NewCash, NewPosition, Positions
<1>. QED
  BY <1>3, <1>4
-----------------------------------------------------------------------------
(* Natural numbers have a least one among them.                             *)
LEMMA HasLeast ==
  ASSUME NEW S, S \subseteq Nat, S # {}
  PROVE  \E x \in S : \A y \in S : x <= y
<1> DEFINE R == OpToRel(<, Nat)
<1>1. IsWellFoundedOn(R, Nat)
  BY NatLessThanWellFounded
<1>2. \A i, j \in Nat : i < j => <<i, j>> \in R
  BY DEF OpToRel
<1> HIDE DEF R
<1>3. \E x \in S : \A y \in S : <<y, x>> \notin R
  BY <1>1, WFMin
<1>4. PICK x \in S : \A y \in S : <<y, x>> \notin R
  BY <1>3
<1>5. \A y \in S : x <= y
  <2> SUFFICES ASSUME NEW y \in S PROVE x <= y
    OBVIOUS
  <2>1. x \in Nat /\ y \in Nat /\ ~(y < x)
    BY <1>2, <1>4
  <2> QED
    BY <2>1
<1>. QED
  BY <1>5

(* Induction over the natural numbers, for a set in place of a predicate. *)
LEMMA NatSetInduction ==
  ASSUME NEW T, 0 \in T, \A n \in Nat : n \in T => n + 1 \in T
  PROVE  Nat \subseteq T
<1> DEFINE B == {n \in Nat : n \notin T}
<1>1. SUFFICES ASSUME B # {} PROVE FALSE
  OBVIOUS
<1> HIDE DEF B
<1>2. B \subseteq Nat
  BY DEF B
<1>3. PICK x \in B : \A y \in B : x <= y
  BY <1>1, <1>2, HasLeast
<1>4. x \in Nat /\ x # 0 /\ x - 1 \in Nat /\ (x - 1) + 1 = x /\ ~(x <= x - 1)
  BY <1>3 DEF B
<1>5. x - 1 \in T
  BY <1>3, <1>4 DEF B
<1>. QED
  BY <1>4, <1>5 DEF B

(* The member of a set that the sum takes first.                            *)
Pick(s) == CHOOSE x \in s : TRUE

(* The recursion that a sum is defined by. *)
SumsOver(f, S, g) ==
  g = [s \in SUBSET S |-> IF s = {} THEN 0 ELSE f[Pick(s)] + g[s \ {Pick(s)}]]

(* The sum of the community modules, expanded: one of the functions that    *)
(* follow the recursion, taken at the whole set.                            *)
LEMMA SumIsChosen ==
  ASSUME NEW f, NEW S
  PROVE  SumFunctionOnSet(f, S) = (CHOOSE g : SumsOver(f, S, g))[S]
  BY DEF SumFunctionOnSet, FoldFunctionOnSet, MapThenFoldSet, SumsOver, Pick

(* The member that is picked is a member.                                   *)
LEMMA PickIn == ASSUME NEW s, s # {} PROVE Pick(s) \in s
  BY DEF Pick

(* The subsets of S of at most n members.                                   *)
Within(S, n) == {s \in SUBSET S : Cardinality(s) <= n}

(* A finite set without one of its members is smaller by one.               *)
LEMMA WithoutPick ==
  ASSUME NEW S, IsFiniteSet(S), NEW s \in SUBSET S, s # {}, NEW x \in s
  PROVE  /\ IsFiniteSet(s) /\ Cardinality(s) \in Nat /\ Cardinality(s) > 0
         /\ s \ {x} \in SUBSET S
         /\ Cardinality(s \ {x}) = Cardinality(s) - 1
<1>1. IsFiniteSet(s) 
  BY FS_Subset
<1>2. Cardinality(s) \in Nat /\ Cardinality(s) # 0
  BY <1>1, FS_CardinalityType, FS_EmptySet
<1>3. Cardinality(s \ {x}) = Cardinality(s) - 1
  BY <1>1, FS_RemoveElement
<1>. QED
  BY <1>1, <1>2, <1>3


(* g follows the recursion as far as the subsets of S of n elements.        *)
SumsTo(f, S, n, g) ==
  g = [s \in Within(S, n) |-> IF s = {} THEN 0 ELSE f[Pick(s)] + g[s \ {Pick(s)}]]

(* Some function follows the recursion over a finite set: by induction on   *)
(* the size of the subsets it is defined for.                               *)
LEMMA SumsExist ==
  ASSUME NEW f, NEW S, IsFiniteSet(S)
  PROVE  \E g : SumsOver(f, S, g)
<1> DEFINE T == {n \in Nat : \E g : SumsTo(f, S, n, g)}
<1>1. 0 \in T
  <2> DEFINE g == [s \in Within(S, 0) |-> 0]
  <2>1. \A s \in Within(S, 0) : s = {}
    BY FS_Subset, FS_EmptySet, FS_CardinalityType DEF Within
  <2>2. SumsTo(f, S, 0, g)
    BY <2>1 DEF SumsTo
  <2>. QED
    BY <2>2
<1>2. ASSUME NEW n \in Nat, n \in T PROVE n + 1 \in T
  <2>1. PICK g : SumsTo(f, S, n, g)
    BY <1>2
  <2> DEFINE h == [s \in Within(S, n + 1) |->
                     IF s = {} THEN 0 ELSE f[Pick(s)] + g[s \ {Pick(s)}]]
  <2>2. ASSUME NEW s \in Within(S, n + 1), s # {}
        PROVE  h[s \ {Pick(s)}] = g[s \ {Pick(s)}]
    <3>1. s \ {Pick(s)} \in Within(S, n)
      BY <2>2, PickIn, WithoutPick DEF Within
    <3>2. s \ {Pick(s)} \in Within(S, n + 1)
      BY <3>1, FS_Subset, FS_CardinalityType DEF Within
    <3>. QED
      BY <2>1, <3>1, <3>2 DEF SumsTo
  <2>3. SumsTo(f, S, n + 1, h)
    BY <2>2 DEF SumsTo
  <2> HIDE DEF h
  <2>. QED
    BY <2>3
<1>3. Cardinality(S) \in T
  <2> HIDE DEF T
  <2>1. Nat \subseteq T
    BY <1>1, <1>2, NatSetInduction
  <2>. QED
    BY <2>1, FS_CardinalityType
<1>4. Within(S, Cardinality(S)) = SUBSET S
  BY FS_Subset DEF Within
<1>. QED
  BY <1>3, <1>4 DEF SumsOver, SumsTo

(* The sums over the subsets of S.                                          *)
Sums(f, S) == CHOOSE g : SumsOver(f, S, g)

(* So the function that is chosen follows it, and the sum is its value at   *)
(* the whole set.                                                           *)
LEMMA SumsAreChosen ==
  ASSUME NEW f, NEW S, IsFiniteSet(S)
  PROVE  /\ SumsOver(f, S, Sums(f, S))
         /\ SumFunctionOnSet(f, S) = Sums(f, S)[S]
  BY SumsExist, SumIsChosen DEF Sums

(* The recursion, case by case.                                             *)
Recurs(f, S, g) ==
  /\ g[{}] = 0
  /\ \A s \in SUBSET S : s # {} => g[s] = f[Pick(s)] + g[s \ {Pick(s)}]

(* What the chosen function is at the empty set and at the others.          *)
LEMMA SumsRecur ==
  ASSUME NEW f, NEW S, IsFiniteSet(S)
  PROVE  Recurs(f, S, Sums(f, S))
<1>1. ASSUME NEW g, SumsOver(f, S, g)
      PROVE  Recurs(f, S, g)
  <2>1. g[{}] = 0
    BY <1>1 DEF SumsOver
  <2>2. ASSUME NEW s \in SUBSET S, s # {} PROVE g[s] = f[Pick(s)] + g[s \ {Pick(s)}]
    BY <1>1, <2>2 DEF SumsOver
  <2>. QED
    BY <2>1, <2>2 DEF Recurs
<1>2. SumsOver(f, S, Sums(f, S))
  BY SumsAreChosen
<1>. QED
  BY <1>1, <1>2

(* A domain of numbers that a sum of its members stays in.                  *)
ClosedUnderPlus(D) == D \subseteq Int /\ 0 \in D /\ \A a, b \in D : a + b \in D

(* g at s is a number of D, and any member of s may be taken first.         *)
Splits(f, g, D, s) ==
  /\ g[s] \in D
  /\ \A x \in s : g[s] = f[x] + g[s \ {x}]

(* The order in which the members are taken does not matter: by induction   *)
(* on the size of the subset.                                               *)
LEMMA RecursionSplits ==
  ASSUME NEW f, NEW S, IsFiniteSet(S), NEW D, ClosedUnderPlus(D), \A x \in S : f[x] \in D,
         NEW g, Recurs(f, S, g)
  PROVE  \A s \in SUBSET S : Splits(f, g, D, s)
<1> DEFINE T == {n \in Nat : \A s \in Within(S, n) : Splits(f, g, D, s)}
<1>1. Splits(f, g, D, {})
  BY DEF Recurs, Splits, ClosedUnderPlus
<1>2. 0 \in T
  <2>1. \A s \in Within(S, 0) : s = {}
    BY FS_Subset, FS_EmptySet, FS_CardinalityType DEF Within
  <2>. QED
    BY <1>1, <2>1
<1>3. ASSUME NEW n \in Nat, n \in T PROVE n + 1 \in T
  <2>1. ASSUME NEW s \in Within(S, n + 1), s # {} PROVE Splits(f, g, D, s)
    <3> DEFINE p == Pick(s)
    <3>1. s \in SUBSET S /\ Cardinality(s) <= n + 1 /\ p \in s
      BY <2>1, PickIn DEF Within
    <3>2. g[s] = f[p] + g[s \ {p}]
      BY <2>1, <3>1 DEF Recurs
    <3> HIDE DEF p
    <3>3. \A x \in s : s \ {x} \in Within(S, n)
      BY <3>1, <2>1, WithoutPick DEF Within
    <3>4. \A x \in s : Splits(f, g, D, s \ {x})
      BY <1>3, <3>3
    <3>5. g[s \ {p}] \in D /\ f[p] \in D
      BY <3>1, <3>4 DEF Splits
    <3>6. ASSUME NEW x \in s, x # p PROVE g[s] = f[x] + g[s \ {x}]
      <4> DEFINE r == (s \ {p}) \ {x}
      <4>1. r = (s \ {x}) \ {p} /\ x \in s \ {p} /\ p \in s \ {x}
        BY <3>1, <3>6
      <4>2. g[s \ {p}] = f[x] + g[r]
        BY <3>1, <3>4, <4>1 DEF Splits
      <4>3. g[s \ {x}] = f[p] + g[r]
        BY <3>1, <3>4, <4>1 DEF Splits
      <4>4. g[r] \in D
        <5>1. r \in Within(S, n)
          BY <3>1, <3>3, <4>1, FS_Subset, FS_CardinalityType DEF Within
        <5>. QED
          BY <1>3, <5>1 DEF Splits
      <4> HIDE DEF r
      <4>5. f[x] \in D
        BY <3>1
      <4>6. f[x] \in Int /\ f[p] \in Int /\ g[r] \in Int
        BY <3>5, <4>4, <4>5 DEF ClosedUnderPlus
      <4>. QED
        BY <3>2, <4>2, <4>3, <4>6
    <3>7. g[s] \in D
      BY <3>2, <3>5 DEF ClosedUnderPlus
    <3>. QED
      BY <3>2, <3>6, <3>7 DEF Splits
  <2>2. \A s \in Within(S, n + 1) : Splits(f, g, D, s)
    BY <1>1, <2>1
  <2>. QED
    BY <2>2
<1>4. Cardinality(S) \in T
  <2> HIDE DEF T
  <2>1. Nat \subseteq T
    BY <1>2, <1>3, NatSetInduction
  <2>. QED
    BY <2>1, FS_CardinalityType
<1>5. Within(S, Cardinality(S)) = SUBSET S
  BY FS_Subset DEF Within
<1>. QED
  BY <1>4, <1>5

(* The same for the sums.                                                   *)
LEMMA SumsSplit ==
  ASSUME NEW f, NEW S, IsFiniteSet(S), NEW D, ClosedUnderPlus(D), \A x \in S : f[x] \in D
  PROVE  \A s \in SUBSET S : Splits(f, Sums(f, S), D, s)
  BY SumsRecur, RecursionSplits

(* Two recursions that agree on the terms of a subset agree on its sum.     *)
LEMMA RecursionsAgree ==
  ASSUME NEW f, NEW h, NEW S, IsFiniteSet(S), NEW R \in SUBSET S, \A x \in R : f[x] = h[x],
         NEW g, Recurs(f, S, g), NEW k, Recurs(h, R, k)
  PROVE  g[R] = k[R]
<1> DEFINE T == {n \in Nat : \A s \in Within(R, n) : g[s] = k[s]}
<1>0. IsFiniteSet(R)
  BY FS_Subset
<1>1. g[{}] = k[{}]
  BY DEF Recurs
<1>3. 0 \in T
  <2>1. \A s \in Within(R, 0) : s = {}
    BY <1>0, FS_Subset, FS_EmptySet, FS_CardinalityType DEF Within
  <2>. QED
    BY <1>1, <2>1
<1>4. ASSUME NEW n \in Nat, n \in T PROVE n + 1 \in T
  <2>1. ASSUME NEW s \in Within(R, n + 1), s # {} PROVE g[s] = k[s]
    <3> DEFINE p == Pick(s)
    <3>1. s \in SUBSET R /\ s \in SUBSET S /\ Cardinality(s) <= n + 1 /\ p \in s
      BY <2>1, PickIn DEF Within
    <3>2. g[s] = f[p] + g[s \ {p}] /\ k[s] = h[p] + k[s \ {p}]
      BY <2>1, <3>1 DEF Recurs
    <3> HIDE DEF p
    <3>3. s \ {p} \in Within(R, n)
      BY <1>0, <2>1, <3>1, WithoutPick DEF Within
    <3>4. g[s \ {p}] = k[s \ {p}]
      BY <1>4, <3>3
    <3>5. f[p] = h[p]
      BY <3>1
    <3>. QED
      BY <3>2, <3>4, <3>5
  <2>2. \A s \in Within(R, n + 1) : g[s] = k[s]
    BY <1>1, <2>1
  <2>. QED
    BY <2>2
<1>5. Cardinality(R) \in T
  <2> HIDE DEF T
  <2>1. Nat \subseteq T
    BY <1>3, <1>4, NatSetInduction
  <2>. QED
    BY <1>0, <2>1, FS_CardinalityType
<1>6. Within(R, Cardinality(R)) = SUBSET R
  BY <1>0, FS_Subset DEF Within
<1>. QED
  BY <1>5, <1>6

(* The sum over a subset is the sum over it alone.                          *)
LEMMA SumsAgree ==
  ASSUME NEW f, NEW h, NEW S, IsFiniteSet(S), NEW R \in SUBSET S, \A x \in R : f[x] = h[x]
  PROVE  Sums(f, S)[R] = SumFunctionOnSet(h, R)
<1>1. IsFiniteSet(R)
  BY FS_Subset
<1>2. Recurs(f, S, Sums(f, S)) /\ Recurs(h, R, Sums(h, R))
  BY <1>1, SumsRecur
<1>3. Sums(f, S)[R] = Sums(h, R)[R]
  BY <1>2, RecursionsAgree
<1>. QED
  BY <1>1, <1>3, SumsAreChosen

(* Sums of integers are integers, sums of naturals are naturals.            *)
LEMMA Domains == ClosedUnderPlus(Int) /\ ClosedUnderPlus(Nat)
  BY DEF ClosedUnderPlus

(* The sum of nothing.                                                      *)
LEMMA SumEmpty == ASSUME NEW f PROVE SumFunctionOnSet(f, {}) = 0
  BY FS_EmptySet, SumsAreChosen, SumsRecur DEF Recurs

(* Equal terms, equal sums.                                                 *)
LEMMA SumSame ==
  ASSUME NEW S, IsFiniteSet(S), NEW f, NEW h, \A x \in S : f[x] = h[x]
  PROVE  SumFunctionOnSet(f, S) = SumFunctionOnSet(h, S)
  BY SumsAgree, SumsAreChosen

(* Any term may be taken out of the sum.                                    *)
LEMMA SumWithout ==
  ASSUME NEW S, IsFiniteSet(S), NEW f, \A x \in S : f[x] \in Int, NEW x \in S
  PROVE  SumFunctionOnSet(f, S) = f[x] + SumFunctionOnSet(f, S \ {x})
<1>1. SumFunctionOnSet(f, S) = Sums(f, S)[S]
  BY SumsAreChosen
<1>2. Sums(f, S)[S] = f[x] + Sums(f, S)[S \ {x}]
  BY SumsSplit, Domains DEF Splits
<1>3. Sums(f, S)[S \ {x}] = SumFunctionOnSet(f, S \ {x})
  BY SumsAgree
<1>. QED
  BY <1>1, <1>2, <1>3

(* A sum of integers is one.                                                *)
LEMMA SumInt ==
  ASSUME NEW S, IsFiniteSet(S), NEW f, \A x \in S : f[x] \in Int
  PROVE  SumFunctionOnSet(f, S) \in Int
  BY SumsSplit, Domains, SumsAreChosen DEF Splits

(* A sum of natural numbers is one.                                         *)
LEMMA SumNat ==
  ASSUME NEW S, IsFiniteSet(S), NEW f, \A x \in S : f[x] \in Nat
  PROVE  SumFunctionOnSet(f, S) \in Nat
  BY SumsSplit, Domains, SumsAreChosen DEF Splits

(* A sum of nothing but zeros.                                              *)
LEMMA SumZero ==
  ASSUME NEW S, IsFiniteSet(S), NEW f, \A x \in S : f[x] = 0
  PROVE  SumFunctionOnSet(f, S) = 0
<1>1. ClosedUnderPlus({0}) /\ \A x \in S : f[x] \in {0}
  BY DEF ClosedUnderPlus
<1>2. SumFunctionOnSet(f, S) \in {0}
  BY <1>1, SumsSplit, SumsAreChosen DEF Splits
<1>. QED
  BY <1>2

(* A term more.                                                             *)
LEMMA SumWith ==
  ASSUME NEW S, IsFiniteSet(S), NEW x, x \notin S, NEW f, \A y \in S \cup {x} : f[y] \in Int
  PROVE  SumFunctionOnSet(f, S \cup {x}) = f[x] + SumFunctionOnSet(f, S)
<1>1. IsFiniteSet(S \cup {x}) /\ x \in S \cup {x} /\ (S \cup {x}) \ {x} = S
  BY FS_AddElement
<1>2. SumFunctionOnSet(f, S \cup {x}) = f[x] + SumFunctionOnSet(f, (S \cup {x}) \ {x})
  BY <1>1, SumWithout
<1>. QED
  BY <1>1, <1>2

(* A sum of which one term changes. *)
LEMMA SumChange ==
  ASSUME NEW S, IsFiniteSet(S), NEW x \in S, NEW f, NEW h,
         \A y \in S : f[y] \in Int /\ h[y] \in Int,
         \A y \in S \ {x} : f[y] = h[y]
  PROVE  SumFunctionOnSet(h, S) = SumFunctionOnSet(f, S) - f[x] + h[x]
<1>1. IsFiniteSet(S \ {x})
  BY FS_RemoveElement
<1>2. SumFunctionOnSet(h, S) = h[x] + SumFunctionOnSet(h, S \ {x})
  BY SumWithout
<1>3. SumFunctionOnSet(f, S) = f[x] + SumFunctionOnSet(f, S \ {x})
  BY SumWithout
<1>4. SumFunctionOnSet(h, S \ {x}) = SumFunctionOnSet(f, S \ {x})
  BY <1>1, SumSame
<1>5. SumFunctionOnSet(f, S \ {x}) \in Int
  BY <1>1, SumInt
<1>. QED
  BY <1>2, <1>3, <1>4, <1>5
=============================================================================
