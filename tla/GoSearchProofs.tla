--------------------------- MODULE GoSearchProofs ---------------------------
(***************************************************************************)
(* Theorems about GoSearch, for every set of builds, from the inductive    *)
(* invariant IInv.  That the tables hold numbers and the jobs start from   *)
(* dice sets is shown by induction along the folds they are built with:    *)
(* each kind of fold is an instance of Folding.                            *)
(***************************************************************************)
EXTENDS GoInvariant, FiniteSetTheorems, SequenceTheorems, TLAPS

(* What is done in a fold, and what its result is known to be. *)
Times(c, x, y)   == y * x
Into(c, x, y)    == y \div x
Plus(c, x, y)    == x + y
Swapping(c, x, y) == Swapped(y, x.row, x.d, x.side)
At(c, i)         == c[i]
Last0(T)         == Max(T)
Anyone(T)        == CHOOSE x \in T : TRUE
Within(k, S, acc) == acc \in k
HasGreatest(f, S, acc) == S # {} => \E m \in S : \A x \in S : f[x] <= f[m]

Products  == INSTANCE Folding WITH
    Op <- Times, Map <- At, Choose <- Last0, Values <- Nat, Inv <- Within
Quotients == INSTANCE Folding WITH
    Op <- Into, Map <- At, Choose <- Last0, Values <- Nat, Inv <- Within
Sums      == INSTANCE Folding WITH
    Op <- Plus, Map <- At, Choose <- Anyone, Values <- Nat, Inv <- Within
Swaps     == INSTANCE Folding WITH
    Op <- Swapping, Map <- At, Choose <- Last0, Values <- Nat, Inv <- Within
Extremes  == INSTANCE Folding WITH
    Op <- Plus, Map <- At, Choose <- Anyone, Values <- Nat, Inv <- HasGreatest

LEMMA ProductIsFold == ASSUME NEW s PROVE product(s) = Products!Fold(s, 1, DOMAIN s)
  BY Zenon DEF product, FoldLeft, Products!Fold, Times, At, Last0, MapThenFoldSet,
      Products!MapThenFoldSet

LEMMA QuotientIsFold ==
    ASSUME NEW s, NEW base
    PROVE  FoldLeft(LAMBDA c, i : c \div i, base, s) = Quotients!Fold(s, base, DOMAIN s)
  BY Zenon DEF FoldLeft, Quotients!Fold, Into, At, Last0, MapThenFoldSet, Quotients!MapThenFoldSet

LEMMA SwapsAreFold ==
    ASSUME NEW s, NEW base
    PROVE  FoldLeft(LAMBDA dset, swap : Swapped(dset, swap.row, swap.d, swap.side), base, s)
               = Swaps!Fold(s, base, DOMAIN s)
  BY Zenon DEF FoldLeft, Swaps!Fold, Swapping, At, Last0, MapThenFoldSet, Swaps!MapThenFoldSet

LEMMA SumIsFold ==
    ASSUME NEW f, NEW S
    PROVE  Total(f, S) = Sums!Fold(f, 0, S)
  BY Zenon DEF Total, MapThenSumSet, FoldSet, Sums!Fold, Plus, At, Anyone, MapThenFoldSet,
      Sums!MapThenFoldSet

-----------------------------------------------------------------------------
(* What a product, a quotient and a sum of numbers are. *)
LEMMA LastIsChosen ==
    ASSUME NEW n \in Nat, NEW T \in SUBSET (1 .. n), T # {}
    PROVE  Last0(T) \in T
<1> DEFINE D == {n - x : x \in T}
<1>0. \A x \in T : n - x \in Nat
  OBVIOUS
<1>1. D \in SUBSET Nat /\ D # {}
  <2>1. D \in SUBSET Nat
    BY <1>0
  <2>2. PICK x \in T : TRUE
    OBVIOUS
  <2>3. n - x \in D
    BY <2>2
  <2> QED BY <2>1, <2>3
<1>2. PICK y \in D : \A z \in D : y <= z
  <2> HIDE DEF D
  <2> QED BY <1>1, Swaps!LeastNatural
<1>3. PICK x \in T : y = n - x
  OBVIOUS
<1>4. \A z \in T : x >= z
  <2> SUFFICES ASSUME NEW z \in T PROVE x >= z
    OBVIOUS
  <2>1. n - z \in D
    OBVIOUS
  <2>2. y <= n - z
    BY <1>2, <2>1
  <2>3. x \in Int /\ z \in Int
    OBVIOUS
  <2> HIDE DEF D
  <2> QED BY <1>3, <2>2, <2>3
<1> HIDE DEF D
<1>5. \E x0 \in T : \A z \in T : x0 >= z
  BY <1>4
<1> QED BY <1>5, Zenon DEF Last0, Max

LEMMA IndicesFinite ==
    ASSUME NEW n \in Nat
    PROVE  /\ IsFiniteSet(1 .. n)
           /\ Products!IsFiniteSet(1 .. n) /\ Products!Chooses(1 .. n)
           /\ Quotients!IsFiniteSet(1 .. n) /\ Quotients!Chooses(1 .. n)
           /\ Swaps!IsFiniteSet(1 .. n) /\ Swaps!Chooses(1 .. n)
<1>0. \A T \in SUBSET (1 .. n) : T # {} => Last0(T) \in T
  BY LastIsChosen
<1>1. IsFiniteSet(1 .. n)
  BY FS_Interval
<1>2. Products!IsFiniteSet(1 .. n) /\ Quotients!IsFiniteSet(1 .. n) /\ Swaps!IsFiniteSet(1 .. n)
  BY <1>1 DEF IsFiniteSet, Products!IsFiniteSet, Quotients!IsFiniteSet, Swaps!IsFiniteSet
<1> QED BY <1>0, <1>1, <1>2 DEF Products!Chooses, Quotients!Chooses, Swaps!Chooses

LEMMA AnyIsChosen ==
    ASSUME NEW S, IsFiniteSet(S)
    PROVE  /\ Sums!IsFiniteSet(S) /\ Sums!Chooses(S)
           /\ Extremes!IsFiniteSet(S) /\ Extremes!Chooses(S)
<1>1. Sums!IsFiniteSet(S) /\ Extremes!IsFiniteSet(S)
  BY DEF IsFiniteSet, Sums!IsFiniteSet, Extremes!IsFiniteSet
<1>2. Sums!Chooses(S) /\ Extremes!Chooses(S)
  BY Zenon DEF Sums!Chooses, Extremes!Chooses, Anyone
<1> QED BY <1>1, <1>2

(* Natural numbers and positive ones are closed under multiplication.      *)
LEMMA ProductOf ==
    ASSUME NEW V, V = Nat \/ V = Nat \ {0}, NEW s \in Seq(V)
    PROVE  product(s) \in V
<1>1. /\ Products!IsFiniteSet(1 .. Len(s)) /\ Products!Chooses(1 .. Len(s))
      /\ DOMAIN s = 1 .. Len(s)
  BY IndicesFinite
<1>2. Within(V, {}, 1)
  BY DEF Within
<1>3. ASSUME NEW T \in SUBSET (1 .. Len(s)), NEW acc,
             T # {}, Within(V, T \ {Last0(T)}, acc)
      PROVE  Within(V, T, Times(s, At(s, Last0(T)), acc))
  <2>1. Last0(T) \in 1 .. Len(s)
    BY <1>1, <1>3 DEF Products!Chooses
  <2>2. s[Last0(T)] \in V
    BY <2>1
  <2>3. acc \in V
    BY <1>3 DEF Within
  <2>4. PICK x \in V : x = s[Last0(T)]
    BY <2>2
  <2>5. acc * x \in Nat /\ (acc # 0 /\ x # 0 => acc * x # 0)
    BY <2>3
  <2>6. acc * x \in V
    BY <2>3, <2>5
  <2> QED BY <2>4, <2>6 DEF Within, Times, At
<1>4. Within(V, 1 .. Len(s), Products!Fold(s, 1, 1 .. Len(s)))
  BY <1>1, <1>2, <1>3, Products!FoldInvariant
<1> QED BY <1>1, <1>4, ProductIsFold DEF Within

LEMMA QuotientOf ==
    ASSUME NEW base \in Nat, NEW s \in Seq(Nat \ {0})
    PROVE  FoldLeft(LAMBDA c, i : c \div i, base, s) \in Nat
<1>1. /\ Quotients!IsFiniteSet(1 .. Len(s)) /\ Quotients!Chooses(1 .. Len(s))
      /\ DOMAIN s = 1 .. Len(s)
  BY IndicesFinite
<1>2. Within(Nat, {}, base)
  BY DEF Within
<1>3. ASSUME NEW T \in SUBSET (1 .. Len(s)), NEW acc,
             T # {}, Within(Nat, T \ {Last0(T)}, acc)
      PROVE  Within(Nat, T, Into(s, At(s, Last0(T)), acc))
  <2>1. Last0(T) \in 1 .. Len(s)
    BY <1>1, <1>3 DEF Quotients!Chooses
  <2>2. s[Last0(T)] \in Nat \ {0}
    BY <2>1
  <2>3. acc \in Nat
    BY <1>3 DEF Within
  <2>4. PICK x \in Nat \ {0} : x = s[Last0(T)]
    BY <2>2
  <2>5. acc \div x \in Nat
    BY <2>3
  <2> QED BY <2>4, <2>5 DEF Within, Into, At
<1>4. Within(Nat, 1 .. Len(s), Quotients!Fold(s, base, 1 .. Len(s)))
  BY <1>1, <1>2, <1>3, Quotients!FoldInvariant
<1> QED BY <1>1, <1>4, QuotientIsFold DEF Within

LEMMA SumOf ==
    ASSUME NEW S, IsFiniteSet(S), NEW f, \A x \in S : f[x] \in Nat
    PROVE  Total(f, S) \in Nat
<1>1. Sums!IsFiniteSet(S) /\ Sums!Chooses(S)
  BY AnyIsChosen
<1>2. Within(Nat, {}, 0)
  BY DEF Within
<1>3. ASSUME NEW T \in SUBSET S, NEW acc,
             T # {}, Within(Nat, T \ {Anyone(T)}, acc)
      PROVE  Within(Nat, T, Plus(f, At(f, Anyone(T)), acc))
  <2>1. Anyone(T) \in S
    BY <1>1, <1>3 DEF Sums!Chooses
  <2>2. PICK x \in Nat : x = f[Anyone(T)]
    BY <2>1
  <2>3. acc \in Nat
    BY <1>3 DEF Within
  <2> QED BY <2>2, <2>3 DEF Within, Plus, At
<1>4. Within(Nat, S, Sums!Fold(f, 0, S))
  BY <1>1, <1>2, <1>3, Sums!FoldInvariant
<1> QED BY <1>4, SumIsFold DEF Within

LEMMA GreatestIn ==
    ASSUME NEW S, IsFiniteSet(S), S # {}, NEW f, \A x \in S : f[x] \in Nat
    PROVE  \E m \in S : \A x \in S : f[x] <= f[m]
<1>1. Extremes!IsFiniteSet(S) /\ Extremes!Chooses(S)
  BY AnyIsChosen
<1>2. HasGreatest(f, {}, 0)
  BY DEF HasGreatest
<1>3. ASSUME NEW T \in SUBSET S, NEW acc,
             T # {}, HasGreatest(f, T \ {Anyone(T)}, acc)
      PROVE  HasGreatest(f, T, Plus(f, At(f, Anyone(T)), acc))
  <2>1. PICK a \in T : a = Anyone(T)
    BY <1>1, <1>3 DEF Extremes!Chooses
  <2>2. T \ {a} = {} \/ \E m \in T \ {a} : \A x \in T \ {a} : f[x] <= f[m]
    BY <1>3, <2>1 DEF HasGreatest
  <2>3. \A x \in T : f[x] \in Nat
    OBVIOUS
  <2>4. \E m \in T : \A x \in T : f[x] <= f[m]
    <3>1. CASE T \ {a} = {}
      BY <2>3, <3>1
    <3>2. CASE T \ {a} # {}
      <4>1. PICK m \in T \ {a} : \A x \in T \ {a} : f[x] <= f[m]
        BY <2>2, <3>2
      <4>2. CASE f[m] <= f[a]
        BY <2>3, <4>1, <4>2
      <4>3. CASE f[a] <= f[m]
        BY <4>1, <4>3
      <4> QED BY <2>3, <4>2, <4>3
    <3> QED BY <3>1, <3>2
  <2> QED BY <2>4 DEF HasGreatest
<1>4. HasGreatest(f, S, Extremes!Fold(f, 0, S))
  BY <1>1, <1>2, <1>3, Extremes!FoldInvariant
<1> QED BY <1>4 DEF HasGreatest

-----------------------------------------------------------------------------
(* The tables hold natural numbers. *)
LEMMA PowerOf ==
    ASSUME NEW n \in Nat, NEW e \in Nat
    PROVE  /\ intpow(n, e) \in Nat
           /\ n # 0 => intpow(n, e) \in Nat \ {0}
<1>1. [i \in 1 .. e |-> n] \in Seq(Nat)
  OBVIOUS
<1>2. n # 0 => [i \in 1 .. e |-> n] \in Seq(Nat \ {0})
  OBVIOUS
<1>3. intpow(n, e) \in Nat
  BY <1>1, ProductOf, Zenon DEF intpow
<1>4. n # 0 => intpow(n, e) \in Nat \ {0}
  BY <1>2, ProductOf, Zenon DEF intpow
<1> QED BY <1>3, <1>4

LEMMA BinomialOf ==
    ASSUME NEW n \in Nat, NEW r \in Nat
    PROVE  binomial(n, r) \in Nat
<1>1. CASE r > n
  BY <1>1 DEF binomial
<1>2. CASE ~ (r > n)
  <2> DEFINE l1 == IF n - r > r THEN r ELSE n - r
             l2 == n - l1
             above == [i \in 1 .. n - l1 |-> n + 1 - i]
             under == [i \in 1 .. l2 |-> l2 + 1 - i]
  <2>1. l1 \in 0 .. n /\ l2 \in Nat /\ n - l1 \in Nat
    BY <1>2
  <2>2. above \in Seq(Nat)
    <3>1. \A i \in 1 .. n - l1 : n + 1 - i \in Nat
      BY <2>1
    <3> QED BY <2>1, <3>1
  <2>3. under \in Seq(Nat \ {0})
    <3>1. \A i \in 1 .. l2 : l2 + 1 - i \in Nat \ {0}
      BY <2>1
    <3> QED BY <2>1, <3>1
  <2>4. product(above) \in Nat
    BY <2>2, ProductOf, Zenon
  <2>5. FoldLeft(LAMBDA c, i : c \div i, product(above), under) \in Nat
    BY <2>3, <2>4, QuotientOf
  <2> QED BY <1>2, <2>5, Zenon DEF binomial
<1> QED BY <1>1, <1>2

LEMMA GoalOf == ASSUME NEW b \in Builds PROVE TallyGoal(b) \in Nat
<1>1. b.dice \in Nat \ {0} /\ b.sides \in Nat
  BY GoAssumption
<1>2. PICK n \in Nat : n = intpow(b.sides, b.dice)
  BY <1>1, PowerOf
<1>3. PICK d \in Nat \ {0} : d = b.dice
  BY <1>1
<1>4. n \div d \in Nat
  OBVIOUS
<1> QED BY <1>2, <1>3, <1>4 DEF TallyGoal

LEMMA LeastOfTwo == ASSUME NEW p \in Nat, NEW d \in Nat
    PROVE Min({p, d}) \in Nat /\ Min({p, d}) <= p /\ Min({p, d}) <= d
<1>1. \E x \in {p, d} : \A y \in {p, d} : x <= y
  OBVIOUS
<1>2. Min({p, d}) \in {p, d} /\ \A y \in {p, d} : Min({p, d}) <= y
  BY <1>1, Zenon DEF Min
<1> QED BY <1>2

LEMMA QuotientBelow ==
    ASSUME NEW k \in Nat \ {0}, NEW m \in Nat, NEW v \in 0 .. k * m - 1
    PROVE  v \div k \in 0 .. m - 1 /\ v % k \in 0 .. k - 1
<1>1. /\ v \div k \in Int /\ v % k \in 0 .. k - 1
      /\ v = k * (v \div k) + (v % k)
  OBVIOUS
<1>2. PICK q \in Int : q = v \div k
  BY <1>1
<1>3. PICK r \in 0 .. k - 1 : r = v % k
  BY <1>1
<1>4. v = k * q + r
  BY <1>1, <1>2, <1>3
<1>5. q < m
  <2> SUFFICES ASSUME q >= m PROVE FALSE
    BY <1>2
  <2>1. k * q >= k * m
    OBVIOUS
  <2> QED BY <2>1, <1>4
<1>6. q >= 0
  <2> SUFFICES ASSUME q <= -1 PROVE FALSE
    BY <1>2
  <2>1. k * q <= k * (-1)
    OBVIOUS
  <2> QED BY <2>1, <1>4
<1> QED BY <1>2, <1>3, <1>5, <1>6

(* How often a value comes in a place is a natural number.                 *)
WaysOf(b, v, p) ==
    [abv \in 0 .. Min({p, v % b.dice}) |->
        IF p - abv > b.dice - 1 - (v % b.dice) THEN 0
        ELSE binomial(v % b.dice, abv) * intpow(b.sides - (v \div b.dice) - 1, abv)
             * binomial(b.dice - 1 - (v % b.dice), p - abv)
             * intpow(b.sides - (v \div b.dice), p - abv)
             * intpow((v \div b.dice) + 1, (v % b.dice) - abv)
             * intpow(v \div b.dice, (b.dice - 1 - (v % b.dice)) - (p - abv))]

LEMMA ProductOfSix ==
    ASSUME NEW a1 \in Nat, NEW a2 \in Nat, NEW a3 \in Nat, NEW a4 \in Nat, NEW a5 \in Nat,
           NEW a6 \in Nat
    PROVE  a1 * a2 * a3 * a4 * a5 * a6 \in Nat
<1>1. PICK x \in Nat : x = a1 * a2
  OBVIOUS
<1>2. PICK y \in Nat : y = x * a3
  OBVIOUS
<1>3. PICK z \in Nat : z = y * a4
  OBVIOUS
<1>4. PICK u \in Nat : u = z * a5
  OBVIOUS
<1>5. u * a6 \in Nat
  OBVIOUS
<1> QED BY <1>1, <1>2, <1>3, <1>4, <1>5

LEMMA WaysTyped ==
    ASSUME NEW b \in Builds, NEW v \in 0 .. b.dice * b.sides - 1, NEW p \in 0 .. b.dice - 1
    PROVE  Total(WaysOf(b, v, p), 0 .. Min({p, v % b.dice})) \in Nat
<1>0. b.dice \in Nat \ {0} /\ b.sides \in Nat \ {0}
  BY GoAssumption
<1> DEFINE s == v \div b.dice
           d == v % b.dice
           behind == b.dice - 1 - d
           S == 0 .. Min({p, d})
<1>1. s \in 0 .. b.sides - 1 /\ d \in 0 .. b.dice - 1
  BY <1>0, QuotientBelow
<1>2. d \in Nat /\ s \in Nat /\ p \in Nat /\ behind \in Nat
  BY <1>0, <1>1
<1>3. Min({p, d}) \in Nat /\ Min({p, d}) <= p /\ Min({p, d}) <= d
  BY <1>2, LeastOfTwo
<1> HIDE DEF s, d, behind
<1>4. ASSUME NEW abv \in S, ~ (p - abv > behind)
      PROVE  binomial(d, abv) * intpow(b.sides - s - 1, abv)
                 * binomial(behind, p - abv) * intpow(b.sides - s, p - abv)
                 * intpow(s + 1, d - abv) * intpow(s, behind - (p - abv)) \in Nat
  <2>1. /\ abv \in Nat /\ p - abv \in Nat /\ d - abv \in Nat /\ behind - (p - abv) \in Nat
        /\ b.sides - s - 1 \in Nat /\ b.sides - s \in Nat /\ s + 1 \in Nat
    BY <1>0, <1>1, <1>2, <1>3, <1>4
  <2>2. /\ binomial(d, abv) \in Nat /\ binomial(behind, p - abv) \in Nat
    BY <1>2, <2>1, BinomialOf
  <2>3. /\ intpow(b.sides - s - 1, abv) \in Nat /\ intpow(b.sides - s, p - abv) \in Nat
        /\ intpow(s + 1, d - abv) \in Nat /\ intpow(s, behind - (p - abv)) \in Nat
    BY <1>2, <2>1, PowerOf
  <2> QED BY <2>2, <2>3, ProductOfSix
<1>5. \A abv \in S : WaysOf(b, v, p)[abv] \in Nat
  <2> SUFFICES ASSUME NEW abv \in S PROVE WaysOf(b, v, p)[abv] \in Nat
    OBVIOUS
  <2>1. WaysOf(b, v, p)[abv] =
            IF p - abv > behind THEN 0
            ELSE binomial(d, abv) * intpow(b.sides - s - 1, abv)
                 * binomial(behind, p - abv) * intpow(b.sides - s, p - abv)
                 * intpow(s + 1, d - abv) * intpow(s, behind - (p - abv))
    BY Zenon DEF WaysOf, s, d, behind
  <2>2. CASE p - abv > behind
    BY <2>1, <2>2
  <2>3. CASE ~ (p - abv > behind)
    <3>1. PICK x \in Nat :
              x = binomial(d, abv) * intpow(b.sides - s - 1, abv)
                 * binomial(behind, p - abv) * intpow(b.sides - s, p - abv)
                 * intpow(s + 1, d - abv) * intpow(s, behind - (p - abv))
      BY <2>3, <1>4
    <3>2. WaysOf(b, v, p)[abv] = x
      BY <2>1, <2>3, <3>1, Zenon
    <3> QED BY <3>2
  <2> QED BY <2>2, <2>3
<1>6. IsFiniteSet(S)
  BY <1>3, FS_Interval
<1>7. Total(WaysOf(b, v, p), S) \in Nat
  BY <1>5, <1>6, SumOf
<1> QED BY <1>7 DEF d

TallyFunctions(b) == [0 .. b.dice * b.sides - 1 -> [0 .. b.dice - 1 -> Nat]]

LEMMA TallyTableOf ==
    ASSUME NEW b \in Builds
    PROVE  build_tally_table[b] \in TallyFunctions(b)
<1> DEFINE W(v, p) == Total(WaysOf(b, v, p), 0 .. Min({p, v % b.dice}))
<1>1. build_tally_table[b] =
          [v \in 0 .. b.dice * b.sides - 1 |-> [p \in 0 .. b.dice - 1 |-> W(v, p)]]
  BY Zenon DEF build_tally_table, WaysOf
<1>2. \A v \in 0 .. b.dice * b.sides - 1 : \A p \in 0 .. b.dice - 1 : W(v, p) \in Nat
  BY WaysTyped
<1> HIDE DEF W
<1> QED BY <1>1, <1>2 DEF TallyFunctions

-----------------------------------------------------------------------------
(* The dice sets that main starts the goroutines with. *)
LEMMA BuildTyped ==
    ASSUME NEW b \in Builds
    PROVE  /\ b.dice \in Nat /\ b.dice > 1 /\ b.sides \in Nat /\ b.sides > 0
           /\ b.colmask \in Nat /\ b.colmask > 0 /\ b.colmask <= b.sides
           /\ b.threads \in Nat /\ b.threads > 0
  BY GoAssumption

LEMMA ValueOf ==
    ASSUME NEW n \in Nat, NEW m \in Nat, NEW s \in 0 .. m - 1, NEW r \in 0 .. n - 1
    PROVE  s * n + r \in 0 .. n * m - 1
<1>1. s * n <= (m - 1) * n
  OBVIOUS
<1>2. (m - 1) * n = n * m - n
  OBVIOUS
<1>3. s * n \in Nat /\ n * m \in Nat
  OBVIOUS
<1> QED BY <1>1, <1>2, <1>3

LEMMA InitialOf == ASSUME NEW b \in Builds PROVE InitialSet(b) \in DiceSetsOf(b)
<1>1. PICK n \in Nat : n = b.dice
  BY BuildTyped
<1>2. PICK m \in Nat : m = b.sides
  BY BuildTyped
<1>3. \A d \in 0 .. n - 1 : \A s \in 0 .. m - 1 :
          s * n + (IF s % 2 = 0 THEN d ELSE n - 1 - d) \in 0 .. n * m - 1
  <2> SUFFICES ASSUME NEW d \in 0 .. n - 1, NEW s \in 0 .. m - 1
               PROVE  s * n + (IF s % 2 = 0 THEN d ELSE n - 1 - d) \in 0 .. n * m - 1
    OBVIOUS
  <2>1. d \in 0 .. n - 1 /\ n - 1 - d \in 0 .. n - 1
    OBVIOUS
  <2>2. s * n + d \in 0 .. n * m - 1 /\ s * n + (n - 1 - d) \in 0 .. n * m - 1
    BY <2>1, ValueOf
  <2>3. CASE s % 2 = 0
    BY <2>2, <2>3
  <2>4. CASE s % 2 # 0
    BY <2>2, <2>4
  <2> QED BY <2>3, <2>4
<1>4. InitialSet(b) = [d \in 0 .. n - 1 |-> [s \in 0 .. m - 1 |->
          s * n + (IF s % 2 = 0 THEN d ELSE n - 1 - d)]]
  BY <1>1, <1>2, Zenon DEF InitialSet
<1>5. DiceSetsOf(b) = [0 .. n - 1 -> [0 .. m - 1 -> 0 .. n * m - 1]]
  BY <1>1, <1>2 DEF DiceSetsOf
<1> QED BY <1>3, <1>4, <1>5

LEMMA PositionOf ==
    ASSUME NEW b \in Builds, NEW i \in 1 .. b.dice * (b.colmask - 1)
    PROVE  Position(b, i)[1] \in 0 .. b.dice - 1 /\ Position(b, i)[2] \in 0 .. b.sides - 1
<1>1. PICK n \in Nat : n = b.dice
  BY BuildTyped
<1>2. PICK k \in Nat : k = b.colmask - 1 /\ k <= b.sides - 1
  BY BuildTyped
<1>3. i \in 1 .. n * k
  BY <1>1, <1>2
<1>4. k # 0
  <2> SUFFICES ASSUME k = 0 PROVE FALSE
    OBVIOUS
  <2>1. n * k = 0
    OBVIOUS
  <2> QED BY <2>1, <1>3
<1>5. n * k = k * n
  OBVIOUS
<1>6. i - 1 \in 0 .. k * n - 1
  BY <1>3, <1>5
<1>7. (i - 1) \div k \in 0 .. n - 1 /\ (i - 1) % k \in 0 .. k - 1
  BY <1>4, <1>6, QuotientBelow
<1>8. Position(b, i) = <<(i - 1) \div k, 1 + ((i - 1) % k)>>
  BY <1>2 DEF Position
<1>9. b.sides \in Nat
  BY BuildTyped
<1> QED BY <1>1, <1>2, <1>7, <1>8, <1>9

LEMMA WidthsOf ==
    ASSUME NEW b \in Builds
    PROVE  /\ Widths(b) \in Seq(Nat \ {0})
           /\ \A i \in DOMAIN Widths(b) :
                  /\ Position(b, i)[1] \in 0 .. b.dice - 1 /\ Position(b, i)[2] \in 0 .. b.sides - 1
                  /\ Widths(b)[i] = b.dice - Position(b, i)[1]
<1> DEFINE N == b.dice * (b.colmask - 1)
<1>1. N \in Nat
  BY BuildTyped
<1>2. Widths(b) = [i \in 1 .. N |-> b.dice - Position(b, i)[1]]
  BY DEF Widths, Positions
<1>3. \A i \in 1 .. N : Position(b, i)[1] \in 0 .. b.dice - 1
      /\ Position(b, i)[2] \in 0 .. b.sides - 1
  BY PositionOf
<1>4. \A i \in 1 .. N : b.dice - Position(b, i)[1] \in Nat \ {0}
  BY <1>3, BuildTyped
<1> HIDE DEF N
<1> QED BY <1>1, <1>2, <1>3, <1>4

LEMMA JobsOf == ASSUME NEW b \in Builds PROVE JobCount(b) \in Nat \ {0}
  BY WidthsOf, ProductOf, Zenon DEF JobCount

LEMMA SwapOf ==
    ASSUME NEW b \in Builds, NEW dset \in DiceSetsOf(b), NEW row \in 0 .. b.dice - 1,
           NEW d \in 0 .. b.dice - 1, NEW side \in 0 .. b.sides - 1
    PROVE  Swapped(dset, row, d, side) \in DiceSetsOf(b)
  BY DEF Swapped, DiceSetsOf

SwapSet(b) == [row : 0 .. b.dice - 1, side : 0 .. b.sides - 1, d : 0 .. b.dice - 1]

LEMMA SwapsOf ==
    ASSUME NEW b \in Builds, NEW s \in Seq(SwapSet(b))
    PROVE  FoldLeft(LAMBDA dset, swap : Swapped(dset, swap.row, swap.d, swap.side),
               InitialSet(b), s)
               \in DiceSetsOf(b)
<1>1. /\ Swaps!IsFiniteSet(1 .. Len(s)) /\ Swaps!Chooses(1 .. Len(s))
      /\ DOMAIN s = 1 .. Len(s)
  BY IndicesFinite
<1>2. PICK V : V = DiceSetsOf(b)
  OBVIOUS
<1>3. PICK base : base = InitialSet(b)
  OBVIOUS
<1>4. Within(V, {}, base)
  BY <1>2, <1>3, InitialOf DEF Within
<1>5. ASSUME NEW T \in SUBSET (1 .. Len(s)), NEW acc,
             T # {}, Within(V, T \ {Last0(T)}, acc)
      PROVE  Within(V, T, Swapping(s, At(s, Last0(T)), acc))
  <2>1. Last0(T) \in 1 .. Len(s)
    BY <1>1, <1>5 DEF Swaps!Chooses
  <2>2. PICK x \in SwapSet(b) : x = s[Last0(T)]
    BY <2>1
  <2>3. x.row \in 0 .. b.dice - 1 /\ x.side \in 0 .. b.sides - 1 /\ x.d \in 0 .. b.dice - 1
    BY DEF SwapSet
  <2>4. acc \in DiceSetsOf(b)
    BY <1>2, <1>5 DEF Within
  <2>5. Swapped(acc, x.row, x.d, x.side) \in V
    BY <1>2, <2>3, <2>4, SwapOf
  <2> QED BY <2>2, <2>5 DEF Within, Swapping, At
<1>6. Within(V, 1 .. Len(s), Swaps!Fold(s, base, 1 .. Len(s)))
  BY <1>1, <1>4, <1>5, Swaps!FoldInvariant
<1>7. Swaps!Fold(s, base, DOMAIN s) \in DiceSetsOf(b)
  BY <1>1, <1>2, <1>6 DEF Within
<1> QED BY <1>3, <1>7, SwapsAreFold

LEMMA ChoiceOf ==
    ASSUME NEW b \in Builds, NEW n \in Nat, NEW i \in DOMAIN Widths(b)
    PROVE  Position(b, i)[1]
               + ((n \div product(SubSeq(Widths(b), i + 1, Len(Widths(b))))) % Widths(b)[i])
               \in 0 .. b.dice - 1
<1>1. PICK w \in Seq(Nat \ {0}) : w = Widths(b)
  BY WidthsOf
<1>2. i \in 1 .. Len(w)
  BY <1>1
<1>3. SubSeq(w, i + 1, Len(w)) \in Seq(Nat \ {0})
  BY <1>2
<1>4. PICK q \in Nat \ {0} : q = product(SubSeq(w, i + 1, Len(w)))
  BY <1>3, ProductOf
<1>5. PICK x \in Nat \ {0} : x = w[i]
  BY <1>2
<1>6. n \div q \in Nat
  OBVIOUS
<1>7. (n \div q) % x \in 0 .. x - 1
  BY <1>6
<1>8. PICK r \in 0 .. b.dice - 1 : r = Position(b, i)[1] /\ x = b.dice - r
  BY <1>1, <1>5, WidthsOf
<1>9. b.dice \in Nat
  BY BuildTyped
<1>10. r + ((n \div q) % x) \in 0 .. b.dice - 1
  <2>1. PICK m : m = (n \div q) % x
    OBVIOUS
  <2>2. m \in 0 .. x - 1
    BY <1>7, <2>1
  <2>3. r \in 0 .. b.dice - 1 /\ x = b.dice - r
    BY <1>8
  <2>4. r + m \in 0 .. b.dice - 1
    BY ONLY <1>9, <2>2, <2>3
  <2> QED BY <2>1, <2>4
<1> QED BY <1>1, <1>4, <1>5, <1>8, <1>10

LEMMA PermuteOf ==
    ASSUME NEW b \in Builds, NEW n \in Nat
    PROVE  permute(b, n) \in DiceSetsOf(b)
<1> DEFINE s == [i \in DOMAIN Widths(b) |->
                    [row |-> Position(b, i)[1], side |-> Position(b, i)[2],
                     d |-> Position(b, i)[1]
                           + ((n \div product(SubSeq(Widths(b), i + 1, Len(Widths(b)))))
                                  % Widths(b)[i])]]
<1>1. \A i \in DOMAIN Widths(b) : s[i] \in SwapSet(b)
  <2> SUFFICES ASSUME NEW i \in DOMAIN Widths(b) PROVE s[i] \in SwapSet(b)
    OBVIOUS
  <2>1. s[i].row \in 0 .. b.dice - 1 /\ s[i].side \in 0 .. b.sides - 1
    BY WidthsOf
  <2>2. s[i].d \in 0 .. b.dice - 1
    BY ChoiceOf
  <2> QED BY <2>1, <2>2 DEF SwapSet
<1>2. PICK N \in Nat : DOMAIN Widths(b) = 1 .. N
  BY WidthsOf
<1>3. DOMAIN s = 1 .. N
  BY <1>2
<1>4. s \in [1 .. N -> SwapSet(b)]
  BY <1>1, <1>2
<1> HIDE DEF s
<1>5. s \in Seq(SwapSet(b))
  BY <1>4
<1>6. FoldLeft(LAMBDA dset, swap : Swapped(dset, swap.row, swap.d, swap.side), InitialSet(b), s)
          \in DiceSetsOf(b)
  BY <1>5, SwapsOf
<1> QED BY <1>6, Zenon DEF permute, s

-----------------------------------------------------------------------------
(* The bounds of the tallies to come. *)
LEMMA TallyTyped ==
    ASSUME build \in Builds, NEW v \in 0 .. build.dice * build.sides - 1, NEW p \in Dice
    PROVE  Tally(v, p) \in Nat
<1>1. PICK b \in Builds : b = build
  OBVIOUS
<1>2. build_tally_table[b] \in TallyFunctions(b)
  BY TallyTableOf
<1>3. v \in 0 .. b.dice * b.sides - 1 /\ p \in 0 .. b.dice - 1
  BY <1>1 DEF Dice
<1>4. build_tally_table[b][v][p] \in Nat
  BY <1>2, <1>3 DEF TallyFunctions
<1> QED BY <1>1, <1>4 DEF Tally

LEMMA ExtremesOf ==
    ASSUME NEW first \in Nat, NEW last \in Nat, first <= last,
           NEW f, \A d \in first .. last : f[d] \in Nat,
           NEW V, V = {f[d] : d \in first .. last}
    PROVE  Min(V) \in Nat /\ Max(V) \in Nat
<1>1. V \in SUBSET Nat /\ f[first] \in V
  OBVIOUS
<1>2. PICK least \in V : \A x \in V : least <= x
  <2>1. V # {}
    BY <1>1
  <2> QED BY <1>1, <2>1, Swaps!LeastNatural
<1>3. \E x \in V : \A y \in V : x <= y
  BY <1>2
<1>4. Min(V) \in V
  <2> QED BY <1>3, Zenon DEF Min
<1>5. IsFiniteSet(first .. last) /\ first \in first .. last
  BY FS_Interval
<1>6. PICK m \in first .. last : \A d \in first .. last : f[d] <= f[m]
  BY <1>5, GreatestIn
<1>7. f[m] \in V /\ \A y \in V : f[m] >= y
  BY <1>6
<1>8. \E x \in V : \A y \in V : x >= y
  BY <1>7
<1>9. Max(V) \in V
  <2> QED BY <1>8, Zenon DEF Max
<1> QED BY <1>1, <1>4, <1>9

LEMMA TalliesOf ==
    ASSUME build \in Builds, NEW dset \in DiceSets, NEW row \in Dice, NEW s \in Sides,
           NEW p \in Dice
    PROVE  Min(TalliesAt(dset, row, s, p)) \in Nat /\ Max(TalliesAt(dset, row, s, p)) \in Nat
<1>1. PICK n \in Nat : n = build.dice - 1 /\ row \in Nat /\ row <= n
  BY BuildTyped DEF Dice
<1>2. \A d \in row .. n : dset[d][s] \in 0 .. build.dice * build.sides - 1
  <2>1. \A d \in row .. n : d \in 0 .. build.dice - 1
    BY <1>1, BuildTyped
  <2> QED BY <2>1 DEF DiceSets, DiceSetsOf, Sides
<1>3. \A d \in row .. n : Tally(dset[d][s], p) \in Nat
  BY <1>2, TallyTyped
<1>4. PICK f : f = [d \in row .. n |-> Tally(dset[d][s], p)]
  OBVIOUS
<1>5. TalliesAt(dset, row, s, p) = {f[d] : d \in row .. n}
  BY <1>1, <1>4 DEF TalliesAt
<1>6. \A d \in row .. n : f[d] \in Nat
  BY <1>3, <1>4
<1>7. PICK V : V = TalliesAt(dset, row, s, p)
  OBVIOUS
<1>8. V = {f[d] : d \in row .. n}
  BY <1>5, <1>7
<1>9. row \in Nat /\ n \in Nat /\ row <= n
  BY <1>1
<1>10. Min(V) \in Nat /\ Max(V) \in Nat
  BY <1>6, <1>8, <1>9, ExtremesOf
<1> QED BY <1>7, <1>10

LEMMA SidesSum ==
    ASSUME build \in Builds, NEW f \in [Sides -> Nat], NEW i \in 1 .. build.sides
    PROVE  Total(f, i - 1 .. build.sides - 1) \in Nat
<1>1. i - 1 \in Int /\ build.sides - 1 \in Int
  BY BuildTyped
<1>2. IsFiniteSet(i - 1 .. build.sides - 1)
  BY <1>1, FS_Interval
<1>3. \A s \in i - 1 .. build.sides - 1 : f[s] \in Nat
  BY BuildTyped DEF Sides
<1> QED BY <1>2, <1>3, SumOf

LEMMA LeftOf ==
    ASSUME build \in Builds, NEW dset \in DiceSets, NEW row \in Dice
    PROVE  find_tally_left(dset, row) \in Bounds
<1> DEFINE least(p) == [s \in Sides |-> Min(TalliesAt(dset, row, s, p))]
           greatest(p) == [s \in Sides |-> Max(TalliesAt(dset, row, s, p))]
           R(p, i) == [min |-> Total(least(p), i - 1 .. build.sides - 1),
                       max |-> Total(greatest(p), i - 1 .. build.sides - 1)]
<1>1. \A p \in Dice : least(p) \in [Sides -> Nat] /\ greatest(p) \in [Sides -> Nat]
  BY TalliesOf
<1>2. find_tally_left(dset, row) = [p \in Dice |-> [i \in 1 .. build.sides |-> R(p, i)]]
  BY Zenon DEF find_tally_left
<1> HIDE DEF least, greatest
<1>3. \A p \in Dice : \A i \in 1 .. build.sides :
          /\ Total(least(p), i - 1 .. build.sides - 1) \in Nat
          /\ Total(greatest(p), i - 1 .. build.sides - 1) \in Nat
  BY <1>1, SidesSum
<1>4. \A p \in Dice : \A i \in 1 .. build.sides : R(p, i) \in [min : Nat, max : Nat]
  BY <1>3
<1> HIDE DEF R
<1> QED BY <1>2, <1>4 DEF Bounds
-----------------------------------------------------------------------------
Well(g) == g \in Goroutines /\ PathInv(g)

LEMMA CellsAre ==
    ASSUME build \in Builds
    PROVE  /\ \A row \in Dice, side \in 0 .. build.sides :
                  /\ <<row, side>> \in Cells
                  /\ DsetCell(row, side) \in Cells /\ TallyCell(row, side) \in Cells
           /\ \A cell \in Cells :
                  /\ cell[1] \in Dice /\ cell[2] \in 0 .. build.sides
                  /\ cell = <<cell[1], cell[2]>>
           /\ Dice = 0 .. build.dice - 1 /\ build.dice \in Nat /\ build.dice > 1
           /\ build.sides \in Nat /\ build.sides > 0
           /\ <<0, 0>> \in Cells
<1>0. /\ Dice = 0 .. build.dice - 1 /\ build.dice \in Nat /\ build.dice > 1
      /\ build.sides \in Nat /\ build.sides > 0
  BY BuildTyped DEF Dice
<1>1. \A row \in Dice, side \in 0 .. build.sides : <<row, side>> \in Cells
  BY DEF Cells
<1>2. \A cell \in Cells : /\ cell[1] \in Dice /\ cell[2] \in 0 .. build.sides
                          /\ cell = <<cell[1], cell[2]>>
  BY DEF Cells
<1>3. <<0, 0>> \in Cells
  BY <1>0, <1>1
<1>4. ASSUME NEW row \in Dice, NEW side \in 0 .. build.sides
      PROVE  DsetCell(row, side) \in Cells
  <2>1. CASE side > 0
    <3>1. side - 1 \in 0 .. build.sides
      BY <1>0, <2>1
    <3> QED BY <1>1, <2>1, <3>1 DEF DsetCell
  <2>2. CASE ~ (side > 0) /\ row > 0
    <3>1. row - 1 \in Dice /\ build.sides - 1 \in 0 .. build.sides
      BY <1>0, <2>2
    <3> QED BY <1>1, <2>2, <3>1 DEF DsetCell
  <2>3. CASE ~ (side > 0) /\ ~ (row > 0)
    BY <1>3, <2>3 DEF DsetCell
  <2> QED BY <2>1, <2>2, <2>3
<1>5. ASSUME NEW row \in Dice, NEW side \in 0 .. build.sides
      PROVE  TallyCell(row, side) \in Cells
  <2>1. CASE side > 0
    <3>1. side - 1 \in 0 .. build.sides
      BY <1>0, <2>1
    <3> QED BY <1>1, <2>1, <3>1 DEF TallyCell
  <2>2. CASE ~ (side > 0) /\ row > 0
    <3>1. row - 1 \in Dice /\ build.sides \in 0 .. build.sides
      BY <1>0, <2>2
    <3> QED BY <1>1, <2>2, <3>1 DEF TallyCell
  <2>3. CASE ~ (side > 0) /\ ~ (row > 0)
    BY <1>3, <2>3 DEF TallyCell
  <2> QED BY <2>1, <2>2, <2>3
<1> QED BY <1>0, <1>1, <1>2, <1>3, <1>4, <1>5

(* The dice set that is passed on has been written.                        *)
LEMMA DsetWritten ==
    ASSUME build \in Builds, NEW g, Well(g)
    PROVE  Dset(g) \in DiceSets
<1>1. g.row \in Dice /\ g.side \in 0 .. build.sides
  BY DEF Well, Goroutines
<1>2. /\ g.dsetcache[<<0, 0>>] \in DiceSets
      /\ \A cell \in Cells : Before(cell, g) => g.dsetcache[cell] \in DiceSets
  BY DEF Well, PathInv
<1>3. DsetCell(g.row, g.side) \in Cells
  BY <1>1, CellsAre
<1>4. DsetCell(g.row, g.side) = <<0, 0>> \/ Before(DsetCell(g.row, g.side), g)
  <2>1. CASE g.side > 0
    <3>1. DsetCell(g.row, g.side) = <<g.row, g.side - 1>>
      BY <2>1 DEF DsetCell
    <3>2. g.side - 1 < build.sides /\ g.side - 1 < g.side
      <4>1. build.sides \in Nat
        BY CellsAre
      <4>2. PICK n \in Nat : n = build.sides
        BY <4>1
      <4>3. g.side \in 0 .. n
        BY <1>1, <4>2
      <4> QED BY <4>2, <4>3
    <3> QED BY <3>1, <3>2 DEF Before
  <2>2. CASE ~ (g.side > 0) /\ g.row > 0
    <3>1. DsetCell(g.row, g.side) = <<g.row - 1, build.sides - 1>>
      BY <2>2 DEF DsetCell
    <3>2. g.row - 1 < g.row /\ build.sides - 1 < build.sides
      <4>1. g.row \in Int /\ build.sides \in Int
        BY <1>1, CellsAre
      <4> QED BY <4>1
    <3> QED BY <3>1, <3>2 DEF Before
  <2>3. CASE ~ (g.side > 0) /\ ~ (g.row > 0)
    BY <2>3 DEF DsetCell
  <2> QED BY <2>1, <2>2, <2>3
<1> QED BY <1>2, <1>3, <1>4 DEF Dset

LEMMA FieldsAre ==
    ASSUME NEW g \in Goroutines
    PROVE  /\ g.pc \in AtWork /\ g.row \in Dice /\ g.side \in 0 .. build.sides
           /\ g.kind \in Kinds \union {"none"}
           /\ g.choice \in [Cells -> Nat]
           /\ g.dsetcache \in [Cells -> DiceSets \union {<<>>}]
           /\ g.curtallycache \in [Cells -> [Dice -> Nat]]
           /\ g.left \in [Dice -> Bounds \union {<<>>}]
           /\ g = [pc |-> g.pc, row |-> g.row, side |-> g.side, kind |-> g.kind,
                  choice |-> g.choice,
                   dsetcache |-> g.dsetcache, curtallycache |-> g.curtallycache, left |-> g.left]
  BY DEF Goroutines

(* Where the goroutine stands, and that what it may still read is there.   *)
LEMMA PathNeeds ==
    ASSUME build \in Builds, NEW g \in Goroutines
    PROVE  Well(g) <=>
               /\ g.dsetcache[<<0, 0>>] \in DiceSets
               /\ \A row \in Dice, side \in 0 .. build.sides - 1 :
                      row < g.row \/ (row = g.row /\ side < g.side)
                          => g.dsetcache[<<row, side>>] \in DiceSets
               /\ \A r \in Dice : r < g.row \/ (r = g.row /\ (g.side > 0 \/ g.pc = "choose"))
                      => g.left[r] \in Bounds
               /\ g.pc = "choose" => g.side < build.sides
               /\ g.pc \in {"count", "print", "classify"} => g.kind \in Kinds
<1>1. /\ \A row \in Dice, side \in 0 .. build.sides : <<row, side>> \in Cells
      /\ \A cell \in Cells : /\ cell[1] \in Dice /\ cell[2] \in 0 .. build.sides
                             /\ cell = <<cell[1], cell[2]>>
      /\ build.sides \in Nat
  BY CellsAre
<1>2. (\A cell \in Cells : Before(cell, g) => g.dsetcache[cell] \in DiceSets)
          <=> \A row \in Dice, side \in 0 .. build.sides - 1 :
                  row < g.row \/ (row = g.row /\ side < g.side)
                      => g.dsetcache[<<row, side>>] \in DiceSets
  <2>1. ASSUME \A cell \in Cells : Before(cell, g) => g.dsetcache[cell] \in DiceSets,
               NEW row \in Dice, NEW side \in 0 .. build.sides - 1,
               row < g.row \/ (row = g.row /\ side < g.side)
        PROVE  g.dsetcache[<<row, side>>] \in DiceSets
    <3>1. side \in 0 .. build.sides /\ side < build.sides
      BY <1>1
    <3>2. <<row, side>> \in Cells
      BY <1>1, <3>1
    <3>3. Before(<<row, side>>, g)
      BY <2>1, <3>1 DEF Before
    <3> QED BY <2>1, <3>2, <3>3
  <2>2. ASSUME \A row \in Dice, side \in 0 .. build.sides - 1 :
                   row < g.row \/ (row = g.row /\ side < g.side)
                       => g.dsetcache[<<row, side>>] \in DiceSets,
               NEW cell \in Cells, Before(cell, g)
        PROVE  g.dsetcache[cell] \in DiceSets
    <3>1. PICK row \in Dice, side \in 0 .. build.sides : cell = <<row, side>>
      BY <1>1
    <3>2. side < build.sides /\ (row < g.row \/ (row = g.row /\ side < g.side))
      BY <2>2, <3>1 DEF Before
    <3>3. side \in 0 .. build.sides - 1
      BY <1>1, <3>2
    <3> QED BY <2>2, <3>1, <3>2, <3>3
  <2> QED BY <2>1, <2>2
<1> QED BY <1>2 DEF Well, PathInv

LEMMA CacheSet ==
    ASSUME NEW g \in Goroutines, NEW c
    PROVE  LET h == [g EXCEPT !.dsetcache = c] IN
           /\ h.dsetcache = c /\ Dset(h) = c[DsetCell(g.row, g.side)]
           /\ \A cell, d, e, v :
                  [h EXCEPT !.dsetcache[cell][d][e] = v]
                      = [g EXCEPT !.dsetcache = [c EXCEPT ![cell][d][e] = v]]
<1> DEFINE h == [g EXCEPT !.dsetcache = c]
<1>1. "dsetcache" \in DOMAIN g /\ DOMAIN h = DOMAIN g /\ "row" \in DOMAIN g /\ "side" \in DOMAIN g
      /\ g = [x \in DOMAIN g |-> g[x]]
  BY FieldsAre
<1>2. h.dsetcache = c /\ h.row = g.row /\ h.side = g.side
  BY <1>1
<1>3. Dset(h) = c[DsetCell(g.row, g.side)]
  BY <1>2 DEF Dset
<1>4. ASSUME NEW cell, NEW d, NEW e, NEW v
      PROVE  [h EXCEPT !.dsetcache[cell][d][e] = v]
                 = [g EXCEPT !.dsetcache = [c EXCEPT ![cell][d][e] = v]]
  BY <1>1, <1>2
<1> QED BY <1>2, <1>3, <1>4

(* An update of the cells keeps a goroutine well formed.                   *)
LEMMA SwapInOf ==
    ASSUME build \in Builds, NEW g, Well(g), g.side < build.sides, NEW d \in Dice
    PROVE  \E cache \in [Cells -> DiceSets \union {<<>>}] :
               /\ SwapIn(g, d) = [g EXCEPT !.dsetcache = cache]
               /\ cache[<<g.row, g.side>>] \in DiceSets
               /\ \A cell \in Cells : cell # <<g.row, g.side>> => cache[cell] = g.dsetcache[cell]
<1>0. /\ g \in Goroutines /\ g.row \in Dice /\ g.side \in 0 .. build.sides
      /\ g.dsetcache \in [Cells -> DiceSets \union {<<>>}]
  BY FieldsAre DEF Well
<1>1. g.side \in Sides /\ Dset(g) \in DiceSets
  <2>1. g.side \in Sides
    <3>1. PICK n \in Nat : n = build.sides
      BY BuildTyped
    <3>2. PICK k \in 0 .. n : k = g.side
      BY <1>0, <3>1
    <3> QED BY <3>1, <3>2 DEF Sides
  <2> QED BY <2>1, DsetWritten
<1> DEFINE cell == <<g.row, g.side>>
           caller == DsetCell(g.row, g.side)
           c1 == [g.dsetcache EXCEPT ![cell] = Dset(g)]
           copied == [g EXCEPT !.dsetcache = c1]
           c2 == [c1 EXCEPT ![cell][g.row][g.side] = c1[caller][d][g.side]]
           placed == [copied EXCEPT !.dsetcache = c2]
           c3 == [c2 EXCEPT ![cell][d][g.side] = c2[caller][g.row][g.side]]
<1>2. cell \in Cells /\ caller \in Cells
  BY <1>0, CellsAre
<1>3. DiceSets = [Dice -> [Sides -> 0 .. build.dice * build.sides - 1]]
  BY DEF DiceSets, DiceSetsOf, Dice, Sides
<1>4. c1 \in [Cells -> DiceSets \union {<<>>}] /\ c1[cell] = Dset(g)
      /\ \A x \in Cells : x # cell => c1[x] = g.dsetcache[x]
  BY <1>0, <1>1, <1>2
<1>5. c1[caller] = Dset(g)
  BY <1>2, <1>4 DEF Dset
<1> SUFFICES /\ SwapIn(g, d) = [g EXCEPT !.dsetcache = c3]
             /\ c3 \in [Cells -> DiceSets \union {<<>>}] /\ c3[cell] \in DiceSets
             /\ \A x \in Cells : x # cell => c3[x] = g.dsetcache[x]
  OBVIOUS
<1> HIDE DEF cell, caller, c1
<1>6. /\ c2 \in [Cells -> DiceSets \union {<<>>}] /\ c2[cell] \in DiceSets
      /\ \A x \in Cells : x # cell => c2[x] = c1[x]
  <2>1. PICK dset : dset = Dset(g)
    OBVIOUS
  <2>2. dset \in DiceSets /\ c1[cell] = dset /\ c1[caller] = dset
    BY <1>1, <1>4, <1>5, <2>1
  <2>3. dset[d][g.side] \in 0 .. build.dice * build.sides - 1
    BY <1>1, <1>3, <2>2
  <2>4. c2 = [c1 EXCEPT ![cell] =
                 [dset EXCEPT ![g.row] = [dset[g.row] EXCEPT ![g.side] = dset[d][g.side]]]]
    BY <1>2, <1>4, <2>2
  <2>5. [dset EXCEPT ![g.row] = [dset[g.row] EXCEPT ![g.side] = dset[d][g.side]]] \in DiceSets
    BY <1>0, <1>1, <1>3, <2>2, <2>3
  <2> HIDE DEF c2
  <2> QED BY <1>2, <1>4, <2>4, <2>5
<1> HIDE DEF c2
<1>7. c2[caller] \in DiceSets
  BY <1>1, <1>2, <1>5, <1>6
<1>8. /\ c3 \in [Cells -> DiceSets \union {<<>>}] /\ c3[cell] \in DiceSets
      /\ \A x \in Cells : x # cell => c3[x] = c2[x]
  <2>1. PICK dset \in DiceSets : dset = c2[cell]
    BY <1>6
  <2>2. PICK v \in 0 .. build.dice * build.sides - 1 : v = c2[caller][g.row][g.side]
    BY <1>0, <1>1, <1>3, <1>7
  <2>4. c3 = [c2 EXCEPT ![cell] = [dset EXCEPT ![d] = [dset[d] EXCEPT ![g.side] = v]]]
    BY <1>2, <1>6, <2>1, <2>2
  <2>5. [dset EXCEPT ![d] = [dset[d] EXCEPT ![g.side] = v]] \in DiceSets
    BY <1>1, <1>3
  <2> HIDE DEF c3
  <2> QED BY <1>2, <1>6, <2>4, <2>5
<1> HIDE DEF c3
<1>9. SwapIn(g, d) = [g EXCEPT !.dsetcache = c3]
  <2>1. [g EXCEPT !.dsetcache[cell] = Dset(g)] = copied
    BY <1>0, FieldsAre DEF c1
  <2>2. PICK C1 : C1 = c1
    OBVIOUS
  <2>3. copied = [g EXCEPT !.dsetcache = C1] /\ Dset(copied) = C1[caller]
    BY <1>0, <2>2, CacheSet DEF caller
  <2>4. [copied EXCEPT !.dsetcache[cell][g.row][g.side] = Dset(copied)[d][g.side]] = placed
    BY <1>0, <2>2, <2>3, CacheSet DEF c2
  <2>5. PICK C2 : C2 = c2
    OBVIOUS
  <2>6. placed = [g EXCEPT !.dsetcache = C2] /\ Dset(placed) = C2[caller]
    <3>1. placed = [g EXCEPT !.dsetcache = C2]
      BY <1>0, <2>5, FieldsAre
    <3> QED BY <1>0, <3>1, CacheSet DEF caller
  <2>7. [placed EXCEPT !.dsetcache[cell][d][g.side] = Dset(placed)[g.row][g.side]]
            = [g EXCEPT !.dsetcache = c3]
    BY <1>0, <2>5, <2>6, CacheSet DEF c3
  <2> HIDE DEF copied, placed
  <2> QED BY <2>1, <2>4, <2>7, Zenon DEF SwapIn, cell
<1> QED BY <1>4, <1>6, <1>8, <1>9

-----------------------------------------------------------------------------
(* Goroutines field by field. *)
Made(pc, row, side, kind, choice, cache, tallies, left) ==
    [pc |-> pc, row |-> row, side |-> side, kind |-> kind, choice |-> choice,
     dsetcache |-> cache, curtallycache |-> tallies, left |-> left]

(* The updates of a goroutine, field by field. *)
PcSide(g, x, y)       == [g EXCEPT !.pc = x, !.side = y]
PcKind(g, x, y)       == [g EXCEPT !.pc = x, !.kind = y]
RowSide(g, x, y)      == [g EXCEPT !.row = x, !.side = y]
ChoiceIn(g, c, x)     == [g EXCEPT !.choice[c] = x]
TallyIn(g, c, x)      == [g EXCEPT !.curtallycache[c] = x]
PcChoice(g, x, c, y)  == [g EXCEPT !.pc = x, !.choice[c] = y]
Caller(g, x, r, y, c) == [g EXCEPT !.pc = x, !.row = r, !.side = y, !.choice[c] = @ + 1]

LEMMA MadeFields ==
    ASSUME NEW pc, NEW row, NEW side, NEW kind, NEW choice, NEW cache, NEW tallies, NEW left,
           NEW g, g = Made(pc, row, side, kind, choice, cache, tallies, left)
    PROVE  /\ g.pc = pc /\ g.row = row /\ g.side = side /\ g.kind = kind /\ g.choice = choice
           /\ g.dsetcache = cache /\ g.curtallycache = tallies /\ g.left = left
  BY DEF Made

LEMMA PcIs ==
    ASSUME NEW pc, NEW row, NEW side, NEW kind, NEW choice, NEW cache, NEW tallies, NEW left,
           NEW g, g = Made(pc, row, side, kind, choice, cache, tallies, left),
           NEW x
    PROVE  [g EXCEPT !.pc = x] = Made(x, row, side, kind, choice, cache, tallies, left)
  BY DEF Made

LEMMA RowIs ==
    ASSUME NEW pc, NEW row, NEW side, NEW kind, NEW choice, NEW cache, NEW tallies, NEW left,
           NEW g, g = Made(pc, row, side, kind, choice, cache, tallies, left),
           NEW x
    PROVE  [g EXCEPT !.row = x] = Made(pc, x, side, kind, choice, cache, tallies, left)
  BY DEF Made

LEMMA SideIs ==
    ASSUME NEW pc, NEW row, NEW side, NEW kind, NEW choice, NEW cache, NEW tallies, NEW left,
           NEW g, g = Made(pc, row, side, kind, choice, cache, tallies, left),
           NEW x
    PROVE  [g EXCEPT !.side = x] = Made(pc, row, x, kind, choice, cache, tallies, left)
  BY DEF Made

LEMMA KindIs ==
    ASSUME NEW pc, NEW row, NEW side, NEW kind, NEW choice, NEW cache, NEW tallies, NEW left,
           NEW g, g = Made(pc, row, side, kind, choice, cache, tallies, left),
           NEW x
    PROVE  [g EXCEPT !.kind = x] = Made(pc, row, side, x, choice, cache, tallies, left)
  BY DEF Made

LEMMA CacheIs ==
    ASSUME NEW pc, NEW row, NEW side, NEW kind, NEW choice, NEW cache, NEW tallies, NEW left,
           NEW g, g = Made(pc, row, side, kind, choice, cache, tallies, left),
           NEW x
    PROVE  [g EXCEPT !.dsetcache = x] = Made(pc, row, side, kind, choice, x, tallies, left)
  BY DEF Made

LEMMA ChoiceInIs ==
    ASSUME NEW pc, NEW row, NEW side, NEW kind, NEW choice, NEW cache, NEW tallies, NEW left,
           NEW g, g = Made(pc, row, side, kind, choice, cache, tallies, left),
           NEW c, NEW x
    PROVE  ChoiceIn(g, c, x)
               = Made(pc, row, side, kind, [choice EXCEPT ![c] = x], cache, tallies, left)
<1>1. g.choice = choice
  BY DEF Made
<1>2. [g EXCEPT !.choice[c] = x] = [g EXCEPT !.choice = [choice EXCEPT ![c] = x]]
  BY <1>1
<1>3. PICK s : s = [choice EXCEPT ![c] = x]
  OBVIOUS
<1>4. [g EXCEPT !.choice = s] = Made(pc, row, side, kind, s, cache, tallies, left)
  BY DEF Made
<1> QED BY <1>2, <1>3, <1>4 DEF ChoiceIn

LEMMA TallyInIs ==
    ASSUME NEW pc, NEW row, NEW side, NEW kind, NEW choice, NEW cache, NEW tallies, NEW left,
           NEW g, g = Made(pc, row, side, kind, choice, cache, tallies, left),
           NEW c, NEW x
    PROVE  TallyIn(g, c, x)
               = Made(pc, row, side, kind, choice, cache, [tallies EXCEPT ![c] = x], left)
<1>1. g.curtallycache = tallies
  BY DEF Made
<1>2. [g EXCEPT !.curtallycache[c] = x] = [g EXCEPT !.curtallycache = [tallies EXCEPT ![c] = x]]
  BY <1>1
<1>3. PICK s : s = [tallies EXCEPT ![c] = x]
  OBVIOUS
<1>4. [g EXCEPT !.curtallycache = s] = Made(pc, row, side, kind, choice, cache, s, left)
  BY DEF Made
<1> QED BY <1>2, <1>3, <1>4 DEF TallyIn

LEMMA PcSideIs ==
    ASSUME NEW pc, NEW row, NEW side, NEW kind, NEW choice, NEW cache, NEW tallies, NEW left,
           NEW g, g = Made(pc, row, side, kind, choice, cache, tallies, left),
           NEW x, NEW y
    PROVE  PcSide(g, x, y) = Made(x, row, y, kind, choice, cache, tallies, left)
<1>1. PICK h : h = [g EXCEPT !.pc = x]
  OBVIOUS
<1>2. h = Made(x, row, side, kind, choice, cache, tallies, left)
  BY <1>1, PcIs
<1>3. [h EXCEPT !.side = y] = Made(x, row, y, kind, choice, cache, tallies, left)
  BY <1>2, SideIs
<1> QED BY <1>1, <1>3, Zenon DEF PcSide

LEMMA PcKindIs ==
    ASSUME NEW pc, NEW row, NEW side, NEW kind, NEW choice, NEW cache, NEW tallies, NEW left,
           NEW g, g = Made(pc, row, side, kind, choice, cache, tallies, left),
           NEW x, NEW y
    PROVE  PcKind(g, x, y) = Made(x, row, side, y, choice, cache, tallies, left)
<1>1. PICK h : h = [g EXCEPT !.pc = x]
  OBVIOUS
<1>2. h = Made(x, row, side, kind, choice, cache, tallies, left)
  BY <1>1, PcIs
<1>3. [h EXCEPT !.kind = y] = Made(x, row, side, y, choice, cache, tallies, left)
  BY <1>2, KindIs
<1> QED BY <1>1, <1>3, Zenon DEF PcKind

LEMMA RowSideIs ==
    ASSUME NEW pc, NEW row, NEW side, NEW kind, NEW choice, NEW cache, NEW tallies, NEW left,
           NEW g, g = Made(pc, row, side, kind, choice, cache, tallies, left),
           NEW x, NEW y
    PROVE  RowSide(g, x, y) = Made(pc, x, y, kind, choice, cache, tallies, left)
<1>1. PICK h : h = [g EXCEPT !.row = x]
  OBVIOUS
<1>2. h = Made(pc, x, side, kind, choice, cache, tallies, left)
  BY <1>1, RowIs
<1>3. [h EXCEPT !.side = y] = Made(pc, x, y, kind, choice, cache, tallies, left)
  BY <1>2, SideIs
<1> QED BY <1>1, <1>3, Zenon DEF RowSide

LEMMA PcChoiceIs ==
    ASSUME NEW pc, NEW row, NEW side, NEW kind, NEW choice, NEW cache, NEW tallies, NEW left,
           NEW g, g = Made(pc, row, side, kind, choice, cache, tallies, left),
           NEW x, NEW c, NEW y
    PROVE  PcChoice(g, x, c, y)
               = Made(x, row, side, kind, [choice EXCEPT ![c] = y], cache, tallies, left)
<1>1. PICK h : h = [g EXCEPT !.pc = x]
  OBVIOUS
<1>2. h = Made(x, row, side, kind, choice, cache, tallies, left)
  BY <1>1, PcIs
<1>3. ChoiceIn(h, c, y) = Made(x, row, side, kind, [choice EXCEPT ![c] = y], cache, tallies, left)
  BY <1>2, ChoiceInIs
<1> QED BY <1>1, <1>3, Zenon DEF PcChoice, ChoiceIn

LEMMA CallerIs ==
    ASSUME NEW pc, NEW row, NEW side, NEW kind, NEW choice, NEW cache, NEW tallies, NEW left,
           NEW g, g = Made(pc, row, side, kind, choice, cache, tallies, left),
           NEW x, NEW r, NEW y, NEW c
    PROVE  Caller(g, x, r, y, c)
               = Made(x, r, y, kind, [choice EXCEPT ![c] = choice[c] + 1], cache, tallies, left)
<1>1. PICK h : h = [g EXCEPT !.pc = x]
  OBVIOUS
<1>2. h = Made(x, row, side, kind, choice, cache, tallies, left)
  BY <1>1, PcIs
<1>3. RowSide(h, r, y) = Made(x, r, y, kind, choice, cache, tallies, left)
  BY <1>2, RowSideIs
<1>4. PICK i : i = RowSide(h, r, y)
  OBVIOUS
<1>5. PICK v : v = choice[c] + 1
  OBVIOUS
<1>6. ChoiceIn(i, c, v) = Made(x, r, y, kind, [choice EXCEPT ![c] = v], cache, tallies, left)
  BY <1>3, <1>4, ChoiceInIs
<1>7. g.choice = choice
  BY MadeFields
<1>8. Caller(g, x, r, y, c) = ChoiceIn(i, c, v)
  BY <1>1, <1>4, <1>5, <1>7, Zenon DEF Caller, RowSide, ChoiceIn
<1> QED BY <1>5, <1>6, <1>8, Zenon

LEMMA DiceAre ==
    ASSUME build \in Builds
    PROVE  /\ Dice = 0 .. build.dice - 1 /\ build.dice \in Nat /\ build.dice > 1
           /\ build.sides \in Nat /\ build.sides > 0
  BY BuildTyped DEF Dice

LEMMA DiceAreNumbers ==
    ASSUME build \in Builds
    PROVE  \A r \in Dice : r \in Nat
  BY BuildTyped DEF Dice

LEMMA MadeOf == ASSUME NEW g \in Goroutines
    PROVE g = Made(g.pc, g.row, g.side, g.kind, g.choice, g.dsetcache, g.curtallycache, g.left)
  BY DEF Goroutines, Made

LEMMA WellMade ==
    ASSUME build \in Builds,
           NEW pc \in AtWork, NEW row \in Dice, NEW side \in 0 .. build.sides,
           NEW kind \in Kinds \union {"none"}, NEW choice \in [Cells -> Nat],
           NEW cache \in [Cells -> DiceSets \union {<<>>}],
           NEW tallies \in [Cells -> [Dice -> Nat]],
           NEW left \in [Dice -> Bounds \union {<<>>}],
           cache[<<0, 0>>] \in DiceSets,
           \A r \in Dice, s \in 0 .. build.sides - 1 :
               r < row \/ (r = row /\ s < side) => cache[<<r, s>>] \in DiceSets,
           \A r \in Dice : r < row \/ (r = row /\ (side > 0 \/ pc = "choose"))
               => left[r] \in Bounds,
           pc = "choose" => side < build.sides,
           pc \in {"count", "print", "classify"} => kind \in Kinds
    PROVE  Well(Made(pc, row, side, kind, choice, cache, tallies, left))
<1>1. PICK g : g = Made(pc, row, side, kind, choice, cache, tallies, left)
  OBVIOUS
<1>2. g \in Goroutines
  BY <1>1 DEF Goroutines, Made
<1>3. /\ g.pc = pc /\ g.row = row /\ g.side = side /\ g.kind = kind
      /\ g.dsetcache = cache /\ g.left = left
  BY <1>1 DEF Made
<1>4. Well(g)
  BY <1>2, <1>3, PathNeeds
<1> QED BY <1>1, <1>4

LEMMA BoundsOf ==
    ASSUME build \in Builds, NEW g, Well(g)
    PROVE  \E left \in [Dice -> Bounds \union {<<>>}] :
               /\ WithBounds(g)
                      = Made(g.pc, g.row, g.side, g.kind, g.choice, g.dsetcache,
                          g.curtallycache, left)
               /\ left[g.row] \in Bounds
               /\ \A r \in Dice : r # g.row => left[r] = g.left[r]
<1>1. /\ g \in Goroutines /\ g.row \in Dice /\ g.side \in 0 .. build.sides
      /\ g.left \in [Dice -> Bounds \union {<<>>}]
  BY FieldsAre DEF Well
<1>2. g = Made(g.pc, g.row, g.side, g.kind, g.choice, g.dsetcache, g.curtallycache, g.left)
  BY <1>1, MadeOf
<1>3. CASE g.side = 0
  <2>1. PICK x \in Bounds : x = find_tally_left(Dset(g), g.row)
    BY <1>1, DsetWritten, LeftOf
  <2>2. WithBounds(g) = [g EXCEPT !.left[g.row] = x]
    BY <1>3, <2>1 DEF WithBounds
  <2>3. WithBounds(g) = Made(g.pc, g.row, g.side, g.kind, g.choice, g.dsetcache, g.curtallycache,
                             [g.left EXCEPT ![g.row] = x])
    BY <1>2, <2>2 DEF Made
  <2> QED BY <1>1, <2>3
<1>4. CASE g.side # 0
  <2>1. WithBounds(g) = g
    BY <1>4 DEF WithBounds
  <2>2. g.side > 0
    BY <1>1, <1>4, BuildTyped
  <2>3. g.left[g.row] \in Bounds
    BY <1>1, <2>2, PathNeeds
  <2> QED BY <1>1, <1>2, <2>1, <2>3
<1> QED BY <1>3, <1>4

LEMMA EnterWell ==
    ASSUME build \in Builds, NEW g, Well(g), g.side < build.sides, NEW h, h = WithBounds(g)
    PROVE  /\ Well([h EXCEPT !.pc = "choose", !.choice[<<h.row, h.side>>] = h.row])
           /\ Well([h EXCEPT !.pc = "return"])
<1>1. PICK left \in [Dice -> Bounds \union {<<>>}] :
          /\ h = Made(g.pc, g.row, g.side, g.kind, g.choice, g.dsetcache, g.curtallycache, left)
          /\ left[g.row] \in Bounds
          /\ \A r \in Dice : r # g.row => left[r] = g.left[r]
  BY BoundsOf
<1>2. g \in Goroutines
  BY DEF Well
<1>3. /\ g.dsetcache[<<0, 0>>] \in DiceSets
      /\ \A row \in Dice, side \in 0 .. build.sides - 1 :
             row < g.row \/ (row = g.row /\ side < g.side)
                 => g.dsetcache[<<row, side>>] \in DiceSets
      /\ \A r \in Dice : r < g.row => g.left[r] \in Bounds
  BY <1>2, PathNeeds
<1>4. \A r \in Dice : r <= g.row => left[r] \in Bounds
  <2>1. \A r \in Dice : r <= g.row => r < g.row \/ r = g.row
    <3>1. g.row \in Nat /\ \A r \in Dice : r \in Nat
      BY <1>2, FieldsAre, DiceAreNumbers
    <3> QED BY <3>1
  <2> QED BY <1>1, <1>3, <2>1
<1>5. /\ g.row \in Dice /\ g.side \in 0 .. build.sides /\ g.kind \in Kinds \union {"none"}
      /\ g.choice \in [Cells -> Nat] /\ g.dsetcache \in [Cells -> DiceSets \union {<<>>}]
      /\ g.curtallycache \in [Cells -> [Dice -> Nat]]
  BY <1>2, FieldsAre
<1>6. g.row \in Nat /\ \A r \in Dice : r \in Nat
  BY <1>5, DiceAreNumbers
<1>7. \A r \in Dice : r < g.row \/ r = g.row => left[r] \in Bounds
  BY <1>4, <1>6
<1>8. [h EXCEPT !.pc = "return"]
          = Made("return", g.row, g.side, g.kind, g.choice, g.dsetcache, g.curtallycache, left)
  BY <1>1 DEF Made
<1>9. Well(Made("return", g.row, g.side, g.kind, g.choice, g.dsetcache, g.curtallycache, left))
  BY <1>3, <1>5, <1>7, WellMade DEF AtWork
<1>10. PICK choice \in [Cells -> Nat] : choice = [g.choice EXCEPT ![<<g.row, g.side>>] = g.row]
  BY <1>5, <1>6
<1>11. [h EXCEPT !.pc = "choose", !.choice[<<h.row, h.side>>] = h.row]
           = Made("choose", g.row, g.side, g.kind, choice, g.dsetcache, g.curtallycache, left)
  <2>1. h.row = g.row /\ h.side = g.side
    BY <1>1, MadeFields
  <2>2. PcChoice(h, "choose", <<g.row, g.side>>, g.row)
            = Made("choose", g.row, g.side, g.kind, choice, g.dsetcache, g.curtallycache, left)
    BY <1>1, <1>10, PcChoiceIs
  <2> QED BY <2>1, <2>2 DEF PcChoice
<1>12. Well(Made("choose", g.row, g.side, g.kind, choice, g.dsetcache, g.curtallycache, left))
  BY <1>3, <1>5, <1>7, WellMade DEF AtWork
<1> QED BY <1>8, <1>9, <1>11, <1>12

LEMMA TryWell ==
    ASSUME build \in Builds, NEW g, Well(g), g.pc = "choose",
           NEW d \in Nat, d <= LastChoice(g), NEW h, h = SwapIn(g, d)
    PROVE  Well([AddTally(h) EXCEPT !.pc = "enter", !.side = h.side + 1])
<1>0. /\ g \in Goroutines /\ g.row \in Dice /\ g.side \in 0 .. build.sides
      /\ g.kind \in Kinds \union {"none"} /\ g.choice \in [Cells -> Nat]
      /\ g.curtallycache \in [Cells -> [Dice -> Nat]]
      /\ g.left \in [Dice -> Bounds \union {<<>>}]
  BY FieldsAre DEF Well
<1>1. g.side < build.sides
  BY <1>0, PathNeeds
<1>2. d \in Dice
  BY <1>0, CellsAre DEF LastChoice
<1>3. PICK cache \in [Cells -> DiceSets \union {<<>>}] :
          /\ h = [g EXCEPT !.dsetcache = cache]
          /\ cache[<<g.row, g.side>>] \in DiceSets
          /\ \A cell \in Cells : cell # <<g.row, g.side>> => cache[cell] = g.dsetcache[cell]
  BY <1>1, <1>2, SwapInOf
<1>4. h = Made("choose", g.row, g.side, g.kind, g.choice, cache, g.curtallycache, g.left)
  <2>1. g = Made("choose", g.row, g.side, g.kind, g.choice, g.dsetcache, g.curtallycache, g.left)
    BY <1>0, MadeOf
  <2> QED BY <1>3, <2>1, CacheIs
<1>5. /\ <<g.row, g.side>> \in Cells /\ TallyCell(g.row, g.side) \in Cells /\ <<0, 0>> \in Cells
      /\ g.side \in Nat /\ g.row \in Nat /\ g.side + 1 \in 0 .. build.sides
      /\ \A r \in Dice : r \in Nat
  <2>1. /\ <<g.row, g.side>> \in Cells /\ TallyCell(g.row, g.side) \in Cells /\ <<0, 0>> \in Cells
    BY <1>0, CellsAre
  <2>2. /\ g.row \in Nat /\ \A r \in Dice : r \in Nat
    BY <1>0, DiceAreNumbers
  <2>3. build.sides \in Nat
    BY BuildTyped
  <2>4. g.side \in Nat /\ g.side + 1 \in 0 .. build.sides
    BY <1>0, <1>1, <2>3
  <2> QED BY <2>1, <2>2, <2>4
<1>6. g.row \in Dice /\ g.side \in Sides
  <2>1. build.sides \in Nat
    BY BuildTyped
  <2> QED BY <1>0, <1>1, <2>1 DEF Sides
<1>7. cache[<<g.row, g.side>>][g.row][g.side] \in 0 .. build.dice * build.sides - 1
  BY <1>3, <1>6 DEF DiceSets, DiceSetsOf, Dice, Sides
<1>8. PICK v \in 0 .. build.dice * build.sides - 1 : v = cache[<<g.row, g.side>>][g.row][g.side]
  BY <1>7
<1>9. PICK tally \in [Dice -> Nat] :
          tally = [p \in Dice |-> g.curtallycache[TallyCell(g.row, g.side)][p] + Tally(v, p)]
  <2>1. \A p \in Dice : Tally(v, p) \in Nat
    BY TallyTyped
  <2>2. PICK old \in [Dice -> Nat] : old = g.curtallycache[TallyCell(g.row, g.side)]
    BY <1>0, <1>5
  <2>3. \A p \in Dice : old[p] + Tally(v, p) \in Nat
    BY <2>1
  <2> QED BY <2>2, <2>3
<1>10. PICK tallies \in [Cells -> [Dice -> Nat]] :
           tallies = [g.curtallycache EXCEPT ![<<g.row, g.side>>] = tally]
  BY <1>0
<1>11. /\ h.row = g.row /\ h.side = g.side /\ h.dsetcache = cache
       /\ h.curtallycache = g.curtallycache
  BY <1>4 DEF Made
<1>12. AddTally(h) = [h EXCEPT !.curtallycache[<<g.row, g.side>>] = tally]
  BY <1>8, <1>9, <1>11 DEF AddTally, Curtally
<1>13. AddTally(h) = Made("choose", g.row, g.side, g.kind, g.choice, cache, tallies, g.left)
  <2>1. TallyIn(h, <<g.row, g.side>>, tally)
            = Made("choose", g.row, g.side, g.kind, g.choice, cache, tallies, g.left)
    <3>1. PICK old, cell : old = g.curtallycache /\ cell = <<g.row, g.side>>
      OBVIOUS
    <3>2. TallyIn(h, cell, tally)
              = Made("choose", g.row, g.side, g.kind, g.choice, cache,
                     [old EXCEPT ![cell] = tally], g.left)
      <4>1. h = Made("choose", g.row, g.side, g.kind, g.choice, cache, old, g.left)
        BY <1>4, <3>1
      <4>2. PICK row, side, kind, choice, left :
                row = g.row /\ side = g.side /\ kind = g.kind /\ choice = g.choice /\ left = g.left
        OBVIOUS
      <4>3. h = Made("choose", row, side, kind, choice, cache, old, left)
        BY <4>1, <4>2
      <4>4. TallyIn(h, cell, tally)
                = Made("choose", row, side, kind, choice, cache, [old EXCEPT ![cell] = tally], left)
        BY ONLY <4>3, TallyInIs
      <4> QED BY <4>2, <4>4
    <3> QED BY <1>10, <3>1, <3>2
  <2> QED BY <1>12, <2>1 DEF TallyIn
<1>14. [AddTally(h) EXCEPT !.pc = "enter", !.side = h.side + 1]
           = Made("enter", g.row, g.side + 1, g.kind, g.choice, cache, tallies, g.left)
  <2>1. PICK i : i = AddTally(h)
    OBVIOUS
  <2>2. PcSide(i, "enter", g.side + 1)
            = Made("enter", g.row, g.side + 1, g.kind, g.choice, cache, tallies, g.left)
    BY <1>13, <2>1, PcSideIs
  <2> QED BY <1>11, <2>1, <2>2 DEF PcSide
<1>15. \A r \in Dice, s \in 0 .. build.sides - 1 :
           r < g.row \/ (r = g.row /\ s < g.side + 1) => cache[<<r, s>>] \in DiceSets
  <2> SUFFICES ASSUME NEW r \in Dice, NEW s \in 0 .. build.sides - 1,
                      r < g.row \/ (r = g.row /\ s < g.side + 1)
               PROVE  cache[<<r, s>>] \in DiceSets
    OBVIOUS
  <2>1. CASE r = g.row /\ s = g.side
    BY <1>3, <2>1
  <2>2. CASE ~ (r = g.row /\ s = g.side)
    <3>1. s \in 0 .. build.sides /\ s \in Int
      BY BuildTyped
    <3>2. <<r, s>> \in Cells /\ <<r, s>> # <<g.row, g.side>>
      BY <2>2, <3>1, CellsAre
    <3>3. r < g.row \/ (r = g.row /\ s < g.side)
      BY <1>5, <2>2, <3>1
    <3>4. g.dsetcache[<<r, s>>] \in DiceSets
      BY <1>0, <3>3, PathNeeds
    <3> QED BY <1>3, <3>2, <3>4
  <2> QED BY <2>1, <2>2
<1>16. cache[<<0, 0>>] \in DiceSets
  <2>1. g.dsetcache[<<0, 0>>] \in DiceSets
    BY <1>0, PathNeeds
  <2> QED BY <1>3, <1>5, <2>1
<1>17. \A r \in Dice : r < g.row \/ r = g.row => g.left[r] \in Bounds
  BY <1>0, PathNeeds
<1>18. Well(Made("enter", g.row, g.side + 1, g.kind, g.choice, cache, tallies, g.left))
  BY <1>0, <1>5, <1>15, <1>16, <1>17, WellMade DEF AtWork
<1> QED BY <1>14, <1>18

-----------------------------------------------------------------------------
(* What a step makes of a goroutine. *)
(* A step within the search that only says where the goroutine is.         *)
LEMMA MoveWell ==
    ASSUME build \in Builds, NEW g, Well(g),
           NEW pc \in AtWork \ {"choose"}, NEW kind \in Kinds \union {"none"},
           pc \in {"count", "print", "classify"} => kind \in Kinds
    PROVE  /\ Well([g EXCEPT !.pc = pc, !.kind = kind])
           /\ kind = g.kind => Well([g EXCEPT !.pc = pc])
<1>0. /\ g \in Goroutines /\ g.row \in Dice /\ g.side \in 0 .. build.sides
      /\ g.choice \in [Cells -> Nat]
      /\ g.dsetcache \in [Cells -> DiceSets \union {<<>>}]
      /\ g.curtallycache \in [Cells -> [Dice -> Nat]]
      /\ g.left \in [Dice -> Bounds \union {<<>>}]
  BY FieldsAre DEF Well
<1>1. /\ g.dsetcache[<<0, 0>>] \in DiceSets
      /\ \A row \in Dice, side \in 0 .. build.sides - 1 :
             row < g.row \/ (row = g.row /\ side < g.side)
                 => g.dsetcache[<<row, side>>] \in DiceSets
      /\ \A r \in Dice : r < g.row \/ (r = g.row /\ g.side > 0) => g.left[r] \in Bounds
  BY <1>0, PathNeeds
<1>2. Well(Made(pc, g.row, g.side, kind, g.choice, g.dsetcache, g.curtallycache, g.left))
  BY <1>0, <1>1, WellMade
<1>3. g = Made(g.pc, g.row, g.side, g.kind, g.choice, g.dsetcache, g.curtallycache, g.left)
  BY <1>0, MadeOf
<1>4. PcKind(g, pc, kind)
          = Made(pc, g.row, g.side, kind, g.choice, g.dsetcache, g.curtallycache, g.left)
  BY <1>3, PcKindIs
<1>5. [g EXCEPT !.pc = pc]
          = Made(pc, g.row, g.side, g.kind, g.choice, g.dsetcache, g.curtallycache, g.left)
  BY <1>3, PcIs
<1>6. Well([g EXCEPT !.pc = pc, !.kind = kind])
  BY <1>2, <1>4 DEF PcKind
<1>7. kind = g.kind => Well([g EXCEPT !.pc = pc])
  BY <1>2, <1>5
<1> QED BY <1>6, <1>7

LEMMA ReturnWell ==
    ASSUME build \in Builds, NEW g, Well(g)
    PROVE  Well(Returned(g))
<1>0. /\ g \in Goroutines /\ g.row \in Dice /\ g.side \in 0 .. build.sides
      /\ g.kind \in Kinds \union {"none"} /\ g.choice \in [Cells -> Nat]
      /\ g.dsetcache \in [Cells -> DiceSets \union {<<>>}]
      /\ g.curtallycache \in [Cells -> [Dice -> Nat]]
      /\ g.left \in [Dice -> Bounds \union {<<>>}]
  BY FieldsAre DEF Well
<1>1. CASE g.row = 0 /\ g.side = 0
  <2>1. Returned(g) = [g EXCEPT !.pc = "release"]
    BY <1>1 DEF Returned
  <2>2. PICK kind \in Kinds \union {"none"} : kind = g.kind
    BY <1>0
  <2>3. "release" \in AtWork \ {"choose"} /\ "release" \notin {"count", "print", "classify"}
    BY DEF AtWork
  <2>4. PICK pc \in AtWork \ {"choose"} : pc = "release"
    BY <2>3
  <2>5. pc \in {"count", "print", "classify"} => kind \in Kinds
    BY <2>3, <2>4
  <2>6. Well([g EXCEPT !.pc = pc])
    BY <2>2, <2>5, MoveWell
  <2> QED BY <2>1, <2>4, <2>6
<1>2. CASE ~ (g.row = 0 /\ g.side = 0)
  <2>0. /\ build.sides \in Nat /\ build.sides > 0
        /\ g.row \in Nat /\ g.side \in Nat /\ g.side <= build.sides
        /\ Dice = 0 .. build.dice - 1 /\ build.dice \in Nat
    <3>1. /\ Dice = 0 .. build.dice - 1 /\ build.dice \in Nat
          /\ build.sides \in Nat /\ build.sides > 0
      BY DiceAre
    <3>2. g.row \in Nat
      BY <1>0, DiceAreNumbers
    <3>3. g.side \in Nat /\ g.side <= build.sides
      BY <1>0, <3>1
    <3> QED BY <3>1, <3>2, <3>3
  <2>1. PICK row \in Dice, side \in 0 .. build.sides - 1 :
            /\ DsetCell(g.row, g.side) = <<row, side>>
            /\ row < g.row \/ (row = g.row /\ side < g.side)
            /\ row = g.row => g.side > 0
    <3>1. CASE g.side > 0
      <4>1. g.side - 1 \in 0 .. build.sides - 1 /\ g.side - 1 < g.side
        BY <2>0, <3>1
      <4>2. DsetCell(g.row, g.side) = <<g.row, g.side - 1>>
        BY <3>1 DEF DsetCell
      <4> QED BY <1>0, <3>1, <4>1, <4>2
    <3>2. CASE ~ (g.side > 0)
      <4>1. g.side = 0 /\ g.row > 0
        BY <1>2, <2>0, <3>2
      <4>2. g.row - 1 \in Dice /\ build.sides - 1 \in 0 .. build.sides - 1 /\ g.row - 1 < g.row
        BY <1>0, <2>0, <4>1
      <4>3. DsetCell(g.row, g.side) = <<g.row - 1, build.sides - 1>>
        BY <3>2, <4>1 DEF DsetCell
      <4>4. g.row - 1 # g.row
        BY <4>2, <2>0
      <4> QED BY <4>2, <4>3, <4>4
    <3> QED BY <3>1, <3>2
  <2>2. PICK cell : cell = <<row, side>>
    OBVIOUS
  <2>3. side \in 0 .. build.sides /\ side < build.sides /\ row \in Nat
    BY <2>0
  <2>4. cell \in Cells
    BY <2>2, <2>3, CellsAre
  <2>5. cell[1] = row /\ cell[2] = side
    BY <2>2
  <2>6. Returned(g) = [g EXCEPT !.pc = "choose", !.row = row, !.side = side, !.choice[cell] = @ + 1]
    BY <1>2, <2>1, <2>2, <2>5 DEF Returned
  <2>7. g = Made(g.pc, g.row, g.side, g.kind, g.choice, g.dsetcache, g.curtallycache, g.left)
    BY <1>0, MadeOf
  <2>8. Caller(g, "choose", row, side, cell)
            = Made("choose", row, side, g.kind, [g.choice EXCEPT ![cell] = g.choice[cell] + 1],
                   g.dsetcache, g.curtallycache, g.left)
    <3>1. PICK pc, r, s, kind, choice, cache, tallies, left :
              /\ pc = g.pc /\ r = g.row /\ s = g.side /\ kind = g.kind /\ choice = g.choice
              /\ cache = g.dsetcache /\ tallies = g.curtallycache /\ left = g.left
      OBVIOUS
    <3>2. g = Made(pc, r, s, kind, choice, cache, tallies, left)
      BY <2>7, <3>1
    <3>3. Caller(g, "choose", row, side, cell)
              = Made("choose", row, side, kind, [choice EXCEPT ![cell] = choice[cell] + 1],
                     cache, tallies, left)
      BY ONLY <3>2, CallerIs
    <3> QED BY <3>1, <3>3
  <2>9. PICK choice \in [Cells -> Nat] : choice = [g.choice EXCEPT ![cell] = g.choice[cell] + 1]
    <3>1. g.choice[cell] + 1 \in Nat
      BY <1>0, <2>4
    <3> QED BY <1>0, <3>1
  <2>10. /\ g.dsetcache[<<0, 0>>] \in DiceSets
         /\ \A r \in Dice, s \in 0 .. build.sides - 1 :
                r < g.row \/ (r = g.row /\ s < g.side) => g.dsetcache[<<r, s>>] \in DiceSets
         /\ \A r \in Dice : r < g.row \/ (r = g.row /\ g.side > 0) => g.left[r] \in Bounds
    BY <1>0, PathNeeds
  <2>11. \A r \in Dice, s \in 0 .. build.sides - 1 :
             r < row \/ (r = row /\ s < side) => r < g.row \/ (r = g.row /\ s < g.side)
    BY <2>0, <2>1, <2>3
  <2>12. \A r \in Dice : r < row \/ r = row => r < g.row \/ (r = g.row /\ g.side > 0)
    BY <2>0, <2>1, <2>3
  <2>13. Well(Made("choose", row, side, g.kind, choice, g.dsetcache, g.curtallycache, g.left))
    <3>1. /\ \A r \in Dice, s \in 0 .. build.sides - 1 :
                 r < row \/ (r = row /\ s < side) => g.dsetcache[<<r, s>>] \in DiceSets
          /\ \A r \in Dice : r < row \/ r = row => g.left[r] \in Bounds
      BY <2>10, <2>11, <2>12
    <3>2. "choose" \in AtWork /\ "choose" \notin {"count", "print", "classify"}
      BY DEF AtWork
    <3> QED BY <1>0, <2>3, <2>10, <3>1, <3>2, WellMade
  <2> QED BY <2>6, <2>8, <2>9, <2>13, Zenon DEF Caller
<1> QED BY <1>1, <1>2

LEMMA NextRowWell ==
    ASSUME build \in Builds, NEW g, Well(g), g.side = build.sides, g.row < build.dice - 2,
           g.pc = "enter"
    PROVE  Well([RestartTally(g) EXCEPT !.row = g.row + 1, !.side = 0])
<1>0. /\ g \in Goroutines /\ g.row \in Dice /\ g.side \in 0 .. build.sides
      /\ g.kind \in Kinds \union {"none"} /\ g.choice \in [Cells -> Nat]
      /\ g.dsetcache \in [Cells -> DiceSets \union {<<>>}]
      /\ g.curtallycache \in [Cells -> [Dice -> Nat]]
      /\ g.left \in [Dice -> Bounds \union {<<>>}]
  BY FieldsAre DEF Well
<1>1. /\ build.sides \in Nat /\ build.sides > 0 /\ g.row \in Nat
      /\ Dice = 0 .. build.dice - 1 /\ build.dice \in Nat
  BY <1>0, DiceAre, DiceAreNumbers
<1>2. g.row + 1 \in Dice /\ 0 \in 0 .. build.sides
  BY <1>1
<1>3. PICK cell : cell = <<g.row, build.sides>>
  OBVIOUS
<1>4. Zero \in [Dice -> Nat]
  BY DEF Zero
<1>5. PICK tallies \in [Cells -> [Dice -> Nat]] : tallies = [g.curtallycache EXCEPT ![cell] = Zero]
  BY <1>0, <1>4
<1>6. RestartTally(g) = TallyIn(g, cell, Zero)
  BY <1>3, Zenon DEF RestartTally, TallyIn
<1>7. g = Made("enter", g.row, g.side, g.kind, g.choice, g.dsetcache, g.curtallycache, g.left)
  BY <1>0, MadeOf
<1>8. [RestartTally(g) EXCEPT !.row = g.row + 1, !.side = 0]
          = Made("enter", g.row + 1, 0, g.kind, g.choice, g.dsetcache, tallies, g.left)
  <2>1. PICK row, side, kind, choice, cache, old, left, zero, next :
            /\ row = g.row /\ side = g.side /\ kind = g.kind /\ choice = g.choice
            /\ cache = g.dsetcache /\ old = g.curtallycache /\ left = g.left
            /\ zero = Zero /\ next = g.row + 1
    OBVIOUS
  <2>2. g = Made("enter", row, side, kind, choice, cache, old, left)
    BY <1>7, <2>1
  <2>3. TallyIn(g, cell, zero)
            = Made("enter", row, side, kind, choice, cache, [old EXCEPT ![cell] = zero], left)
    BY ONLY <2>2, TallyInIs
  <2>4. PICK h : h = RestartTally(g)
    OBVIOUS
  <2>5. h = Made("enter", row, side, kind, choice, cache, tallies, left)
    BY <1>5, <1>6, <2>1, <2>3, <2>4
  <2>6. RowSide(h, next, 0) = Made("enter", next, 0, kind, choice, cache, tallies, left)
    BY ONLY <2>5, RowSideIs
  <2> QED BY <2>1, <2>4, <2>6 DEF RowSide
<1>9. /\ g.dsetcache[<<0, 0>>] \in DiceSets
      /\ \A r \in Dice, s \in 0 .. build.sides - 1 :
             r < g.row \/ (r = g.row /\ s < g.side) => g.dsetcache[<<r, s>>] \in DiceSets
      /\ \A r \in Dice : r < g.row \/ (r = g.row /\ g.side > 0) => g.left[r] \in Bounds
  BY <1>0, PathNeeds
<1>10. /\ \A r \in Dice, s \in 0 .. build.sides - 1 :
              r < g.row + 1 \/ (r = g.row + 1 /\ s < 0) => r < g.row \/ (r = g.row /\ s < g.side)
       /\ \A r \in Dice : r < g.row + 1 => r < g.row \/ (r = g.row /\ g.side > 0)
  BY <1>1
<1>11. Well(Made("enter", g.row + 1, 0, g.kind, g.choice, g.dsetcache, tallies, g.left))
  <2>1. PICK row \in Dice : row = g.row + 1
    BY <1>2
  <2>2. /\ \A r \in Dice, s \in 0 .. build.sides - 1 :
               r < row \/ (r = row /\ s < 0) => g.dsetcache[<<r, s>>] \in DiceSets
        /\ \A r \in Dice : r < row \/ (r = row /\ (0 > 0 \/ "enter" = "choose"))
               => g.left[r] \in Bounds
    BY <1>9, <1>10, <2>1
  <2>3. "enter" \in AtWork /\ "enter" \notin {"count", "print", "classify"}
    BY DEF AtWork
  <2>4. Well(Made("enter", row, 0, g.kind, g.choice, g.dsetcache, tallies, g.left))
    BY <1>0, <1>2, <1>9, <2>2, <2>3, WellMade
  <2> QED BY <2>1, <2>4
<1> QED BY <1>8, <1>11

LEMMA StartedWell ==
    ASSUME build \in Builds, NEW n \in Nat
    PROVE  Well(Started(n))
<1>1. permute(build, n) \in DiceSets
  BY PermuteOf DEF DiceSets
<1>2. /\ <<0, 0>> \in Cells /\ 0 \in Dice /\ 0 \in 0 .. build.sides
      /\ Dice = 0 .. build.dice - 1 /\ build.dice \in Nat
  BY CellsAre
<1>3. Zero \in [Dice -> Nat]
  BY DEF Zero
<1>4. PICK cache \in [Cells -> DiceSets \union {<<>>}] :
          /\ cache = [cell \in Cells |-> IF cell = <<0, 0>> THEN permute(build, n) ELSE <<>>]
          /\ cache[<<0, 0>>] \in DiceSets
  <2>1. PICK p \in DiceSets : p = permute(build, n)
    BY <1>1
  <2>2. [cell \in Cells |-> IF cell = <<0, 0>> THEN p ELSE <<>>]
            \in [Cells -> DiceSets \union {<<>>}]
    OBVIOUS
  <2>3. [cell \in Cells |-> IF cell = <<0, 0>> THEN p ELSE <<>>][<<0, 0>>] = p
    BY <1>2
  <2> QED BY <2>1, <2>2, <2>3
<1>5. PICK choice \in [Cells -> Nat] : choice = [cell \in Cells |-> 0]
  OBVIOUS
<1>6. PICK tallies \in [Cells -> [Dice -> Nat]] : tallies = [cell \in Cells |-> Zero]
  BY <1>3
<1>7. PICK left \in [Dice -> Bounds \union {<<>>}] : left = [row \in Dice |-> <<>>]
  OBVIOUS
<1>8. Started(n) = Made("enter", 0, 0, "none", choice, cache, tallies, left)
  BY <1>4, <1>5, <1>6, <1>7, Zenon DEF Started, Made
<1>9. Well(Made("enter", 0, 0, "none", choice, cache, tallies, left))
  <2>1. /\ \A r \in Dice : ~ (r < 0)
        /\ \A s \in 0 .. build.sides - 1 : ~ (s < 0)
    BY <1>2
  <2>2. "enter" \in AtWork /\ "enter" \notin {"count", "print", "classify"} /\ "enter" # "choose"
    BY DEF AtWork
  <2>3. "none" \in Kinds \union {"none"} /\ ~ (0 > 0)
    OBVIOUS
  <2> QED BY <1>2, <1>4, <2>1, <2>2, <2>3, WellMade
<1> QED BY <1>8, <1>9

-----------------------------------------------------------------------------
(* The steps. *)
LEMMA SameSets ==
    ASSUME build' = build
    PROVE  /\ Goroutines' = Goroutines /\ DiceSets' = DiceSets /\ Bounds' = Bounds
           /\ Cells' = Cells /\ Dice' = Dice /\ Sides' = Sides
           /\ JobCount(build)' = JobCount(build)
<1>1. Dice' = Dice /\ Sides' = Sides
  BY DEF Dice, Sides
<1>2. Cells' = Cells
  BY <1>1 DEF Cells
<1>3. DiceSets' = DiceSets
  BY DEF DiceSets, DiceSetsOf
<1>4. Bounds' = Bounds
  BY <1>1 DEF Bounds
<1>5. Goroutines' = Goroutines
  BY <1>1, <1>2, <1>3, <1>4 DEF Goroutines
<1> QED BY <1>1, <1>2, <1>3, <1>4, <1>5

LEMMA SamePath ==
    ASSUME build' = build, NEW g
    PROVE  PathInv(g)' <=> PathInv(g)
<1>1. Cells' = Cells /\ DiceSets' = DiceSets /\ Bounds' = Bounds /\ Dice' = Dice
  BY SameSets
<1>2. \A cell : Before(cell, g)' <=> Before(cell, g)
  BY DEF Before
<1> QED BY <1>1, <1>2 DEF PathInv

(* Every goroutine is gone or well formed.                                 *)
LEMMA AllWell ==
    ASSUME TypeOK, PathsInv, NEW t \in DOMAIN goroutine
    PROVE  /\ goroutine[t] \in Goroutines \union {Gone}
           /\ goroutine[t].pc # "gone" => Well(goroutine[t])
           /\ goroutine[t].pc = "gone" => goroutine[t] = Gone
<1>1. goroutine[t] \in Goroutines \union {Gone}
  BY DEF TypeOK
<1>2. Gone.pc = "gone"
  BY DEF Gone
<1>3. ASSUME goroutine[t] \in Goroutines PROVE goroutine[t].pc # "gone"
  BY <1>3, FieldsAre DEF AtWork
<1> QED BY <1>1, <1>2, <1>3 DEF PathsInv, Well

LEMMA PathsKept ==
    ASSUME TypeOK, PathsInv, build' = build, NEW s,
           s \in Seq(Goroutines \union {Gone}), goroutine' = s,
           \A u \in DOMAIN s : s[u] = Gone \/ Well(s[u])
    PROVE  PathsInv'
<1> SUFFICES ASSUME NEW u \in DOMAIN s, s[u].pc # "gone"
             PROVE  PathInv(goroutine[u])'
  BY DEF PathsInv
<1>1. PICK g : g = s[u]
  OBVIOUS
<1>2. PathInv(g)
  BY <1>1 DEF Well, Gone
<1>3. PathInv(g)'
  BY <1>2, SamePath
<1> QED BY <1>1, <1>3

SearchStep(t) ==
    /\ goroutine[t].pc \notin {"leave", "gone"}
    /\ \E g : Well(g) /\ g.pc # "leave" /\ goroutine' = [goroutine EXCEPT ![t] = g]

LEMMA SearchKeeps ==
    ASSUME IInv, NEW t \in DOMAIN goroutine, SearchStep(t),
           UNCHANGED <<build, mainPc, threadcount, threadwait, waitgroup>>,
           count' \in [Kinds -> Nat]
    PROVE  IInv'
<1>0. /\ TypeOK /\ CreatedInv /\ CountedInv /\ PathsInv
      /\ build' = build
  BY DEF IInv
<1>1. PICK g : Well(g) /\ g.pc # "leave" /\ goroutine' = [goroutine EXCEPT ![t] = g]
  BY DEF SearchStep
<1>2. /\ goroutine \in Seq(Goroutines \union {Gone})
      /\ g \in Goroutines /\ g.pc # "gone"
  BY <1>0, <1>1, FieldsAre DEF TypeOK, Well, AtWork
<1>3. PICK s \in Seq(Goroutines \union {Gone}) :
          /\ s = [goroutine EXCEPT ![t] = g]
          /\ Len(s) = Len(goroutine) /\ DOMAIN s = DOMAIN goroutine
          /\ s[t] = g /\ \A u \in DOMAIN goroutine : u # t => s[u] = goroutine[u]
  <2>1. PICK S : S = Goroutines \union {Gone}
    OBVIOUS
  <2>2. goroutine \in Seq(S) /\ g \in S /\ t \in 1 .. Len(goroutine)
    BY <1>2, <2>1
  <2>3. [goroutine EXCEPT ![t] = g] \in Seq(S)
    BY <2>2
  <2>4. /\ Len([goroutine EXCEPT ![t] = g]) = Len(goroutine)
        /\ DOMAIN [goroutine EXCEPT ![t] = g] = DOMAIN goroutine
    BY <2>2
  <2> QED BY <2>1, <2>3, <2>4
<1>4. goroutine' = s
  BY <1>1, <1>3
<1>5. TypeOK'
  <2>1. Goroutines' = Goroutines
    BY <1>0, SameSets
  <2> QED BY <1>0, <1>4, <2>1 DEF TypeOK, Gone
<1>6. PathsInv'
  <2>1. \A u \in DOMAIN s : s[u] = Gone \/ Well(s[u])
    BY <1>0, <1>1, <1>3, AllWell
  <2> QED BY <1>0, <1>3, <1>4, <2>1, PathsKept
<1>7. CreatedInv'
  <2>1. JobCount(build)' = JobCount(build)
    BY <1>0
  <2> QED BY <1>0, <1>3, <1>4, <2>1 DEF CreatedInv
<1>8. CountedInv'
  <2>1. goroutine[t].pc \notin {"leave", "gone"} /\ s[t].pc \notin {"leave", "gone"}
    BY <1>1, <1>2, <1>3 DEF SearchStep
  <2>2. {u \in DOMAIN s : s[u].pc \notin {"leave", "gone"}} = Searching
    BY <1>3, <2>1 DEF Searching
  <2>3. {u \in DOMAIN s : s[u].pc # "gone"} = Present
    BY <1>3, <2>1 DEF Present
  <2>4. Searching' = Searching /\ Present' = Present
    BY <1>4, <2>2, <2>3 DEF Searching, Present
  <2> QED BY <1>0, <2>4 DEF CountedInv
<1> QED BY <1>5, <1>6, <1>7, <1>8 DEF IInv

LEMMA Advances ==
    ASSUME IInv, NEW t \in DOMAIN goroutine, NEW g, Well(g), g.pc # "leave",
           goroutine[t].pc \notin {"leave", "gone"}, Becomes(t, g)
    PROVE  SearchStep(t)
  BY DEF SearchStep, Becomes

LEMMA EnterSteps ==
    ASSUME IInv, NEW t \in DOMAIN goroutine, EnterNode(t)
    PROVE  SearchStep(t)
<1>1. /\ goroutine[t].pc = "enter" /\ goroutine[t].side < build.sides
      /\ TypeOK /\ PathsInv /\ build \in Builds
  BY DEF EnterNode, Running, IInv, TypeOK
<1>2. PICK g : g = goroutine[t]
  OBVIOUS
<1>3. Well(g) /\ g.pc = "enter" /\ g.side < build.sides
  BY <1>1, <1>2, AllWell
<1>4. PICK h : h = WithBounds(g)
  OBVIOUS
<1>5. /\ Well([h EXCEPT !.pc = "choose", !.choice[<<h.row, h.side>>] = h.row])
      /\ Well([h EXCEPT !.pc = "return"])
  BY <1>1, <1>3, <1>4, EnterWell
<1>6. Becomes(t, IF \A p \in Dice : Admitted(h, p)
                 THEN [h EXCEPT !.pc = "choose", !.choice[<<h.row, h.side>>] = h.row]
                 ELSE [h EXCEPT !.pc = "return"])
  BY <1>2, <1>4, Zenon DEF EnterNode, Search
<1>7. PICK p, q : /\ p = [h EXCEPT !.pc = "choose", !.choice[<<h.row, h.side>>] = h.row]
                  /\ q = [h EXCEPT !.pc = "return"]
  OBVIOUS
<1>8. Becomes(t, p) \/ Becomes(t, q)
  BY <1>6, <1>7, Zenon
<1>9. p.pc = "choose" /\ q.pc = "return"
  <2>1. "pc" \in DOMAIN h
    BY <1>3, <1>4, BoundsOf, <1>1 DEF Made
  <2> QED BY <1>7, <2>1
<1> QED BY <1>1, <1>5, <1>7, <1>8, <1>9, Advances

LEMMA TrySteps ==
    ASSUME IInv, NEW t \in DOMAIN goroutine, TryValue(t)
    PROVE  SearchStep(t)
<1>1. goroutine[t].pc = "choose" /\ TypeOK /\ PathsInv /\ build \in Builds
  BY DEF TryValue, Running, IInv, TypeOK
<1>2. PICK g : g = goroutine[t]
  OBVIOUS
<1>3. Well(g) /\ g.pc = "choose"
  BY <1>1, <1>2, AllWell
<1>4. PICK d : d = g.choice[<<g.row, g.side>>]
  OBVIOUS
<1>5. d \in Nat /\ d <= LastChoice(g)
  <2>1. g \in Goroutines
    BY <1>3 DEF Well
  <2>2. g.row \in Dice /\ g.side \in 0 .. build.sides /\ g.choice \in [Cells -> Nat]
    BY <2>1, FieldsAre
  <2>3. <<g.row, g.side>> \in Cells
    BY <1>1, <2>2, CellsAre
  <2> QED BY <1>2, <1>4, <2>2, <2>3 DEF TryValue
<1>6. PICK h : h = SwapIn(g, d)
  OBVIOUS
<1>7. Well([AddTally(h) EXCEPT !.pc = "enter", !.side = h.side + 1])
  BY <1>1, <1>3, <1>5, <1>6, TryWell
<1>8. Becomes(t, [AddTally(h) EXCEPT !.pc = "enter", !.side = h.side + 1])
  BY <1>2, <1>4, <1>6, Zenon DEF TryValue, Search
<1>9. PICK p : p = [AddTally(h) EXCEPT !.pc = "enter", !.side = h.side + 1]
  OBVIOUS
<1>10. p.pc # "leave"
  <2>1. "pc" \in DOMAIN p
    BY <1>7, <1>9 DEF Well, Goroutines
  <2>2. DOMAIN p = DOMAIN AddTally(h)
    BY <1>9
  <2>3. p.pc = "enter"
    BY <1>9, <2>1, <2>2
  <2> QED BY <2>3
<1> QED BY <1>1, <1>7, <1>8, <1>9, <1>10, Advances

LEMMA ReturnSteps ==
    ASSUME IInv, NEW t \in DOMAIN goroutine, Return(t)
    PROVE  SearchStep(t)
<1>1. /\ goroutine[t].pc \in {"return", "choose"} /\ TypeOK /\ PathsInv /\ build \in Builds
      /\ Becomes(t, Returned(goroutine[t]))
  BY DEF Return, Running, Search, IInv, TypeOK
<1>2. PICK g : g = goroutine[t]
  OBVIOUS
<1>3. Well(g)
  BY <1>1, <1>2, AllWell
<1>4. PICK h : h = Returned(g)
  OBVIOUS
<1>5. Well(h)
  BY <1>1, <1>3, <1>4, ReturnWell
<1>6. h.pc # "leave"
  <2>1. "pc" \in DOMAIN g
    BY <1>3 DEF Well, Goroutines
  <2> QED BY <1>4, <2>1 DEF Returned
<1> QED BY <1>1, <1>2, <1>4, <1>5, <1>6, Advances

LEMMA FinishSteps ==
    ASSUME IInv, NEW t \in DOMAIN goroutine, FinishRow(t)
    PROVE  SearchStep(t)
<1>1. goroutine[t].pc = "enter" /\ TypeOK /\ PathsInv /\ build \in Builds
  BY DEF FinishRow, Running, IInv, TypeOK
<1>2. PICK g : g = goroutine[t]
  OBVIOUS
<1>3. Well(g) /\ g.pc = "enter" /\ g.side = build.sides
  BY <1>1, <1>2, AllWell DEF FinishRow
<1>4. PICK p, q, r : /\ p = [g EXCEPT !.pc = "return"]
                     /\ q = [RestartTally(g) EXCEPT !.row = g.row + 1, !.side = 0]
                     /\ r = [g EXCEPT !.pc = "count", !.kind = "placefair"]
  OBVIOUS
<1>5. Becomes(t, IF ~ RowIsFair(g) THEN p ELSE IF g.row < build.dice - 2 THEN q ELSE r)
  BY <1>2, <1>4, Zenon DEF FinishRow, Search
<1>6. Becomes(t, p) \/ (g.row < build.dice - 2 /\ Becomes(t, q)) \/ Becomes(t, r)
  BY <1>5, Zenon
<1>7. "pc" \in DOMAIN g
  BY <1>3 DEF Well, Goroutines
<1>8. Well(p) /\ p.pc = "return"
  <2>1. PICK pc \in AtWork \ {"choose"} : pc = "return" /\ pc \notin {"count", "print", "classify"}
    BY DEF AtWork
  <2>2. PICK kind \in Kinds \union {"none"} : kind = g.kind
    BY <1>3, FieldsAre DEF Well
  <2>3. Well([g EXCEPT !.pc = pc])
    BY <1>1, <1>3, <2>1, <2>2, MoveWell
  <2> QED BY <1>4, <1>7, <2>1, <2>3
<1>9. g.row < build.dice - 2 => Well(q) /\ q.pc = "enter"
  <2>1. g.row < build.dice - 2 => Well(q)
    BY <1>1, <1>3, <1>4, NextRowWell
  <2>2. q.pc = "enter"
    BY <1>3, <1>4, <1>7 DEF RestartTally
  <2> QED BY <2>1, <2>2
<1>10. Well(r) /\ r.pc = "count"
  <2>1. PICK pc \in AtWork \ {"choose"} : pc = "count"
    BY DEF AtWork
  <2>2. PICK kind \in Kinds \union {"none"} : kind = "placefair" /\ kind \in Kinds
    BY DEF Kinds
  <2>3. Well([g EXCEPT !.pc = pc, !.kind = kind])
    BY <1>1, <1>3, <2>1, <2>2, MoveWell
  <2> QED BY <1>4, <1>7, <2>1, <2>2, <2>3
<1> QED BY <1>1, <1>6, <1>8, <1>9, <1>10, Advances

LEMMA CountSteps ==
    ASSUME IInv, NEW t \in DOMAIN goroutine, CountSet(t)
    PROVE  SearchStep(t) /\ count' \in [Kinds -> Nat]
<1>1. goroutine[t].pc = "count" /\ TypeOK /\ PathsInv /\ build \in Builds
  BY DEF CountSet, Running, IInv, TypeOK
<1>2. PICK g : g = goroutine[t]
  OBVIOUS
<1>3. Well(g) /\ g.pc = "count"
  BY <1>1, <1>2, AllWell
<1>4. PICK kind \in Kinds : kind = g.kind
  BY <1>3, PathNeeds, <1>1 DEF Well
<1>5. count' \in [Kinds -> Nat]
  BY <1>1, <1>2, <1>4 DEF CountSet, TypeOK
<1>6. PICK h : h = [g EXCEPT !.pc = "print"]
  OBVIOUS
<1>7. Well(h)
  <2>1. PICK pc \in AtWork \ {"choose"} : pc = "print"
    BY DEF AtWork
  <2>2. Well([g EXCEPT !.pc = pc])
    BY <1>1, <1>3, <1>4, <2>1, MoveWell
  <2> QED BY <1>6, <2>1, <2>2
<1>8. h.pc = "print"
  BY <1>3, <1>6 DEF Well, Goroutines
<1>9. Becomes(t, h)
  BY <1>2, <1>6, Zenon DEF CountSet
<1> QED BY <1>1, <1>5, <1>7, <1>8, <1>9, Advances

LEMMA PrintSteps ==
    ASSUME IInv, NEW t \in DOMAIN goroutine, PrintSet(t)
    PROVE  SearchStep(t)
<1>1. goroutine[t].pc = "print" /\ TypeOK /\ PathsInv /\ build \in Builds
  BY DEF PrintSet, Running, IInv, TypeOK
<1>2. PICK g : g = goroutine[t]
  OBVIOUS
<1>3. Well(g) /\ g.pc = "print"
  BY <1>1, <1>2, AllWell
<1>4. PICK kind \in Kinds : kind = g.kind
  BY <1>3, PathNeeds, <1>1 DEF Well
<1>5. PICK pc \in AtWork \ {"choose"} :
          /\ pc = IF g.kind = "placefair" THEN "classify" ELSE "return"
          /\ pc # "leave"
  BY DEF AtWork
<1>6. PICK h : h = [g EXCEPT !.pc = pc]
  OBVIOUS
<1>7. Well(h)
  <2>2. Well([g EXCEPT !.pc = pc])
    BY <1>1, <1>3, <1>4, MoveWell
  <2> QED BY <1>6, <2>2
<1>8. h.pc # "leave"
  BY <1>3, <1>5, <1>6 DEF Well, Goroutines
<1>9. Becomes(t, h)
  BY <1>2, <1>5, <1>6, Zenon DEF PrintSet
<1> QED BY <1>1, <1>7, <1>8, <1>9, Advances

LEMMA ClassifySteps ==
    ASSUME IInv, NEW t \in DOMAIN goroutine, ClassifySet(t)
    PROVE  SearchStep(t)
<1>1. goroutine[t].pc = "classify" /\ TypeOK /\ PathsInv /\ build \in Builds
  BY DEF ClassifySet, Running, IInv, TypeOK
<1>2. PICK g : g = goroutine[t]
  OBVIOUS
<1>3. Well(g) /\ g.pc = "classify"
  BY <1>1, <1>2, AllWell
<1>4. PICK p, q, r : /\ p = [g EXCEPT !.pc = "count", !.kind = "permfair"]
                     /\ q = [g EXCEPT !.pc = "count", !.kind = "allsubsetplacefair"]
                     /\ r = [g EXCEPT !.pc = "return"]
  OBVIOUS
<1>5. Becomes(t, IF ispermfair(findperms(Word(g)), build.dice) THEN p
                 ELSE IF isallsubsetplacefair(findperms(Word(g)), build.dice) THEN q ELSE r)
  BY <1>2, <1>4, Zenon DEF ClassifySet, Search
<1>6. Becomes(t, p) \/ Becomes(t, q) \/ Becomes(t, r)
  BY <1>5, Zenon
<1>7. "pc" \in DOMAIN g
  BY <1>3 DEF Well, Goroutines
<1>8. PICK pc \in AtWork \ {"choose"} : pc = "count"
  BY DEF AtWork
<1>9. Well(p) /\ p.pc = "count"
  <2>1. PICK kind \in Kinds \union {"none"} : kind = "permfair" /\ kind \in Kinds
    BY DEF Kinds
  <2>2. Well([g EXCEPT !.pc = pc, !.kind = kind])
    BY <1>1, <1>3, <1>8, <2>1, MoveWell
  <2> QED BY <1>4, <1>7, <1>8, <2>1, <2>2
<1>10. Well(q) /\ q.pc = "count"
  <2>1. PICK kind \in Kinds \union {"none"} : kind = "allsubsetplacefair" /\ kind \in Kinds
    BY DEF Kinds
  <2>2. Well([g EXCEPT !.pc = pc, !.kind = kind])
    BY <1>1, <1>3, <1>8, <2>1, MoveWell
  <2> QED BY <1>4, <1>7, <1>8, <2>1, <2>2
<1>11. Well(r) /\ r.pc = "return"
  <2>1. PICK x \in AtWork \ {"choose"} : x = "return" /\ x \notin {"count", "print", "classify"}
    BY DEF AtWork
  <2>2. PICK kind \in Kinds \union {"none"} : kind = g.kind
    BY <1>3, FieldsAre DEF Well
  <2>3. Well([g EXCEPT !.pc = x])
    BY <1>1, <1>3, <2>1, <2>2, MoveWell
  <2> QED BY <1>4, <1>7, <2>1, <2>3
<1> QED BY <1>1, <1>6, <1>9, <1>10, <1>11, Advances
-----------------------------------------------------------------------------
LEMMA SetsFinite ==
    ASSUME TypeOK
    PROVE  IsFiniteSet(Searching) /\ IsFiniteSet(Present)
<1>1. DOMAIN goroutine = 1 .. Len(goroutine) /\ Len(goroutine) \in Nat
  BY DEF TypeOK
<1>2. IsFiniteSet(DOMAIN goroutine)
  BY <1>1, FS_Interval
<1>3. Searching \in SUBSET DOMAIN goroutine /\ Present \in SUBSET DOMAIN goroutine
  BY DEF Searching, Present
<1> QED BY <1>2, <1>3, FS_Subset

(* A goroutine gives its place back, or leaves the group.                  *)
LEMMA EndKeeps ==
    ASSUME IInv, NEW t \in DOMAIN goroutine, NEW g,
           \/ /\ goroutine[t].pc = "release" /\ g = [goroutine[t] EXCEPT !.pc = "leave"]
              /\ threadwait' = threadwait - 1 /\ waitgroup' = waitgroup
           \/ /\ goroutine[t].pc = "leave" /\ g = Gone
              /\ waitgroup' = waitgroup - 1 /\ threadwait' = threadwait,
           Becomes(t, g), mainPc # "done",
           UNCHANGED <<build, mainPc, threadcount, count>>
    PROVE  IInv'
<1>0. /\ TypeOK /\ CreatedInv /\ CountedInv /\ PathsInv
      /\ build' = build
  BY DEF IInv
<1>1. goroutine \in Seq(Goroutines \union {Gone}) /\ t \in 1 .. Len(goroutine)
  BY <1>0 DEF TypeOK
<1>2. g = Gone \/ (Well(g) /\ g.pc = "leave")
  <2>1. CASE g = [goroutine[t] EXCEPT !.pc = "leave"] /\ goroutine[t].pc = "release"
    <3>1. PICK h : h = goroutine[t]
      OBVIOUS
    <3>2. Well(h)
      BY <1>0, <2>1, <3>1, AllWell
    <3>3. PICK x \in AtWork \ {"choose"} : x = "leave" /\ x \notin {"count", "print", "classify"}
      BY DEF AtWork
    <3>4. PICK kind \in Kinds \union {"none"} : kind = h.kind
      BY <3>2, FieldsAre DEF Well
    <3>5. Well([h EXCEPT !.pc = x])
      BY <1>0, <3>2, <3>3, <3>4, MoveWell DEF TypeOK
    <3>6. "pc" \in DOMAIN h
      BY <3>2 DEF Well, Goroutines
    <3> QED BY <2>1, <3>1, <3>3, <3>5, <3>6
  <2> QED BY <2>1
<1>3. g \in Goroutines \union {Gone}
  BY <1>2 DEF Well
<1>4. PICK s \in Seq(Goroutines \union {Gone}) :
          /\ s = [goroutine EXCEPT ![t] = g]
          /\ Len(s) = Len(goroutine) /\ DOMAIN s = DOMAIN goroutine
          /\ s[t] = g /\ \A u \in DOMAIN goroutine : u # t => s[u] = goroutine[u]
  <2>1. PICK S : S = Goroutines \union {Gone}
    OBVIOUS
  <2>2. goroutine \in Seq(S) /\ g \in S /\ t \in 1 .. Len(goroutine)
    BY <1>1, <1>3, <2>1
  <2>3. [goroutine EXCEPT ![t] = g] \in Seq(S)
    BY <2>2
  <2>4. /\ Len([goroutine EXCEPT ![t] = g]) = Len(goroutine)
        /\ DOMAIN [goroutine EXCEPT ![t] = g] = DOMAIN goroutine
    BY <2>2
  <2> QED BY <2>1, <2>3, <2>4
<1>5. goroutine' = s
  BY <1>4 DEF Becomes
<1>6. PathsInv'
  <2>1. \A u \in DOMAIN s : s[u] = Gone \/ Well(s[u])
    BY <1>0, <1>2, <1>4, AllWell
  <2> QED BY <1>0, <1>4, <1>5, <2>1, PathsKept
<1>7. CreatedInv'
  <2>1. JobCount(build)' = JobCount(build)
    BY <1>0
  <2> QED BY <1>0, <1>4, <1>5, <2>1 DEF CreatedInv
<1>8. Gone.pc = "gone"
  BY DEF Gone
<1>9. IsFiniteSet(Searching) /\ IsFiniteSet(Present)
  BY <1>0, SetsFinite
<1>10. threadwait = Cardinality(Searching) /\ waitgroup = Cardinality(Present)
       /\ threadwait <= build.threads /\ threadwait \in Nat /\ waitgroup \in Nat
       /\ build.threads \in Nat /\ build \in Builds
  BY <1>0, BuildTyped DEF CountedInv, TypeOK
<1>11. CASE /\ goroutine[t].pc = "release" /\ g = [goroutine[t] EXCEPT !.pc = "leave"]
            /\ threadwait' = threadwait - 1 /\ waitgroup' = waitgroup
  <2>1. g.pc = "leave"
    <3>1. Well(goroutine[t])
      BY <1>0, <1>11, AllWell
    <3> QED BY <1>11, <3>1 DEF Well, Goroutines
  <2>2. {u \in DOMAIN s : s[u].pc \notin {"leave", "gone"}} = Searching \ {t}
    BY <1>4, <1>11, <2>1 DEF Searching
  <2>3. {u \in DOMAIN s : s[u].pc # "gone"} = Present
    BY <1>4, <1>11, <2>1 DEF Present
  <2>4. Searching' = Searching \ {t} /\ Present' = Present
    BY <1>5, <2>2, <2>3 DEF Searching, Present
  <2>5. t \in Searching
    BY <1>11 DEF Searching
  <2>6. PICK T : T = Searching
    OBVIOUS
  <2>7. Cardinality(T \ {t}) = Cardinality(T) - 1 /\ Cardinality(T) \in Nat
        /\ Cardinality(T) # 0
    BY <1>9, <2>5, <2>6, FS_RemoveElement, FS_CardinalityType, FS_EmptySet
  <2>8. CountedInv' /\ threadwait' \in Nat /\ waitgroup' \in Nat
    BY <1>0, <1>10, <1>11, <2>4, <2>6, <2>7 DEF CountedInv
  <2>9. TypeOK'
    <3>1. Goroutines' = Goroutines
      BY <1>0, SameSets
    <3> QED BY <1>0, <1>5, <2>8, <3>1 DEF TypeOK, Gone
  <2> QED BY <1>6, <1>7, <2>8, <2>9 DEF IInv
<1>12. CASE /\ goroutine[t].pc = "leave" /\ g = Gone
            /\ waitgroup' = waitgroup - 1 /\ threadwait' = threadwait
  <2>2. {u \in DOMAIN s : s[u].pc \notin {"leave", "gone"}} = Searching
    BY <1>4, <1>8, <1>12 DEF Searching
  <2>3. {u \in DOMAIN s : s[u].pc # "gone"} = Present \ {t}
    BY <1>4, <1>8, <1>12 DEF Present
  <2>4. Searching' = Searching /\ Present' = Present \ {t}
    BY <1>5, <2>2, <2>3 DEF Searching, Present
  <2>5. t \in Present
    BY <1>12 DEF Present
  <2>6. PICK T : T = Present
    OBVIOUS
  <2>7. Cardinality(T \ {t}) = Cardinality(T) - 1 /\ Cardinality(T) \in Nat
        /\ Cardinality(T) # 0
    BY <1>9, <2>5, <2>6, FS_RemoveElement, FS_CardinalityType, FS_EmptySet
  <2>8. CountedInv' /\ threadwait' \in Nat /\ waitgroup' \in Nat
    BY <1>0, <1>10, <1>12, <2>4, <2>6, <2>7 DEF CountedInv
  <2>9. TypeOK'
    <3>1. Goroutines' = Goroutines
      BY <1>0, SameSets
    <3> QED BY <1>0, <1>5, <2>8, <3>1 DEF TypeOK, Gone
  <2> QED BY <1>6, <1>7, <2>8, <2>9 DEF IInv
<1> QED BY <1>11, <1>12

LEMMA SpawnKeeps == ASSUME IInv, SpawnGoroutine PROVE IInv'
<1>0. /\ TypeOK /\ CreatedInv /\ CountedInv /\ PathsInv
      /\ build' = build /\ build \in Builds
      /\ mainPc = "permute" /\ threadcount <= JobCount(build) /\ threadwait < build.threads
      /\ threadwait' = threadwait + 1 /\ waitgroup' = waitgroup + 1
      /\ threadcount' = threadcount + 1 /\ mainPc' = mainPc /\ count' = count
  BY DEF IInv, SpawnGoroutine, AddWaiter, TypeOK
<1>1. threadcount \in Nat /\ threadcount = Len(goroutine) + 1 /\ threadcount - 1 \in Nat
      /\ JobCount(build) \in Nat /\ Len(goroutine) \in Nat
  BY <1>0, JobsOf DEF TypeOK, CreatedInv
<1>2. PICK g : g = Started(threadcount - 1)
  OBVIOUS
<1>3. Well(g) /\ g.pc = "enter" /\ g \in Goroutines
  <2>1. g.pc = "enter"
    BY <1>2 DEF Started
  <2>2. Well(g)
    BY <1>0, <1>1, <1>2, StartedWell
  <2> QED BY <2>1, <2>2 DEF Well
<1>4. PICK s \in Seq(Goroutines \union {Gone}) :
          /\ s = Append(goroutine, g)
          /\ Len(s) = Len(goroutine) + 1 /\ DOMAIN s = (DOMAIN goroutine) \union {threadcount}
          /\ threadcount \notin DOMAIN goroutine
          /\ s[threadcount] = g /\ \A u \in DOMAIN goroutine : s[u] = goroutine[u]
  <2>1. PICK S : S = Goroutines \union {Gone}
    OBVIOUS
  <2>2. goroutine \in Seq(S) /\ g \in S
    BY <1>0, <1>3, <2>1 DEF TypeOK
  <2>3. /\ Append(goroutine, g) \in Seq(S)
        /\ Len(Append(goroutine, g)) = Len(goroutine) + 1
        /\ Append(goroutine, g)[Len(goroutine) + 1] = g
        /\ \A u \in 1 .. Len(goroutine) : Append(goroutine, g)[u] = goroutine[u]
    BY <2>2
  <2>4. DOMAIN goroutine = 1 .. Len(goroutine)
        /\ DOMAIN Append(goroutine, g) = 1 .. Len(goroutine) + 1
    BY <2>2, <2>3
  <2>5. 1 .. Len(goroutine) + 1 = (1 .. Len(goroutine)) \union {threadcount}
        /\ threadcount \notin 1 .. Len(goroutine)
    BY <1>1
  <2> QED BY <1>1, <2>1, <2>3, <2>4, <2>5
<1>5. goroutine' = s
  BY <1>2, <1>4 DEF SpawnGoroutine
<1>6. PathsInv'
  <2>1. \A u \in DOMAIN s : s[u] = Gone \/ Well(s[u])
    BY <1>0, <1>3, <1>4, AllWell
  <2> QED BY <1>0, <1>4, <1>5, <2>1, PathsKept
<1>7. CreatedInv'
  <2>1. JobCount(build)' = JobCount(build)
    BY <1>0
  <2> QED BY <1>0, <1>1, <1>4, <1>5, <2>1 DEF CreatedInv
<1>9. IsFiniteSet(Searching) /\ IsFiniteSet(Present)
  BY <1>0, SetsFinite
<1>10. threadwait = Cardinality(Searching) /\ waitgroup = Cardinality(Present)
       /\ threadwait \in Nat /\ waitgroup \in Nat /\ build.threads \in Nat
  BY <1>0, BuildTyped DEF CountedInv, TypeOK
<1>11. Searching' = Searching \union {threadcount} /\ Present' = Present \union {threadcount}
  <2>1. {u \in DOMAIN s : s[u].pc \notin {"leave", "gone"}} = Searching \union {threadcount}
    BY <1>3, <1>4 DEF Searching
  <2>2. {u \in DOMAIN s : s[u].pc # "gone"} = Present \union {threadcount}
    BY <1>3, <1>4 DEF Present
  <2> QED BY <1>5, <2>1, <2>2 DEF Searching, Present
<1>12. threadcount \notin Searching /\ threadcount \notin Present
  BY <1>4 DEF Searching, Present
<1>13. PICK T, P : T = Searching /\ P = Present
  OBVIOUS
<1>14. Cardinality(T \union {threadcount}) = Cardinality(T) + 1
       /\ Cardinality(P \union {threadcount}) = Cardinality(P) + 1
  BY <1>9, <1>12, <1>13, FS_AddElement
<1>15. CountedInv' /\ threadwait' \in Nat /\ waitgroup' \in Nat
  BY <1>0, <1>10, <1>11, <1>13, <1>14 DEF CountedInv
<1>16. TypeOK'
  <2>1. Goroutines' = Goroutines
    BY <1>0, SameSets
  <2> QED BY <1>0, <1>1, <1>5, <1>15, <2>1 DEF TypeOK, Gone
<1> QED BY <1>6, <1>7, <1>15, <1>16 DEF IInv

-----------------------------------------------------------------------------
(* The theorems. *)
LEMMA InitKeeps == Init => IInv
<1> SUFFICES ASSUME Init PROVE IInv
  OBVIOUS
<1>1. build \in Builds /\ goroutine = <<>> /\ Len(goroutine) = 0 /\ DOMAIN goroutine = {}
  BY DEF Init
<1>2. PICK s : s = Goroutines \union {Gone}
  OBVIOUS
<1>3. goroutine \in Seq(s)
  BY <1>1
<1>4. TypeOK
  BY <1>1, <1>2, <1>3 DEF Init, TypeOK
<1>5. JobCount(build) \in Nat \ {0}
  BY <1>1, JobsOf
<1>6. CreatedInv
  BY <1>1, <1>5 DEF Init, CreatedInv
<1>7. Searching = {} /\ Present = {}
  BY <1>1 DEF Searching, Present
<1>8. Cardinality({}) = 0
  BY FS_EmptySet
<1>9. CountedInv
  BY <1>1, <1>7, <1>8, BuildTyped DEF Init, CountedInv
<1>10. PathsInv
  BY <1>1 DEF PathsInv
<1> QED BY <1>4, <1>6, <1>9, <1>10 DEF IInv

LEMMA WaitKeeps == ASSUME IInv, WaitForAll PROVE IInv'
<1>0. /\ TypeOK /\ CreatedInv /\ CountedInv /\ PathsInv
      /\ build' = build /\ goroutine' = goroutine /\ threadcount' = threadcount
      /\ threadwait' = threadwait /\ waitgroup' = waitgroup /\ count' = count
      /\ mainPc' = "done" /\ threadcount > JobCount(build) /\ waitgroup = 0
  BY DEF IInv, WaitForAll
<1>1. JobCount(build) \in Nat /\ threadcount \in Nat /\ JobCount(build)' = JobCount(build)
  BY <1>0, JobsOf DEF TypeOK
<1>2. CreatedInv'
  BY <1>0, <1>1 DEF CreatedInv
<1>3. Searching' = Searching /\ Present' = Present
  BY <1>0 DEF Searching, Present
<1>4. CountedInv'
  BY <1>0, <1>3 DEF CountedInv
<1>5. Goroutines' = Goroutines
  BY <1>0, SameSets
<1>6. TypeOK'
  BY <1>0, <1>5 DEF TypeOK, Gone
<1>7. PathsInv'
  <2>1. PICK s : s = goroutine
    OBVIOUS
  <2>2. s \in Seq(Goroutines \union {Gone}) /\ \A u \in DOMAIN s : s[u] = Gone \/ Well(s[u])
    BY <1>0, <2>1, AllWell DEF TypeOK
  <2> QED BY <1>0, <2>1, <2>2, PathsKept
<1> QED BY <1>2, <1>4, <1>6, <1>7 DEF IInv

LEMMA StutterKeeps == ASSUME IInv, UNCHANGED vars PROVE IInv'
<1>0. /\ TypeOK /\ CreatedInv /\ CountedInv /\ PathsInv
      /\ build' = build /\ goroutine' = goroutine /\ threadcount' = threadcount
      /\ threadwait' = threadwait /\ waitgroup' = waitgroup /\ count' = count
      /\ mainPc' = mainPc
  BY DEF IInv, vars
<1>1. CreatedInv'
  BY <1>0 DEF CreatedInv
<1>3. Searching' = Searching /\ Present' = Present
  BY <1>0 DEF Searching, Present
<1>4. CountedInv'
  BY <1>0, <1>3 DEF CountedInv
<1>5. Goroutines' = Goroutines
  BY <1>0, SameSets
<1>6. TypeOK'
  BY <1>0, <1>5 DEF TypeOK, Gone
<1>7. PathsInv'
  <2>1. PICK s : s = goroutine
    OBVIOUS
  <2>2. s \in Seq(Goroutines \union {Gone}) /\ \A u \in DOMAIN s : s[u] = Gone \/ Well(s[u])
    BY <1>0, <2>1, AllWell DEF TypeOK
  <2> QED BY <1>0, <2>1, <2>2, PathsKept
<1> QED BY <1>1, <1>4, <1>6, <1>7 DEF IInv

LEMMA WorkerKeeps ==
    ASSUME IInv, NEW t \in DOMAIN goroutine, Worker(t)
    PROVE  IInv'
<1>0. count \in [Kinds -> Nat]
  BY DEF IInv, TypeOK
<1>1. CASE EnterNode(t)
  <2>1. /\ UNCHANGED <<build, mainPc, threadcount, threadwait, waitgroup>>
        /\ count' = count
    BY <1>1 DEF EnterNode, Search
  <2> QED BY <1>0, <1>1, <2>1, EnterSteps, SearchKeeps
<1>2. CASE TryValue(t)
  <2>1. /\ UNCHANGED <<build, mainPc, threadcount, threadwait, waitgroup>>
        /\ count' = count
    BY <1>2 DEF TryValue, Search
  <2> QED BY <1>0, <1>2, <2>1, TrySteps, SearchKeeps
<1>3. CASE Return(t)
  <2>1. /\ UNCHANGED <<build, mainPc, threadcount, threadwait, waitgroup>>
        /\ count' = count
    BY <1>3 DEF Return, Search
  <2> QED BY <1>0, <1>3, <2>1, ReturnSteps, SearchKeeps
<1>4. CASE FinishRow(t)
  <2>1. /\ UNCHANGED <<build, mainPc, threadcount, threadwait, waitgroup>>
        /\ count' = count
    BY <1>4 DEF FinishRow, Search
  <2> QED BY <1>0, <1>4, <2>1, FinishSteps, SearchKeeps
<1>5. CASE CountSet(t)
  <2>1. UNCHANGED <<build, mainPc, threadcount, threadwait, waitgroup>>
    BY <1>5 DEF CountSet
  <2> QED BY <1>5, <2>1, CountSteps, SearchKeeps
<1>6. CASE PrintSet(t)
  <2>1. /\ UNCHANGED <<build, mainPc, threadcount, threadwait, waitgroup>>
        /\ count' = count
    BY <1>6 DEF PrintSet
  <2> QED BY <1>0, <1>6, <2>1, PrintSteps, SearchKeeps
<1>7. CASE ClassifySet(t)
  <2>1. /\ UNCHANGED <<build, mainPc, threadcount, threadwait, waitgroup>>
        /\ count' = count
    BY <1>7 DEF ClassifySet, Search
  <2> QED BY <1>0, <1>7, <2>1, ClassifySteps, SearchKeeps
<1>8. CASE ReleasePlace(t)
  <2>1. PICK g : g = [goroutine[t] EXCEPT !.pc = "leave"]
    OBVIOUS
  <2>2. /\ goroutine[t].pc = "release" /\ threadwait' = threadwait - 1 /\ waitgroup' = waitgroup
        /\ Becomes(t, g) /\ mainPc # "done"
        /\ UNCHANGED <<build, mainPc, threadcount, count>>
    BY <1>8, <2>1 DEF ReleasePlace, Release, Running
  <2> QED BY <2>1, <2>2, EndKeeps
<1>9. CASE LeaveGroup(t)
  <2>1. PICK g : g = Gone
    OBVIOUS
  <2>2. /\ goroutine[t].pc = "leave" /\ waitgroup' = waitgroup - 1 /\ threadwait' = threadwait
        /\ Becomes(t, g) /\ mainPc # "done"
        /\ UNCHANGED <<build, mainPc, threadcount, count>>
    BY <1>9, <2>1 DEF LeaveGroup, Running
  <2> QED BY <2>1, <2>2, EndKeeps
<1> QED BY <1>1, <1>2, <1>3, <1>4, <1>5, <1>6, <1>7, <1>8, <1>9 DEF Worker

(* What a goroutine may still read has been written, and the channel and   *)
(* the wait group count the goroutines: this holds in every state.         *)
THEOREM Invariance == Spec => []IInv
<1>1. Init => IInv
  BY InitKeeps
<1>2. IInv /\ [Next]_vars => IInv'
  <2> SUFFICES ASSUME IInv, [Next]_vars PROVE IInv'
    OBVIOUS
  <2>1. CASE SpawnGoroutine
    BY <2>1, SpawnKeeps
  <2>2. CASE WaitForAll
    BY <2>2, WaitKeeps
  <2>3. CASE \E t \in DOMAIN goroutine : Worker(t)
    BY <2>3, WorkerKeeps
  <2>4. CASE UNCHANGED vars
    BY <2>4, StutterKeeps
  <2> QED BY <2>1, <2>2, <2>3, <2>4 DEF Next, Ended
<1> QED BY <1>1, <1>2, PTL DEF Spec

(* Dice sets, tallies and bounds keep their types, whatever goroutines of  *)
(* whatever build do.                                                      *)
THEOREM TypeCorrect == Spec => []TypeOK
<1>1. IInv => TypeOK
  BY DEF IInv
<1> QED BY <1>1, Invariance, PTL

LEMMA PlacesHold == IInv => PlacesAreHeld
<1> SUFFICES ASSUME IInv PROVE PlacesAreHeld
  OBVIOUS
<1>1. TypeOK /\ CreatedInv /\ CountedInv /\ PathsInv
  BY DEF IInv
<1>2. ASSUME mainPc = "done"
      PROVE  goroutine = [n \in 1 .. JobCount(build) |-> Gone]
  <2>1. waitgroup = 0 /\ waitgroup = Cardinality(Present)
    BY <1>1, <1>2 DEF CountedInv
  <2>2. PICK P : P = Present
    OBVIOUS
  <2>3. P = {}
    BY <1>1, <2>1, <2>2, SetsFinite, FS_EmptySet
  <2>4. \A t \in DOMAIN goroutine : goroutine[t] = Gone
    BY <1>1, <2>2, <2>3, AllWell DEF Present
  <2>5. Len(goroutine) = JobCount(build)
    <3>1. JobCount(build) \in Nat /\ Len(goroutine) \in Nat
      BY <1>1, JobsOf DEF TypeOK
    <3> QED BY <1>1, <1>2, <3>1 DEF CreatedInv
  <2>6. goroutine \in Seq(Goroutines \union {Gone})
    BY <1>1 DEF TypeOK
  <2>7. /\ DOMAIN goroutine = 1 .. JobCount(build)
        /\ goroutine = [n \in DOMAIN goroutine |-> goroutine[n]]
    BY <2>5, <2>6
  <2> QED BY <2>4, <2>7
<1> QED BY <1>1, <1>2 DEF CountedInv, Searching, Present, PlacesAreHeld

(* For every build and number of goroutines: the channel never holds more  *)
(* than it has places for, the wait group counts those that have not left, *)
(* and main ends behind the last of all the jobs.                          *)
THEOREM PlacesHeld == Spec => []PlacesAreHeld
  BY PlacesHold, Invariance, PTL

LEMMA BoundsHold == IInv => IndexInBounds
<1> SUFFICES ASSUME IInv, NEW t \in DOMAIN goroutine,
                    Running(t, "enter"), goroutine[t].side < build.sides,
                    NEW h, h = WithBounds(goroutine[t]),
                    NEW p \in Dice, Bounded(h, p)
             PROVE  Curtally(h)[p] < PathSize(build)
  BY DEF IndexInBounds
<1>1. TypeOK /\ PathsInv /\ build \in Builds /\ goroutine[t].pc = "enter"
  BY DEF IInv, TypeOK, Running
<1>2. PICK g : g = goroutine[t]
  OBVIOUS
<1>3. Well(g) /\ g.side < build.sides /\ h = WithBounds(g)
  BY <1>1, <1>2, AllWell
<1>4. PICK left \in [Dice -> Bounds \union {<<>>}] :
          /\ h = Made(g.pc, g.row, g.side, g.kind, g.choice, g.dsetcache, g.curtallycache, left)
          /\ left[g.row] \in Bounds
  BY <1>1, <1>3, BoundsOf
<1>5. h.row = g.row /\ h.side = g.side /\ h.curtallycache = g.curtallycache /\ h.left = left
  BY <1>4, MadeFields
<1>6. g.row \in Dice /\ g.side \in 0 .. build.sides /\ g.curtallycache \in [Cells -> [Dice -> Nat]]
  BY <1>3, FieldsAre DEF Well
<1>7. PICK c \in Nat : c = Curtally(h)[p]
  <2>1. TallyCell(g.row, g.side) \in Cells
    BY <1>1, <1>6, CellsAre
  <2> QED BY <1>5, <1>6, <2>1 DEF Curtally
<1>8. PICK least \in Nat : least = h.left[h.row][p][h.side + 1].min
  <2>1. g.side + 1 \in 1 .. build.sides
    BY <1>1, <1>3, <1>6, BuildTyped
  <2>2. left[g.row][p][g.side + 1] \in [min : Nat, max : Nat]
    BY <1>4, <2>1 DEF Bounds
  <2> QED BY <1>5, <2>2
<1>9. PICK goal \in Nat : goal = TallyGoal(build)
  BY <1>1, GoalOf
<1>10. ~ (c + least > goal)
  BY <1>7, <1>8, <1>9 DEF Bounded, Overrun
<1>11. c <= goal
  BY <1>10
<1>12. PathSize(build) = goal + 1
  BY <1>9 DEF PathSize, TallyGoal
<1> QED BY <1>7, <1>11, <1>12

(* For every build: a running tally that is looked up in the table of      *)
(* paths lies within the table.                                            *)
THEOREM IndicesHold == Spec => []IndexInBounds
  BY BoundsHold, Invariance, PTL
=============================================================================
