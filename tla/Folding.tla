------------------------------ MODULE Folding -------------------------------
(***************************************************************************)
(* Induction along a fold.  The library's theorems of induction take the   *)
(* operator they are about as a parameter, which a proof cannot give them; *)
(* here the operators are constants of a module, which an INSTANCE gives.  *)
(* What else an operator depends on is passed through its parameter c, and *)
(* what an invariant depends on through k.                                 *)
(***************************************************************************)
EXTENDS Integers, FiniteSets, Folds, FiniteSetTheorems, WellFoundedInduction, TLAPS

CONSTANTS
    Op(_, _, _),        \* Op(c, x, acc): x is taken in
    Map(_, _),          \* Map(c, e): what e stands for
    Choose(_),          \* the element that is taken in last
    Values,             \* a set that holds every result, if there is one
    Inv(_, _, _)        \* Inv(k, S, acc): what holds of the fold over S

Fold(c, base, S) ==
    MapThenFoldSet(LAMBDA x, y : Op(c, x, y), base, LAMBDA x : Map(c, x), LAMBDA T : Choose(T), S)

Chooses(S) == \A T \in SUBSET S : T # {} => Choose(T) \in T

(* Choices among numbers. *)
LEMMA LessWellFounded == IsWellFoundedOn({ss \in Nat \X Nat : ss[1] < ss[2]}, Nat)
  BY NatLessThanWellFounded, Zenon DEF OpToRel

LEMMA LeastNatural ==
    ASSUME NEW T \in SUBSET Nat, T # {}
    PROVE  \E x \in T : \A y \in T : x <= y
<1> DEFINE R == {ss \in Nat \X Nat : ss[1] < ss[2]}
<1>1. IsWellFoundedOn(R, Nat)
  BY LessWellFounded
<1> HIDE DEF R
<1>2. PICK x \in T : \A y \in T : ~ (<<y, x>> \in R)
  BY <1>1, WFMin
<1>3. x \in Nat /\ \A y \in T : y \in Nat
  OBVIOUS
<1>4. \A y \in T : y < x => <<y, x>> \in R
  BY <1>3 DEF R
<1>5. \A y \in T : ~ (y < x)
  BY <1>2, <1>4
<1>6. \A y \in T : x <= y
  BY <1>3, <1>5
<1> QED BY <1>6

-----------------------------------------------------------------------------
(* The fold of a finite set is defined. *)

Small(S, n) == {T \in SUBSET S : Cardinality(T) <= n}
Fill(c, base, S, D, h) ==
    h = [T \in D |-> IF T = {} THEN base ELSE Op(c, Map(c, Choose(T)), h[T \ {Choose(T)}])]

LEMMA SmallerBy1 ==
    ASSUME NEW S, IsFiniteSet(S), Chooses(S), NEW T \in SUBSET S, T # {}
    PROVE  /\ T \ {Choose(T)} \in SUBSET S
           /\ Cardinality(T) \in Nat /\ Cardinality(T) > 0
           /\ Cardinality(T \ {Choose(T)}) = Cardinality(T) - 1
<1>1. IsFiniteSet(T)
  BY FS_Subset
<1>2. Choose(T) \in T
  BY DEF Chooses
<1>3. Cardinality(T) \in Nat /\ Cardinality(T) # 0
  BY <1>1, FS_CardinalityType, FS_EmptySet
<1>4. Cardinality(T \ {Choose(T)}) = Cardinality(T) - 1
  BY <1>1, <1>2, FS_RemoveElement
<1> QED BY <1>3, <1>4

(* The function that the fold is defined by exists.                        *)
LEMMA FillStep ==
    ASSUME NEW c, NEW base, NEW S, IsFiniteSet(S), Chooses(S), NEW n \in Nat,
           NEW h, Fill(c, base, S, Small(S, n), h)
    PROVE  \E g : Fill(c, base, S, Small(S, n + 1), g)
<1> DEFINE E(T) == IF T = {} THEN base ELSE Op(c, Map(c, Choose(T)), h[T \ {Choose(T)}])
           g == [T \in Small(S, n + 1) |-> E(T)]
<1>1. \A T \in Small(S, n + 1) : T # {} => T \ {Choose(T)} \in Small(S, n)
  <2> SUFFICES ASSUME NEW T \in Small(S, n + 1), T # {} PROVE T \ {Choose(T)} \in Small(S, n)
    OBVIOUS
  <2>1. T \in SUBSET S /\ Cardinality(T) <= n + 1
    BY DEF Small
  <2>2. /\ T \ {Choose(T)} \in SUBSET S
        /\ Cardinality(T) \in Nat
        /\ Cardinality(T \ {Choose(T)}) = Cardinality(T) - 1
    BY <2>1, SmallerBy1
  <2> QED BY <2>1, <2>2 DEF Small
<1>2. Small(S, n) \subseteq Small(S, n + 1)
  <2> SUFFICES ASSUME NEW T \in Small(S, n) PROVE T \in Small(S, n + 1)
    OBVIOUS
  <2>1. T \in SUBSET S /\ Cardinality(T) <= n
    BY DEF Small
  <2>2. Cardinality(T) \in Nat
    BY <2>1, FS_Subset, FS_CardinalityType
  <2> QED BY <2>1, <2>2 DEF Small
<1>3. \A T \in Small(S, n) : h[T] = E(T)
  BY Zenon DEF Fill
<1>4. \A T \in Small(S, n) : g[T] = h[T]
  BY <1>2, <1>3, Zenon
<1> DEFINE G(T) == IF T = {} THEN base ELSE Op(c, Map(c, Choose(T)), g[T \ {Choose(T)}])
<1>5. \A T \in Small(S, n + 1) : E(T) = G(T)
  <2> HIDE DEF g
  <2> QED BY <1>1, <1>4, Zenon
<1>6. g = [T \in Small(S, n + 1) |-> G(T)]
  <2> HIDE DEF G, E
  <2> QED BY <1>5, Zenon
<1>7. Fill(c, base, S, Small(S, n + 1), g)
  BY <1>6, Zenon DEF Fill
<1> QED BY <1>7, Zenon

LEMMA FillAll ==
    ASSUME NEW c, NEW base, NEW S, IsFiniteSet(S), Chooses(S)
    PROVE  \A n \in Nat : \E g : Fill(c, base, S, Small(S, n), g)
<1> DEFINE Q(n) == \E g : Fill(c, base, S, Small(S, n), g)
<1>1. Q(0)
  <2>1. Small(S, 0) = {{}}
    <3>1. \A T \in SUBSET S : Cardinality(T) \in Nat /\ (Cardinality(T) = 0 <=> T = {})
      BY FS_Subset, FS_CardinalityType, FS_EmptySet
    <3> QED BY <3>1 DEF Small
  <2> DEFINE g == [T \in {{}} |-> base]
  <2>2. g = [T \in {{}} |-> IF T = {} THEN base ELSE Op(c, Map(c, Choose(T)), g[T \ {Choose(T)}])]
    BY Zenon
  <2>3. Fill(c, base, S, Small(S, 0), g)
    BY <2>1, <2>2, Zenon DEF Fill
  <2> QED BY <2>3, Zenon
<1>2. \A n \in Nat : Q(n) => Q(n + 1)
  BY FillStep, Zenon
<1> HIDE DEF Q
<1> DEFINE Fails == {n \in Nat : ~ Q(n)}
<1>3. Fails = {}
  <2> SUFFICES ASSUME Fails # {} PROVE FALSE
    OBVIOUS
  <2>1. Fails \in SUBSET Nat
    OBVIOUS
  <2> HIDE DEF Fails
  <2>2. PICK n \in Fails : \A m \in Fails : n <= m
    BY <2>1, LeastNatural
  <2> USE DEF Fails
  <2>3. n \in Nat /\ ~ Q(n)
    OBVIOUS
  <2>4. n # 0
    BY <2>3, <1>1
  <2>5. PICK m \in Nat : n = m + 1
    <3>1. n - 1 \in Nat /\ n = (n - 1) + 1
      BY <2>3, <2>4
    <3> QED BY <3>1
  <2>6. ~ (n <= m)
    BY <2>5, <2>3
  <2>7. Q(m)
    BY <2>2, <2>6, <2>5
  <2> QED BY <2>7, <1>2, <2>5, <2>3
<1> QED BY <1>3 DEF Q

LEMMA FewestElements ==
    ASSUME NEW S, IsFiniteSet(S), NEW X \in SUBSET (SUBSET S), X # {}
    PROVE  \E T \in X : /\ Cardinality(T) \in Nat
                        /\ \A U \in X : Cardinality(U) \in Nat /\ Cardinality(T) <= Cardinality(U)
<1> DEFINE N == {Cardinality(T) : T \in X}
<1>1. \A T \in X : Cardinality(T) \in Nat
  BY FS_Subset, FS_CardinalityType
<1>2. N \in SUBSET Nat /\ N # {}
  BY <1>1
<1>3. PICK n \in N : \A m \in N : n <= m
  BY <1>2, LeastNatural
<1>4. PICK T \in X : n = Cardinality(T)
  BY <1>3
<1> QED BY <1>1, <1>3, <1>4

(* The function the operator stands for. *)
Filled(c, base, S) == CHOOSE g : Fill(c, base, S, SUBSET S, g)

LEMMA FilledIs ==
    ASSUME NEW c, NEW base, NEW S, IsFiniteSet(S), Chooses(S)
    PROVE  /\ Fill(c, base, S, SUBSET S, Filled(c, base, S))
           /\ Fold(c, base, S) = Filled(c, base, S)[S]
<1>1. Small(S, Cardinality(S)) = SUBSET S
  <2>1. \A T \in SUBSET S : Cardinality(T) <= Cardinality(S)
    BY FS_Subset
  <2> QED BY <2>1 DEF Small
<1>2. Cardinality(S) \in Nat
  BY FS_CardinalityType
<1>3. PICK g : Fill(c, base, S, Small(S, Cardinality(S)), g)
  BY <1>2, FillAll
<1>4. Fill(c, base, S, SUBSET S, g)
  BY <1>1, <1>3
<1>5. Fill(c, base, S, SUBSET S, Filled(c, base, S))
  BY <1>4, Zenon DEF Filled
<1>6. Fold(c, base, S) = Filled(c, base, S)[S]
  BY Zenon DEF Fold, Filled, Fill, MapThenFoldSet
<1> QED BY <1>5, <1>6

LEMMA FilledAt ==
    ASSUME NEW c, NEW base, NEW S, NEW g, Fill(c, base, S, SUBSET S, g), NEW T \in SUBSET S
    PROVE  /\ T = {} => g[T] = base
           /\ T # {} => g[T] = Op(c, Map(c, Choose(T)), g[T \ {Choose(T)}])
  BY Zenon DEF Fill

-----------------------------------------------------------------------------
(* What holds of the base and is kept as an element is taken in holds of   *)
(* the fold.                                                               *)
THEOREM FoldInvariant ==
    ASSUME NEW c, NEW k, NEW base, NEW S, IsFiniteSet(S), Chooses(S),
           Inv(k, {}, base),
           \A T \in SUBSET S : \A acc :
               T # {} /\ Inv(k, T \ {Choose(T)}, acc) => Inv(k, T, Op(c, Map(c, Choose(T)), acc))
    PROVE  Inv(k, S, Fold(c, base, S))
<1>0. PICK g : g = Filled(c, base, S)
  BY Zenon
<1>1. Fill(c, base, S, SUBSET S, g) /\ Fold(c, base, S) = g[S]
  BY <1>0, FilledIs
<1> DEFINE Fails == {T \in SUBSET S : ~ Inv(k, T, g[T])}
<1>2. Fails = {}
  <2> SUFFICES ASSUME Fails # {} PROVE FALSE
    OBVIOUS
  <2>1. Fails \in SUBSET (SUBSET S)
    OBVIOUS
  <2>2. PICK T \in Fails : /\ Cardinality(T) \in Nat
                           /\ \A U \in Fails : /\ Cardinality(U) \in Nat
                                               /\ Cardinality(T) <= Cardinality(U)
    <3> HIDE DEF Fails
    <3> QED BY <2>1, FewestElements
  <2>3. T \in SUBSET S /\ ~ Inv(k, T, g[T])
    OBVIOUS
  <2>4. /\ T = {} => g[T] = base
        /\ T # {} => g[T] = Op(c, Map(c, Choose(T)), g[T \ {Choose(T)}])
    <3>1. T \in SUBSET S /\ Fill(c, base, S, SUBSET S, g)
      BY <1>1, <2>3
    <3> QED BY ONLY <3>1, Zenon DEF Fill
  <2>5. T # {}
    BY <2>3, <2>4, Zenon
  <2>6. /\ T \ {Choose(T)} \in SUBSET S
        /\ Cardinality(T \ {Choose(T)}) = Cardinality(T) - 1
    BY <2>3, <2>5, SmallerBy1
  <2>7. T \ {Choose(T)} \notin Fails
    BY <2>2, <2>6
  <2>8. Inv(k, T \ {Choose(T)}, g[T \ {Choose(T)}])
    BY <2>6, <2>7
  <2>9. Inv(k, T, Op(c, Map(c, Choose(T)), g[T \ {Choose(T)}]))
    BY <2>3, <2>5, <2>8, Zenon
  <2> QED BY <2>3, <2>4, <2>5, <2>9, Zenon
<1>3. Inv(k, S, g[S])
  BY <1>2
<1> QED BY <1>1, <1>3, Zenon

(* The equation that defines the fold.                                     *)
THEOREM FoldEquation ==
    ASSUME NEW c, NEW base, NEW S, IsFiniteSet(S), Chooses(S)
    PROVE  /\ S = {} => Fold(c, base, S) = base
           /\ S # {} => Fold(c, base, S)
                            = Op(c, Map(c, Choose(S)), Fold(c, base, S \ {Choose(S)}))
<1>0. PICK g : g = Filled(c, base, S)
  BY Zenon
<1>1. Fill(c, base, S, SUBSET S, g) /\ Fold(c, base, S) = g[S]
  BY <1>0, FilledIs
<1>2. CASE S = {}
  <2>0. S \in SUBSET S
    OBVIOUS
  <2>1. g[S] = base
    BY <1>1, <1>2, <2>0, Zenon DEF Fill
  <2> QED BY <1>1, <1>2, <2>1
<1>3. CASE S # {}
  <2> DEFINE R == S \ {Choose(S)}
  <2>0. R \in SUBSET S /\ IsFiniteSet(R) /\ Chooses(R)
    BY FS_Subset, Zenon DEF Chooses
  <2> HIDE DEF R
  <2>1. PICK h : h = Filled(c, base, R)
    BY Zenon
  <2>2. Fill(c, base, R, SUBSET R, h) /\ Fold(c, base, R) = h[R]
    BY <2>0, <2>1, FilledIs
  <2> DEFINE Differ == {T \in SUBSET R : h[T] # g[T]}
  <2>3. Differ = {}
    <3> SUFFICES ASSUME Differ # {} PROVE FALSE
      OBVIOUS
    <3>1. Differ \in SUBSET (SUBSET R)
      OBVIOUS
    <3>2. PICK T \in Differ : /\ Cardinality(T) \in Nat
                              /\ \A U \in Differ : /\ Cardinality(U) \in Nat
                                                   /\ Cardinality(T) <= Cardinality(U)
      <4> HIDE DEF Differ
      <4> QED BY <2>0, <3>1, FewestElements
    <3>3. T \in SUBSET R /\ T \in SUBSET S /\ h[T] # g[T]
      BY <2>0
    <3>4. /\ T = {} => g[T] = base
          /\ T # {} => g[T] = Op(c, Map(c, Choose(T)), g[T \ {Choose(T)}])
      <4>1. T \in SUBSET S /\ Fill(c, base, S, SUBSET S, g)
        BY <1>1, <3>3
      <4> QED BY ONLY <4>1, Zenon DEF Fill
    <3>5. /\ T = {} => h[T] = base
          /\ T # {} => h[T] = Op(c, Map(c, Choose(T)), h[T \ {Choose(T)}])
      BY <3>3, <2>2, Zenon DEF Fill
    <3>6. T # {}
      BY <3>3, <3>4, <3>5, Zenon
    <3>7. /\ T \ {Choose(T)} \in SUBSET R
          /\ Cardinality(T \ {Choose(T)}) = Cardinality(T) - 1
      BY <2>0, <3>3, <3>6, SmallerBy1
    <3>8. T \ {Choose(T)} \notin Differ
      BY <3>2, <3>7
    <3>9. h[T \ {Choose(T)}] = g[T \ {Choose(T)}]
      BY <3>7, <3>8
    <3> QED BY <3>3, <3>4, <3>5, <3>6, <3>9, Zenon
  <2>4. h[R] = g[R]
    BY <2>3
  <2>5. g[S] = Op(c, Map(c, Choose(S)), g[R])
    BY <1>1, <1>3, FilledAt DEF R
  <2> QED BY <1>1, <1>3, <2>2, <2>4, <2>5, Zenon DEF R
<1> QED BY <1>2, <1>3

LEMMA FoldBelow ==
    ASSUME NEW c, NEW base, NEW S, IsFiniteSet(S), Chooses(S)
    PROVE  /\ \A U \in SUBSET S : U # {} =>
                  /\ Choose(U) \in U
                  /\ Fold(c, base, U) = Op(c, Map(c, Choose(U)), Fold(c, base, U \ {Choose(U)}))
           /\ Fold(c, base, {}) = base
<1>1. ASSUME NEW U \in SUBSET S
      PROVE  IsFiniteSet(U) /\ Chooses(U)
  BY FS_Subset, Zenon DEF Chooses
<1>2. ASSUME NEW U \in SUBSET S, U # {}
      PROVE  /\ Choose(U) \in U
             /\ Fold(c, base, U) = Op(c, Map(c, Choose(U)), Fold(c, base, U \ {Choose(U)}))
  <2>1. IsFiniteSet(U) /\ Chooses(U)
    BY <1>1
  <2>2. Choose(U) \in U
    BY <1>2 DEF Chooses
  <2>3. Fold(c, base, U) = Op(c, Map(c, Choose(U)), Fold(c, base, U \ {Choose(U)}))
    BY <2>1, <1>2, FoldEquation
  <2> QED BY <2>2, <2>3
<1>3. Fold(c, base, {}) = base
  <2>1. IsFiniteSet({}) /\ Chooses({})
    BY <1>1
  <2> QED BY <2>1, FoldEquation
<1> QED BY <1>2, <1>3

(* Two folds agree that take in the same things.                           *)
LEMMA FoldAgrees ==
    ASSUME NEW c, NEW d, NEW base, NEW S, IsFiniteSet(S), Chooses(S),
           \A x \in S : \A acc : Op(c, Map(c, x), acc) = Op(d, Map(d, x), acc)
    PROVE  Fold(c, base, S) = Fold(d, base, S)
<1> DEFINE Below(e) ==
        /\ \A U \in SUBSET S : U # {} =>
               /\ Choose(U) \in U
               /\ Fold(e, base, U) = Op(e, Map(e, Choose(U)), Fold(e, base, U \ {Choose(U)}))
        /\ Fold(e, base, {}) = base
<1>1. \A U \in SUBSET S : U # {} =>
          /\ Choose(U) \in U
          /\ Fold(c, base, U) = Op(c, Map(c, Choose(U)), Fold(c, base, U \ {Choose(U)}))
          /\ Fold(d, base, U) = Op(d, Map(d, Choose(U)), Fold(d, base, U \ {Choose(U)}))
  <2>1. Below(c)
    BY FoldBelow DEF Below
  <2>2. Below(d)
    BY FoldBelow DEF Below
  <2> QED BY <2>1, <2>2, Zenon DEF Below
<1>2. Fold(c, base, {}) = base /\ Fold(d, base, {}) = base
  <2>1. Below(c)
    BY FoldBelow DEF Below
  <2>2. Below(d)
    BY FoldBelow DEF Below
  <2> QED BY <2>1, <2>2, Zenon DEF Below
<1> DEFINE Differ == {T \in SUBSET S : Fold(c, base, T) # Fold(d, base, T)}
<1>3. Differ = {}
  <2> SUFFICES ASSUME Differ # {} PROVE FALSE
    OBVIOUS
  <2>1. Differ \in SUBSET (SUBSET S)
    OBVIOUS
  <2>2. PICK T \in Differ : /\ Cardinality(T) \in Nat
                            /\ \A U \in Differ : /\ Cardinality(U) \in Nat
                                                 /\ Cardinality(T) <= Cardinality(U)
    <3> HIDE DEF Differ
    <3> QED BY <2>1, FewestElements
  <2>3. T \in SUBSET S /\ Fold(c, base, T) # Fold(d, base, T)
    OBVIOUS
  <2>4. T # {}
    BY <2>3, <1>2
  <2>5. /\ T \ {Choose(T)} \in SUBSET S
        /\ Cardinality(T \ {Choose(T)}) = Cardinality(T) - 1
    BY <2>3, <2>4, SmallerBy1
  <2>6. T \ {Choose(T)} \notin Differ
    BY <2>2, <2>5
  <2>7. Fold(c, base, T \ {Choose(T)}) = Fold(d, base, T \ {Choose(T)})
    BY <2>5, <2>6
  <2>8. Choose(T) \in S
    BY <1>1, <2>3, <2>4
  <2>9. \A acc : Op(c, Map(c, Choose(T)), acc) = Op(d, Map(d, Choose(T)), acc)
    BY <2>8
  <2> QED BY <1>1, <2>3, <2>4, <2>7, <2>9, Zenon
<1> QED BY <1>3, Zenon

(* What is taken in last is added to the fold of the rest.                 *)
LEMMA FoldExtends ==
    ASSUME NEW c, NEW d, NEW base, NEW S, NEW e, e \notin S, IsFiniteSet(S),
           Chooses(S \union {e}), Choose(S \union {e}) = e,
           \A x \in S : \A acc : Op(c, Map(c, x), acc) = Op(d, Map(d, x), acc)
    PROVE  Fold(c, base, S \union {e}) = Op(c, Map(c, e), Fold(d, base, S))
<1> PICK W : W = S \union {e}
  OBVIOUS
<1>1. IsFiniteSet(W)
  BY FS_AddElement
<1>2. Choose(W) = e /\ W # {} /\ W \ {e} = S /\ Chooses(W)
  OBVIOUS
<1>3. Chooses(S)
  BY Zenon DEF Chooses
<1>4. Fold(c, base, W) = Op(c, Map(c, Choose(W)), Fold(c, base, W \ {Choose(W)}))
  BY <1>1, <1>2, FoldEquation
<1>5. Fold(c, base, S) = Fold(d, base, S)
  BY <1>3, FoldAgrees
<1> QED BY <1>2, <1>4, <1>5, Zenon

Collects(c, base, S) ==     \* what is collected does not depend on the order
    /\ base \in Values /\ \A x \in S : Map(c, x) \in Values
    /\ \A x, y \in Values : Op(c, x, y) \in Values
    /\ \A x, y, z \in Values : Op(c, x, Op(c, y, z)) = Op(c, y, Op(c, x, z))

(* Where the order does not matter, any element may be taken out first.    *)
THEOREM FoldTakeOut ==
    ASSUME NEW c, NEW base, NEW S, IsFiniteSet(S), Chooses(S), Collects(c, base, S)
    PROVE  /\ Fold(c, base, S) \in Values
           /\ \A e \in S : Fold(c, base, S) = Op(c, Map(c, e), Fold(c, base, S \ {e}))
<1> USE DEF Collects
<1>0. /\ \A U \in SUBSET S : U # {} =>
             /\ Choose(U) \in U
             /\ Fold(c, base, U) = Op(c, Map(c, Choose(U)), Fold(c, base, U \ {Choose(U)}))
      /\ Fold(c, base, {}) = base
  <2> HIDE DEF Fold
  <2> QED BY FoldBelow
<1> DEFINE Right(T) ==
        /\ Fold(c, base, T) \in Values
        /\ \A e \in T : Fold(c, base, T) = Op(c, Map(c, e), Fold(c, base, T \ {e}))
    Wrong == {T \in SUBSET S : ~ Right(T)}
<1>1. Wrong = {}
  <2> SUFFICES ASSUME Wrong # {} PROVE FALSE
    OBVIOUS
  <2>1. Wrong \in SUBSET (SUBSET S)
    OBVIOUS
  <2>2. PICK T \in Wrong : /\ Cardinality(T) \in Nat
                           /\ \A U \in Wrong : /\ Cardinality(U) \in Nat
                                               /\ Cardinality(T) <= Cardinality(U)
    <3> HIDE DEF Wrong
    <3> QED BY <2>1, FewestElements
  <2>3. T \in SUBSET S /\ ~ Right(T)
    OBVIOUS
  <2>4. \A U \in SUBSET S : IsFiniteSet(U) /\ Chooses(U)
    BY FS_Subset, Zenon DEF Chooses
  <2>5. \A U \in SUBSET S : U # {} =>
            /\ Choose(U) \in U
            /\ Fold(c, base, U) = Op(c, Map(c, Choose(U)), Fold(c, base, U \ {Choose(U)}))
    BY <1>0, Zenon
  <2>6. Fold(c, base, {}) = base
    BY <1>0, Zenon
  <2>7. T # {}
    <3>1. Right({})
      BY <2>6, Zenon
    <3> HIDE DEF Right
    <3> QED BY <2>3, <3>1, Zenon
  <2>8. \A e \in T : T \ {e} \in SUBSET S /\ Right(T \ {e})
    <3> SUFFICES ASSUME NEW e \in T PROVE T \ {e} \in SUBSET S /\ Right(T \ {e})
      OBVIOUS
    <3>1. T \ {e} \in SUBSET S
      BY <2>3
    <3>2. Cardinality(T \ {e}) = Cardinality(T) - 1
      BY <2>3, <2>4, FS_RemoveElement
    <3>3. T \ {e} \notin Wrong
      <4> HIDE DEF Wrong
      <4> QED BY <2>2, <3>2
    <3> QED BY <3>1, <3>3
  <2> HIDE DEF Wrong, Right
  <2> DEFINE a == Choose(T)
  <2>9. a \in T /\ Fold(c, base, T) = Op(c, Map(c, a), Fold(c, base, T \ {a}))
    BY <2>3, <2>5, <2>7, Zenon
  <2> HIDE DEF a
  <2>10. Fold(c, base, T) \in Values
    <3>1. Fold(c, base, T \ {a}) \in Values
      BY <2>8, <2>9, Zenon DEF Right
    <3>2. Map(c, a) \in Values
      BY <2>3, <2>9, Zenon
    <3> QED BY <2>9, <3>1, <3>2, Zenon
  <2>11. ASSUME NEW e \in T PROVE Fold(c, base, T) = Op(c, Map(c, e), Fold(c, base, T \ {e}))
    <3>1. CASE e = a
      BY <2>9, <3>1
    <3>2. CASE e # a
      <4>1. e \in T \ {a} /\ a \in T \ {e} /\ (T \ {a}) \ {e} = (T \ {e}) \ {a}
        BY <2>9, <3>2
      <4>2. Fold(c, base, T \ {a}) = Op(c, Map(c, e), Fold(c, base, (T \ {a}) \ {e}))
        BY <2>8, <2>9, <4>1, Zenon DEF Right
      <4>3. Fold(c, base, T \ {e}) = Op(c, Map(c, a), Fold(c, base, (T \ {e}) \ {a}))
        BY <2>8, <4>1, Zenon DEF Right
      <4>4. Fold(c, base, (T \ {e}) \ {a}) \in Values
        <5>1. (T \ {e}) \ {a} \in SUBSET S
          BY <2>3
        <5>2. (T \ {e}) \ {a} \notin Wrong
          <6>1. T \ {e} \in SUBSET S /\ IsFiniteSet(T \ {e})
            BY <2>3, <2>4
          <6>2. Cardinality(T \ {e}) = Cardinality(T) - 1
            BY <2>3, <2>4, FS_RemoveElement
          <6>3. Cardinality((T \ {e}) \ {a}) = Cardinality(T \ {e}) - 1
            BY <6>1, <4>1, FS_RemoveElement
          <6> QED BY <2>2, <6>2, <6>3
        <5>3. Right((T \ {e}) \ {a})
          BY <5>1, <5>2 DEF Wrong
        <5> QED BY <5>3, Zenon DEF Right
      <4>5. Map(c, a) \in Values /\ Map(c, e) \in Values
        BY <2>3, <2>9, Zenon
      <4> DEFINE r == Fold(c, base, (T \ {e}) \ {a})
      <4>6. Op(c, Map(c, a), Op(c, Map(c, e), r)) = Op(c, Map(c, e), Op(c, Map(c, a), r))
        <5> HIDE DEF r
        <5> QED BY <4>4, <4>5, Zenon DEF r
      <4> QED BY <2>9, <4>1, <4>2, <4>3, <4>6, Zenon
    <3> QED BY <3>1, <3>2
  <2> QED BY <2>3, <2>10, <2>11, Zenon DEF Right
<1>2. Right(S)
  BY <1>1
<1> QED BY <1>2
=============================================================================
