--------------------- MODULE ResidualSearchProofs ----------------------
(***************************************************************************)
(* Theorems about ResidualSearch, for every set of builds.  The state in   *)
(* place is exact: a move at one end takes from the counts of the middle   *)
(* what it adds to those of that end, so the convolution of the three      *)
(* stays what it was, and undoing a move gives the counts back to the      *)
(* last one.  The folds the model is built from (the recount of a word,    *)
(* the sum over the cuts of an order, the product in a target and the      *)
(* states along the stack) are instances of Folding.                       *)
(***************************************************************************)
EXTENDS ResidualInvariant, FiniteSetTheorems, SequenceTheorems, TLAPS

DiceCounts == {s[1] : s \in Sizes}

(* A tuple is a sequence of owners, each but once.                         *)
IsTuple(d, q) ==
    /\ q \in Seq(0 .. d - 1) /\ Len(q) <= d
    /\ \A i, j \in 1 .. Len(q) : q[i] = q[j] => i = j

(* The orders generate_states makes are the sequences of distinct dice.    *)
LEMMA TuplesAre ==
    ASSUME NEW d \in DiceCounts
    PROVE  \A q : q \in TuplesOf[d] <=> IsTuple(d, q)
<1>0. d \in Nat
  BY SizesAssumption DEF DiceCounts
<1>1. TuplesOf[d] = UNION {{q \in [1 .. n -> 0 .. d - 1] :
                              \A i, j \in 1 .. n : q[i] = q[j] => i = j} : n \in 0 .. d}
  BY DEF TuplesOf, DiceCounts
<1>2. ASSUME NEW q \in TuplesOf[d] PROVE IsTuple(d, q)
  <2>1. PICK n \in 0 .. d : /\ q \in [1 .. n -> 0 .. d - 1]
                            /\ \A i, j \in 1 .. n : q[i] = q[j] => i = j
    BY <1>1, <1>2
  <2>2. q \in Seq(0 .. d - 1) /\ Len(q) = n
    BY <2>1, <1>0
  <2> QED BY <2>1, <2>2 DEF IsTuple
<1>3. ASSUME NEW q, IsTuple(d, q) PROVE q \in TuplesOf[d]
  <2>1. Len(q) \in 0 .. d /\ q \in [1 .. Len(q) -> 0 .. d - 1]
    BY <1>0, <1>3 DEF IsTuple
  <2> QED BY <1>1, <1>3, <2>1 DEF IsTuple
<1> QED BY <1>2, <1>3

(* All but the last, and the order turned round.                           *)
LEMMA FrontOf ==
    ASSUME NEW S, NEW q \in Seq(S), q # <<>>
    PROVE  \E f \in Seq(S) : f = Front(q) /\ Len(f) = Len(q) - 1
                              /\ \A i \in 1 .. Len(f) : f[i] = q[i]
<1>1. Len(q) \in Nat /\ Len(q) >= 1
  BY EmptySeq
<1>2. \A i \in 1 .. Len(q) - 1 : i \in 1 .. Len(q) /\ q[i] \in S
  BY <1>1, ElementOfSeq
<1> DEFINE f == SubSeq(q, 1, Len(q) - 1)
<1>3. /\ f \in Seq(S)
      /\ Len(f) = IF 1 <= Len(q) - 1 THEN Len(q) - 1 - 1 + 1 ELSE 0
      /\ \A i \in 1 .. Len(q) - 1 - 1 + 1 : f[i] = q[1 + i - 1]
  BY <1>1, <1>2, SubSeqProperties
<1>4. f = Front(q)
  BY DEF Front
<1> HIDE DEF f
<1>5. Len(f) = Len(q) - 1
  <2>1. PICK n \in Nat : n = Len(q) /\ n >= 1
    BY <1>1
  <2>2. Len(f) = IF 1 <= n - 1 THEN n - 1 - 1 + 1 ELSE 0
    BY <1>3, <2>1
  <2>3. Len(f) = n - 1
    BY ONLY <2>1, <2>2
  <2> QED BY <2>1, <2>3
<1>6. \A i \in 1 .. Len(f) : f[i] = q[i]
  <2> SUFFICES ASSUME NEW i \in 1 .. Len(f) PROVE f[i] = q[i]
    OBVIOUS
  <2>1. i \in 1 .. Len(q) - 1 - 1 + 1 /\ 1 + i - 1 = i
    BY <1>1, <1>5
  <2> QED BY <1>3, <2>1
<1> QED BY <1>3, <1>4, <1>5, <1>6

(* What is cut from a tuple is one.                                        *)
LEMMA TupleParts ==
    ASSUME NEW d \in DiceCounts, NEW q \in TuplesOf[d]
    PROVE  /\ \A i \in 1 .. Len(q) + 1, j \in 0 .. Len(q) : SubSeq(q, i, j) \in TuplesOf[d]
           /\ q # <<>> => Tail(q) \in TuplesOf[d] /\ Front(q) \in TuplesOf[d]
           /\ Reverse(q) \in TuplesOf[d]
<1>0. d \in Nat
  BY SizesAssumption DEF DiceCounts
<1>1. IsTuple(d, q)
  BY TuplesAre
<1>2. q \in Seq(0 .. d - 1) /\ Len(q) \in Nat /\ Len(q) <= d
  BY <1>1 DEF IsTuple
<1>3. \A i, j \in 1 .. Len(q) : q[i] = q[j] => i = j
  BY <1>1 DEF IsTuple
<1>4. ASSUME NEW i \in 1 .. Len(q) + 1, NEW j \in 0 .. Len(q)
      PROVE  SubSeq(q, i, j) \in TuplesOf[d]
  <2> DEFINE r == SubSeq(q, i, j)
  <2>1. r \in Seq(0 .. d - 1) /\ Len(r) \in Nat /\ Len(r) <= Len(q)
        /\ \A k \in 1 .. Len(r) : r[k] = q[i + k - 1] /\ i + k - 1 \in 1 .. Len(q)
    <3>0. i \in Int /\ j \in Int /\ i >= 1 /\ j <= Len(q)
      BY <1>2
    <3>1. ASSUME NEW k \in i .. j PROVE k \in 1 .. Len(q) /\ q[k] \in 0 .. d - 1
      <4>1. k \in 1 .. Len(q)
        BY <1>2, <3>0
      <4> QED BY <1>2, <4>1, ElementOfSeq
    <3>2. /\ r \in Seq(0 .. d - 1)
          /\ Len(r) = IF i <= j THEN j - i + 1 ELSE 0
          /\ \A k \in 1 .. j - i + 1 : r[k] = q[i + k - 1]
      BY <3>0, <3>1, SubSeqProperties
    <3> HIDE DEF r
    <3>3. Len(r) \in Nat /\ Len(r) <= Len(q)
      BY <3>2, <1>2
    <3>4. ASSUME NEW k \in 1 .. Len(r)
          PROVE  r[k] = q[i + k - 1] /\ i + k - 1 \in 1 .. Len(q)
      <4>1. k \in 1 .. j - i + 1 /\ i + k - 1 \in i .. j
        BY <3>2, <3>4
      <4> QED BY <3>1, <3>2, <4>1
    <3> QED BY <3>2, <3>3, <3>4
  <2> HIDE DEF r
  <2>2. ASSUME NEW k \in 1 .. Len(r), NEW m \in 1 .. Len(r), r[k] = r[m]
        PROVE  k = m
    <3>1. q[i + k - 1] = q[i + m - 1] /\ i + k - 1 \in 1 .. Len(q) /\ i + m - 1 \in 1 .. Len(q)
      BY <2>1, <2>2
    <3>2. i + k - 1 = i + m - 1
      BY <1>3, <3>1
    <3> QED BY <3>2, <2>1
  <2>3. Len(r) <= d
    BY <1>0, <1>2, <2>1
  <2>4. IsTuple(d, r)
    BY <2>1, <2>2, <2>3 DEF IsTuple
  <2> QED BY <2>4, TuplesAre DEF r
<1>5. ASSUME q # <<>> PROVE Tail(q) \in TuplesOf[d] /\ Front(q) \in TuplesOf[d]
  <2>1. Len(q) >= 1
    BY <1>2, <1>5
  <2>2. Tail(q) = SubSeq(q, 2, Len(q))
    BY <1>2, <2>1
  <2>3. 2 \in 1 .. Len(q) + 1 /\ Len(q) \in 0 .. Len(q) /\ Len(q) - 1 \in 0 .. Len(q)
        /\ 1 \in 1 .. Len(q) + 1
    BY <1>2, <2>1
  <2>4. SubSeq(q, 2, Len(q)) \in TuplesOf[d]
    BY <1>4, <2>3
  <2>5. SubSeq(q, 1, Len(q) - 1) \in TuplesOf[d]
    BY <1>4, <2>3
  <2> QED BY <2>2, <2>4, <2>5 DEF Front
<1>6. Reverse(q) \in TuplesOf[d]
  <2> DEFINE r == Reverse(q)
  <2>1. \A k \in 1 .. Len(q) : Len(q) - k + 1 \in 1 .. Len(q) /\ q[Len(q) - k + 1] \in 0 .. d - 1
    <3>1. \A k \in 1 .. Len(q) : Len(q) - k + 1 \in 1 .. Len(q)
      BY <1>2
    <3>2. \A k \in 1 .. Len(q) : q[k] \in 0 .. d - 1
      BY <1>2, ElementOfSeq
    <3> QED BY <3>1, <3>2
  <2>2. r \in Seq(0 .. d - 1) /\ Len(r) = Len(q)
        /\ \A k \in 1 .. Len(q) : r[k] = q[Len(q) - k + 1]
    BY <1>2, <2>1 DEF Reverse
  <2> HIDE DEF r
  <2>3. ASSUME NEW k \in 1 .. Len(r), NEW m \in 1 .. Len(r), r[k] = r[m]
        PROVE  k = m
    <3>1. Len(q) - k + 1 = Len(q) - m + 1
      BY <1>3, <2>1, <2>2, <2>3
    <3> QED BY <3>1, <1>2, <2>2
  <2>4. IsTuple(d, r)
    BY <1>2, <2>2, <2>3 DEF IsTuple
  <2> QED BY <2>4, TuplesAre DEF r
<1> QED BY <1>4, <1>5, <1>6

(* The order of no dice and those of one are among them.                   *)
LEMMA ShortTuples ==
    ASSUME NEW d \in DiceCounts
    PROVE  <<>> \in TuplesOf[d] /\ \A o \in 0 .. d - 1 : <<o>> \in TuplesOf[d]
<1>0. d \in Nat /\ d >= 2
  BY SizesAssumption DEF DiceCounts
<1>1. IsTuple(d, <<>>)
  BY <1>0 DEF IsTuple
<1>2. ASSUME NEW o \in 0 .. d - 1 PROVE IsTuple(d, <<o>>)
  BY <1>0 DEF IsTuple
<1> QED BY <1>1, <1>2, TuplesAre

(* The first and the last owner come nowhere else in a tuple.              *)
LEMMA EndsOnce ==
    ASSUME NEW d \in DiceCounts, NEW q \in TuplesOf[d], q # <<>>, NEW o
    PROVE  /\ Len(q) \in Nat /\ Len(q) >= 1
           /\ Begins(q, o) => ~ Begins(Tail(q), o)
           /\ Ends(q, o) => ~ Ends(Front(q), o)
<1>1. q \in Seq(0 .. d - 1) /\ \A i, j \in 1 .. Len(q) : q[i] = q[j] => i = j
  BY TuplesAre DEF IsTuple
<1>2. Len(q) \in Nat /\ Len(q) >= 1
  BY <1>1
<1>3. ASSUME Begins(q, o), Begins(Tail(q), o) PROVE FALSE
  <2>1. Len(q) >= 2 /\ q[1] = o /\ q[2] = o
    BY <1>1, <1>2, <1>3 DEF Begins
  <2> QED BY <1>1, <1>2, <2>1
<1>4. ASSUME Ends(q, o), Ends(Front(q), o) PROVE FALSE
  <2>0. q[Len(q)] = o
    BY <1>4 DEF Ends, Last
  <2>1. PICK f \in Seq(0 .. d - 1) : f = Front(q) /\ Len(f) = Len(q) - 1
                                     /\ \A i \in 1 .. Len(f) : f[i] = q[i]
    BY <1>1, FrontOf
  <2>2. f # <<>> /\ f[Len(f)] = o
    BY <1>4, <2>1 DEF Ends, Last
  <2>3. Len(f) >= 1
    BY <2>1, <2>2
  <2>4. q[Len(q) - 1] = o /\ Len(q) - 1 \in 1 .. Len(q)
    BY <2>1, <2>2, <2>3, <1>2
  <2> QED BY <1>1, <1>2, <2>0, <2>4
<1> QED BY <1>2, <1>3, <1>4

-----------------------------------------------------------------------------
(* The moves on counts. *)

(* A move takes counts to counts, of the same orders.                      *)
LEMMA MovesTyped ==
    ASSUME NEW d \in DiceCounts, NEW c \in [TuplesOf[d] -> Int], NEW o
    PROVE  /\ SubtractPrefix(c, o) \in [TuplesOf[d] -> Int]
           /\ RestorePrefix(c, o) \in [TuplesOf[d] -> Int]
           /\ SubtractSuffix(c, o) \in [TuplesOf[d] -> Int]
           /\ RestoreSuffix(c, o) \in [TuplesOf[d] -> Int]
<1> PICK T : T = TuplesOf[d]
  OBVIOUS
<1>1. c \in [T -> Int] /\ DOMAIN c = T
  OBVIOUS
<1>2. \A q \in T : q # <<>> => c[Tail(q)] \in Int /\ c[Front(q)] \in Int
  BY TupleParts
<1>3. \A q \in T : Begins(q, o) \/ Ends(q, o) => q # <<>>
  BY DEF Begins, Ends
<1>4. SubtractPrefix(c, o) \in [T -> Int]
  BY <1>1, <1>2, <1>3 DEF SubtractPrefix
<1>5. RestorePrefix(c, o) \in [T -> Int]
  BY <1>1, <1>2, <1>3 DEF RestorePrefix
<1>6. SubtractSuffix(c, o) \in [T -> Int]
  BY <1>1, <1>2, <1>3 DEF SubtractSuffix
<1>7. RestoreSuffix(c, o) \in [T -> Int]
  BY <1>1, <1>2, <1>3 DEF RestoreSuffix
<1> QED BY <1>4, <1>5, <1>6, <1>7

(* What a move makes of one count.                                         *)
LEMMA MovesAt ==
    ASSUME NEW d \in DiceCounts, NEW c \in [TuplesOf[d] -> Int], NEW o, NEW q \in TuplesOf[d]
    PROVE  /\ SubtractPrefix(c, o)[q] = IF Begins(q, o) THEN c[q] - c[Tail(q)] ELSE c[q]
           /\ RestorePrefix(c, o)[q] = IF Begins(q, o) THEN c[q] + c[Tail(q)] ELSE c[q]
           /\ SubtractSuffix(c, o)[q] = IF Ends(q, o) THEN c[q] - c[Front(q)] ELSE c[q]
           /\ RestoreSuffix(c, o)[q] = IF Ends(q, o) THEN c[q] + c[Front(q)] ELSE c[q]
           /\ c[q] \in Int
           /\ Begins(q, o) => Tail(q) \in TuplesOf[d] /\ c[Tail(q)] \in Int
           /\ Ends(q, o) => Front(q) \in TuplesOf[d] /\ c[Front(q)] \in Int
<1> PICK T : T = TuplesOf[d]
  OBVIOUS
<1>1. c \in [T -> Int] /\ DOMAIN c = T /\ q \in T
  OBVIOUS
<1>2. SubtractPrefix(c, o)[q] = IF Begins(q, o) THEN c[q] - c[Tail(q)] ELSE c[q]
  BY <1>1 DEF SubtractPrefix
<1>3. RestorePrefix(c, o)[q] = IF Begins(q, o) THEN c[q] + c[Tail(q)] ELSE c[q]
  BY <1>1 DEF RestorePrefix
<1>4. SubtractSuffix(c, o)[q] = IF Ends(q, o) THEN c[q] - c[Front(q)] ELSE c[q]
  BY <1>1 DEF SubtractSuffix
<1>5. RestoreSuffix(c, o)[q] = IF Ends(q, o) THEN c[q] + c[Front(q)] ELSE c[q]
  BY <1>1 DEF RestoreSuffix
<1>6. Begins(q, o) \/ Ends(q, o) => q # <<>>
  BY DEF Begins, Ends
<1>7. q # <<>> => Tail(q) \in T /\ Front(q) \in T
  BY TupleParts
<1> QED BY <1>1, <1>2, <1>3, <1>4, <1>5, <1>6, <1>7

(* Restoring undoes what subtracting did.                                  *)
LEMMA RestoreUndoes ==
    ASSUME NEW d \in DiceCounts, NEW c \in [TuplesOf[d] -> Int], NEW o
    PROVE  /\ RestorePrefix(SubtractPrefix(c, o), o) = c
           /\ RestoreSuffix(SubtractSuffix(c, o), o) = c
<1> PICK p : p = SubtractPrefix(c, o)
  OBVIOUS
<1> PICK s : s = SubtractSuffix(c, o)
  OBVIOUS
<1>1. p \in [TuplesOf[d] -> Int] /\ s \in [TuplesOf[d] -> Int]
  BY MovesTyped
<1>2. ASSUME NEW q \in TuplesOf[d] PROVE RestorePrefix(p, o)[q] = c[q]
  <2>1. CASE Begins(q, o)
    <3>1. q # <<>> /\ ~ Begins(Tail(q), o)
      BY <2>1, EndsOnce DEF Begins
    <3>2. /\ RestorePrefix(p, o)[q] = p[q] + p[Tail(q)]
          /\ Tail(q) \in TuplesOf[d] /\ c[Tail(q)] \in Int /\ c[q] \in Int
      BY <1>1, <2>1, MovesAt
    <3>3. p[q] = c[q] - c[Tail(q)]
      BY <2>1, MovesAt
    <3>4. p[Tail(q)] = c[Tail(q)]
      BY <3>1, <3>2, MovesAt
    <3> QED BY <3>2, <3>3, <3>4
  <2>2. CASE ~ Begins(q, o)
    <3>1. RestorePrefix(p, o)[q] = p[q]
      BY <1>1, <2>2, MovesAt
    <3>2. p[q] = c[q]
      BY <2>2, MovesAt
    <3> QED BY <3>1, <3>2
  <2> QED BY <2>1, <2>2
<1>3. ASSUME NEW q \in TuplesOf[d] PROVE RestoreSuffix(s, o)[q] = c[q]
  <2>1. CASE Ends(q, o)
    <3>1. q # <<>> /\ ~ Ends(Front(q), o)
      BY <2>1, EndsOnce DEF Ends
    <3>2. /\ RestoreSuffix(s, o)[q] = s[q] + s[Front(q)]
          /\ Front(q) \in TuplesOf[d] /\ c[Front(q)] \in Int /\ c[q] \in Int
      BY <1>1, <2>1, MovesAt
    <3>3. s[q] = c[q] - c[Front(q)]
      BY <2>1, MovesAt
    <3>4. s[Front(q)] = c[Front(q)]
      BY <3>1, <3>2, MovesAt
    <3> QED BY <3>2, <3>3, <3>4
  <2>2. CASE ~ Ends(q, o)
    <3>1. RestoreSuffix(s, o)[q] = s[q]
      BY <1>1, <2>2, MovesAt
    <3>2. s[q] = c[q]
      BY <2>2, MovesAt
    <3> QED BY <3>1, <3>2
  <2> QED BY <2>1, <2>2
<1>4. RestorePrefix(p, o) \in [TuplesOf[d] -> Int] /\ RestoreSuffix(s, o) \in [TuplesOf[d] -> Int]
  BY <1>1, MovesTyped
<1>5. RestorePrefix(p, o) = c
  BY <1>2, <1>4
<1>6. RestoreSuffix(s, o) = c
  BY <1>3, <1>4
<1> QED BY <1>5, <1>6

(* A tuple of two owners or more has two ends that do not touch.           *)
LEMMA LongTuples ==
    ASSUME NEW d \in DiceCounts, NEW q \in TuplesOf[d], Len(q) >= 2, NEW o
    PROVE  /\ q # <<>> /\ Tail(q) \in TuplesOf[d] /\ Front(q) \in TuplesOf[d]
           /\ Tail(q) # <<>> /\ Front(q) # <<>>
           /\ Begins(Front(q), o) <=> Begins(q, o)
           /\ Ends(Tail(q), o) <=> Ends(q, o)
           /\ Front(Tail(q)) = Tail(Front(q)) /\ Front(Tail(q)) \in TuplesOf[d]
<1>1. q \in Seq(0 .. d - 1) /\ Len(q) \in Nat /\ q # <<>>
  <2>1. q \in Seq(0 .. d - 1)
    BY TuplesAre DEF IsTuple
  <2> QED BY <2>1
<1>2. PICK f \in Seq(0 .. d - 1) : /\ f = Front(q) /\ Len(f) = Len(q) - 1
                                   /\ \A i \in 1 .. Len(f) : f[i] = q[i]
  BY <1>1, FrontOf
<1>3. PICK t \in Seq(0 .. d - 1) : /\ t = Tail(q) /\ Len(t) = Len(q) - 1
                                   /\ \A i \in 1 .. Len(t) : t[i] = q[i + 1]
  BY <1>1, HeadTailProperties
<1>4. f # <<>> /\ t # <<>> /\ Len(f) >= 1 /\ Len(t) >= 1
  <2>1. PICK n \in Nat : n = Len(q) /\ n >= 2
    BY <1>1
  <2>2. Len(f) >= 1 /\ Len(t) >= 1
    <3>1. Len(f) = n - 1 /\ Len(t) = n - 1
      BY <1>2, <1>3, <2>1
    <3> QED BY ONLY <2>1, <3>1
  <2>3. Len(<<>>) = 0
    OBVIOUS
  <2>4. f # <<>> /\ t # <<>>
    BY ONLY <2>2, <2>3
  <2> QED BY <2>2, <2>4
<1>5. Begins(f, o) <=> Begins(q, o)
  <2>1. Head(f) = f[1] /\ Head(q) = q[1] /\ f[1] = q[1]
    BY <1>1, <1>2, <1>4
  <2> QED BY <1>1, <1>4, <2>1 DEF Begins
<1>6. Ends(t, o) <=> Ends(q, o)
  <2>1. t[Len(t)] = q[Len(q)]
    BY <1>1, <1>3, <1>4
  <2> QED BY <1>1, <1>4, <2>1 DEF Ends, Last
<1>7. Front(t) = Tail(f)
  <2>1. PICK g \in Seq(0 .. d - 1) : /\ g = Front(t) /\ Len(g) = Len(t) - 1
                                     /\ \A i \in 1 .. Len(g) : g[i] = t[i]
    BY <1>4, FrontOf
  <2>2. PICK h \in Seq(0 .. d - 1) : /\ h = Tail(f) /\ Len(h) = Len(f) - 1
                                     /\ \A i \in 1 .. Len(h) : h[i] = f[i + 1]
    BY <1>4, HeadTailProperties
  <2>3. Len(g) = Len(h) /\ Len(h) \in Nat
    BY <1>2, <1>3, <2>1, <2>2
  <2>4. \A i \in 1 .. Len(g) : g[i] = h[i]
    <3> SUFFICES ASSUME NEW i \in 1 .. Len(g) PROVE g[i] = h[i]
      OBVIOUS
    <3>1. i \in 1 .. Len(t) /\ i + 1 \in 1 .. Len(f) /\ i \in 1 .. Len(h)
      BY <1>1, <1>2, <1>3, <2>1, <2>3
    <3> QED BY <1>2, <1>3, <2>1, <2>2, <3>1
  <2>5. g = h
    BY <2>3, <2>4, SeqEqual
  <2> QED BY <2>1, <2>2, <2>5
<1>8. t \in TuplesOf[d] /\ f \in TuplesOf[d]
  BY <1>1, <1>2, <1>3, TupleParts
<1>9. Front(t) \in TuplesOf[d]
  BY <1>4, <1>8, TupleParts
<1> QED BY <1>1, <1>2, <1>3, <1>4, <1>5, <1>6, <1>7, <1>8, <1>9

(* An order of at most one die has nothing behind its ends.                *)
LEMMA OneOwner ==
    ASSUME NEW d \in DiceCounts, NEW q \in TuplesOf[d], ~ (Len(q) >= 2), NEW o, NEW p
    PROVE  \/ q = <<>> /\ ~ Begins(q, o) /\ ~ Ends(q, p)
           \/ /\ Tail(q) = <<>> /\ Front(q) = <<>> /\ Len(q) = 1 /\ q = <<q[1]>>
              /\ q[1] \in 0 .. d - 1
              /\ Begins(q, o) <=> q[1] = o
              /\ Ends(q, p) <=> q[1] = p
<1>1. q \in Seq(0 .. d - 1)
  BY TuplesAre DEF IsTuple
<1>2. Len(q) = 0 \/ Len(q) = 1
  <2>1. PICK n \in Nat : n = Len(q)
    BY <1>1
  <2>2. n = 0 \/ n = 1
    BY <2>1
  <2> QED BY <2>1, <2>2
<1>3. CASE Len(q) = 0
  <2>1. q = <<>>
    BY <1>1, <1>3, EmptySeq
  <2> QED BY <2>1 DEF Begins, Ends
<1>4. CASE Len(q) = 1
  <2>0. Len(<<>>) = 0 /\ q # <<>>
    <3>1. Len(<<>>) = 0
      OBVIOUS
    <3> QED BY ONLY <1>4, <3>1
  <2>1. q # <<>> /\ q = <<q[1]>> /\ q[1] \in 0 .. d - 1
    <3>1. 1 \in 1 .. Len(q)
      BY <1>4
    <3>2. q[1] \in 0 .. d - 1
      BY <1>1, <3>1, ElementOfSeq
    <3>3. <<q[1]>> \in Seq(0 .. d - 1) /\ Len(<<q[1]>>) = 1 /\ <<q[1]>>[1] = q[1]
      BY <3>2
    <3>4. \A i \in 1 .. Len(q) : q[i] = <<q[1]>>[i]
      BY <1>4, <3>3
    <3>5. q = <<q[1]>>
      BY <1>1, <1>4, <3>3, <3>4, SeqEqual
    <3> QED BY <2>0, <3>2, <3>5
  <2>2. Tail(q) = <<>>
    <3>1. Tail(q) \in Seq(0 .. d - 1) /\ Len(Tail(q)) = Len(q) - 1
      BY <1>1, <2>0, HeadTailProperties
    <3>2. Len(Tail(q)) = 0
      BY <1>4, <3>1
    <3> QED BY <3>1, <3>2, EmptySeq
  <2>3. Front(q) = <<>>
    BY <1>1, <1>4 DEF Front
  <2>4. Begins(q, o) <=> q[1] = o
    BY <1>1, <1>4, <2>1 DEF Begins
  <2>5. Ends(q, p) <=> q[1] = p
    BY <1>4, <2>1 DEF Ends, Last
  <2> QED BY <1>4, <2>1, <2>2, <2>3, <2>4, <2>5
<1> QED BY <1>2, <1>3, <1>4

(* A face before a word and one behind it may be added in either order.    *)
LEMMA RestoresCommute ==
    ASSUME NEW d \in DiceCounts, NEW c \in [TuplesOf[d] -> Int], NEW o, NEW p
    PROVE  RestoreSuffix(RestorePrefix(c, o), p) = RestorePrefix(RestoreSuffix(c, p), o)
<1> PICK T : T = TuplesOf[d]
  OBVIOUS
<1> PICK a : a = RestorePrefix(c, o)
  OBVIOUS
<1> PICK b : b = RestoreSuffix(c, p)
  OBVIOUS
<1>1. a \in [T -> Int] /\ b \in [T -> Int]
  BY MovesTyped
<1>2. RestoreSuffix(a, p) \in [T -> Int] /\ RestorePrefix(b, o) \in [T -> Int]
  BY <1>1, MovesTyped
<1>3. ASSUME NEW q \in T PROVE RestoreSuffix(a, p)[q] = RestorePrefix(b, o)[q]
  <2>1. /\ RestoreSuffix(a, p)[q] = IF Ends(q, p) THEN a[q] + a[Front(q)] ELSE a[q]
        /\ RestorePrefix(b, o)[q] = IF Begins(q, o) THEN b[q] + b[Tail(q)] ELSE b[q]
    BY <1>1, MovesAt
  <2>2. /\ a[q] = IF Begins(q, o) THEN c[q] + c[Tail(q)] ELSE c[q]
        /\ b[q] = IF Ends(q, p) THEN c[q] + c[Front(q)] ELSE c[q]
        /\ c[q] \in Int
    BY MovesAt
  <2>3. CASE Len(q) >= 2
    <3>1. /\ Tail(q) \in T /\ Front(q) \in T
          /\ Begins(Front(q), o) <=> Begins(q, o)
          /\ Ends(Tail(q), p) <=> Ends(q, p)
          /\ Front(Tail(q)) = Tail(Front(q)) /\ Front(Tail(q)) \in T
      BY <2>3, LongTuples
    <3>2. a[Front(q)] = IF Begins(q, o) THEN c[Front(q)] + c[Front(Tail(q))] ELSE c[Front(q)]
      <4>1. PICK r \in T : r = Front(q)
        BY <3>1
      <4>2. a[r] = IF Begins(r, o) THEN c[r] + c[Tail(r)] ELSE c[r]
        BY MovesAt
      <4> QED BY <3>1, <4>1, <4>2, Zenon
    <3>3. b[Tail(q)] = IF Ends(q, p) THEN c[Tail(q)] + c[Front(Tail(q))] ELSE c[Tail(q)]
      <4>1. PICK r \in T : r = Tail(q)
        BY <3>1
      <4>2. b[r] = IF Ends(r, p) THEN c[r] + c[Front(r)] ELSE c[r]
        BY MovesAt
      <4> QED BY <3>1, <4>1, <4>2, Zenon
    <3>4. c[Tail(q)] \in Int /\ c[Front(q)] \in Int /\ c[Front(Tail(q))] \in Int
      BY <3>1
    <3> QED BY <2>1, <2>2, <3>2, <3>3, <3>4
  <2>4. CASE ~ (Len(q) >= 2)
    <3>1. CASE q = <<>>
      <4>1. ~ Begins(q, o) /\ ~ Ends(q, p)
        BY <3>1 DEF Begins, Ends
      <4> QED BY <2>1, <2>2, <4>1
    <3>2. CASE q # <<>>
      <4>1. Tail(q) = <<>> /\ Front(q) = <<>>
        BY <2>4, <3>2, OneOwner
      <4>2. ~ Begins(<<>>, o) /\ ~ Ends(<<>>, p) /\ <<>> \in T /\ c[<<>>] \in Int
        BY ShortTuples DEF Begins, Ends
      <4>3. a[<<>>] = c[<<>>] /\ b[<<>>] = c[<<>>]
        BY <4>2, MovesAt
      <4> QED BY <2>1, <2>2, <4>1, <4>2, <4>3
    <3> QED BY <3>1, <3>2
  <2> QED BY <2>3, <2>4
<1> QED BY <1>2, <1>3

-----------------------------------------------------------------------------
(* Words, face by face: folds along a sequence. *)

At(c, i)             == c[i]
Recount(c, x, acc)   == RestoreSuffix(acc, x)
CountsOf(k, S, acc)  == acc \in [k -> Int]
Ways == INSTANCE Folding WITH
    Op <- Recount, Map <- At, Choose <- Max, Values <- {}, Inv <- CountsOf

(* The largest number of a set of them.                                    *)
LEMMA MaxOf ==
    ASSUME NEW n \in Nat, NEW S \in SUBSET (1 .. n), S # {}
    PROVE  Max(S) \in S /\ \A y \in S : Max(S) >= y
<1> DEFINE N == {n - x : x \in S}
<1>1. N \in SUBSET Nat /\ N # {}
  <2>1. \A x \in S : n - x \in Nat
    <3>1. \A x \in 1 .. n : n - x \in Nat
      OBVIOUS
    <3> QED BY <3>1
  <2> QED BY <2>1
<1> HIDE DEF N
<1>2. PICK m \in N : \A k \in N : m <= k
  BY <1>1, Ways!LeastNatural
<1> USE DEF N
<1>3. PICK x \in S : m = n - x
  OBVIOUS
<1>4. \A y \in S : n - x <= n - y /\ x \in Nat /\ y \in Nat
  BY <1>2, <1>3
<1>5. \A y \in S : x >= y
  BY <1>4
<1> QED BY <1>5, Zenon DEF Max

(* The faces of a word, of which the last is taken in last.                *)
LEMMA FacesChosen ==
    ASSUME NEW n \in Nat
    PROVE  /\ Ways!IsFiniteSet(1 .. n) /\ 1 .. n + 1 = (1 .. n) \union {n + 1}
           /\ n + 1 \notin 1 .. n /\ Max((1 .. n) \union {n + 1}) = n + 1
           /\ Ways!Chooses(1 .. n) /\ Ways!Chooses((1 .. n) \union {n + 1})
<1>1. Ways!IsFiniteSet(1 .. n)
  <2>1. PICK S : S = 1 .. n
    OBVIOUS
  <2>2. IsFiniteSet(S)
    BY <2>1, FS_Interval
  <2>3. Ways!IsFiniteSet(S)
    BY ONLY <2>2 DEF IsFiniteSet, Ways!IsFiniteSet
  <2> QED BY <2>1, <2>3
<1>2. 1 .. n + 1 = (1 .. n) \union {n + 1} /\ n + 1 \notin 1 .. n /\ n + 1 \in Nat
  OBVIOUS
<1>3. Max(1 .. n + 1) = n + 1
  <2>1. 1 .. n + 1 # {} /\ n + 1 \in 1 .. n + 1
    OBVIOUS
  <2>2. Max(1 .. n + 1) \in 1 .. n + 1 /\ Max(1 .. n + 1) >= n + 1
    BY <1>2, <2>1, MaxOf
  <2> QED BY <2>2
<1>4. \A m \in Nat : Ways!Chooses(1 .. m)
  <2> SUFFICES ASSUME NEW m \in Nat, NEW T \in SUBSET (1 .. m), T # {} PROVE Max(T) \in T
    BY DEF Ways!Chooses
  <2> QED BY MaxOf
<1> QED BY <1>1, <1>2, <1>3, <1>4

(* The recount of a word is a fold.                                        *)
LEMMA WaysIsFold ==
    ASSUME NEW tuples, NEW word
    PROVE  WaysAmong(tuples, word) = Ways!Fold(word, NoWays(tuples), DOMAIN word)
  BY Zenon DEF WaysAmong, FoldLeft, MapThenFoldSet, Ways!Fold, Ways!MapThenFoldSet, Recount, At

(* One face more.                                                          *)
LEMMA WaysAppend ==
    ASSUME NEW tuples, NEW S, NEW word \in Seq(S), NEW o \in S
    PROVE  /\ WaysAmong(tuples, <<>>) = NoWays(tuples)
           /\ WaysAmong(tuples, Append(word, o)) = RestoreSuffix(WaysAmong(tuples, word), o)
<1> PICK b : b = NoWays(tuples)
  OBVIOUS
<1> PICK n \in Nat : n = Len(word)
  OBVIOUS
<1> PICK w : w = Append(word, o)
  OBVIOUS
<1>1. /\ DOMAIN word = 1 .. n /\ DOMAIN w = 1 .. n + 1 /\ w[n + 1] = o
      /\ \A i \in 1 .. n : w[i] = word[i]
  <2>1. w \in Seq(S) /\ Len(w) = n + 1
    BY AppendProperties
  <2> QED BY <2>1, AppendProperties, LenProperties
<1> PICK D : D = 1 .. n
  OBVIOUS
<1> PICK e : e = n + 1
  OBVIOUS
<1>2. \A i \in D : \A acc : Recount(w, At(w, i), acc) = Recount(word, At(word, i), acc)
  BY <1>1 DEF Recount, At
<1>3. Ways!Fold(w, b, D \union {e}) = Recount(w, At(w, e), Ways!Fold(word, b, D))
  <2>1. /\ Ways!IsFiniteSet(D) /\ e \notin D /\ Ways!Chooses(D \union {e})
        /\ Max(D \union {e}) = e
    BY FacesChosen
  <2> QED BY ONLY <1>2, <2>1, Ways!FoldExtends
<1>4. Ways!Fold(w, b, DOMAIN w) = RestoreSuffix(Ways!Fold(word, b, DOMAIN word), o)
  BY <1>1, <1>3, FacesChosen, Zenon DEF Recount, At
<1>5. WaysAmong(tuples, w) = RestoreSuffix(WaysAmong(tuples, word), o)
  BY <1>4, WaysIsFold, Zenon
<1>6. WaysAmong(tuples, <<>>) = b
  <2>1. WaysAmong(tuples, <<>>) = Ways!Fold(<<>>, b, DOMAIN <<>>)
    BY WaysIsFold, Zenon
  <2>2. DOMAIN <<>> = {} /\ Ways!IsFiniteSet({})
    BY FS_EmptySet DEF IsFiniteSet, Ways!IsFiniteSet
  <2>3. Ways!Chooses({})
    BY DEF Ways!Chooses
  <2>4. Ways!Fold(<<>>, b, {}) = b
    BY <2>2, <2>3, Ways!FoldEquation
  <2> QED BY <2>1, <2>2, <2>4
<1> QED BY <1>5, <1>6

(* The last element and the others.                                        *)
LEMMA LastAndFront ==
    ASSUME NEW S, NEW w \in Seq(S)
    PROVE  /\ w # <<>> => /\ Front(w) \in Seq(S) /\ Last(w) \in S /\ w = Append(Front(w), Last(w))
                          /\ Len(Front(w)) = Len(w) - 1 /\ Len(w) \in Nat /\ Len(w) >= 1
                          /\ \A i \in 1 .. Len(w) - 1 : Front(w)[i] = w[i]
           /\ \A e \in S : Front(Append(w, e)) = w /\ Last(Append(w, e)) = e
<1>1. ASSUME w # <<>>
      PROVE  /\ Front(w) \in Seq(S) /\ Last(w) \in S /\ w = Append(Front(w), Last(w))
             /\ Len(Front(w)) = Len(w) - 1 /\ Len(w) \in Nat /\ Len(w) >= 1
             /\ \A i \in 1 .. Len(w) - 1 : Front(w)[i] = w[i]
  <2>1. PICK f \in Seq(S) : /\ f = Front(w) /\ Len(f) = Len(w) - 1
                             /\ \A i \in 1 .. Len(f) : f[i] = w[i]
    BY <1>1, FrontOf
  <2>2. PICK n \in Nat : n = Len(w) /\ n >= 1
    BY <1>1, EmptySeq
  <2>3. PICK e \in S : e = w[n]
    <3>1. n \in 1 .. Len(w)
      BY <2>2
    <3> QED BY <3>1, ElementOfSeq
  <2> PICK a : a = Append(f, e)
    OBVIOUS
  <2>4. /\ a \in Seq(S) /\ a = Append(f, e) /\ Len(a) = Len(f) + 1 /\ a[Len(f) + 1] = e
        /\ \A i \in 1 .. Len(f) : a[i] = f[i]
    BY AppendProperties
  <2>5. Len(f) = n - 1
    BY <2>1, <2>2
  <2>6. Len(a) = n
    BY <2>2, <2>4, <2>5
  <2>7. \A i \in 1 .. n : w[i] = a[i]
    <3>1. a[n] = e
      BY <2>2, <2>4, <2>5
    <3>2. \A i \in 1 .. n - 1 : w[i] = a[i]
      BY <2>1, <2>4, <2>5
    <3>3. \A i \in 1 .. n : i = n \/ i \in 1 .. n - 1
      BY <2>2
    <3> QED BY <2>3, <3>1, <3>2, <3>3
  <2>8. w = a
    BY <2>2, <2>4, <2>6, <2>7, SeqEqual
  <2>9. Last(w) = e
    BY <2>2, <2>3 DEF Last
  <2> QED BY <2>1, <2>2, <2>4, <2>5, <2>8, <2>9
<1>2. ASSUME NEW e \in S PROVE Front(Append(w, e)) = w /\ Last(Append(w, e)) = e
  <2> PICK a : a = Append(w, e)
    OBVIOUS
  <2>1. /\ a \in Seq(S) /\ a = Append(w, e) /\ Len(a) = Len(w) + 1 /\ a[Len(w) + 1] = e
        /\ \A i \in 1 .. Len(w) : a[i] = w[i]
    BY AppendProperties
  <2>2. a # <<>>
    BY <2>1, AppendProperties
  <2>3. PICK f \in Seq(S) : /\ f = Front(a) /\ Len(f) = Len(a) - 1
                             /\ \A i \in 1 .. Len(f) : f[i] = a[i]
    BY <2>1, <2>2, FrontOf
  <2>4. Len(f) = Len(w)
    <3>1. PICK n \in Nat : n = Len(w)
      BY LenProperties
    <3> QED BY <2>1, <2>3, <3>1
  <2>5. f = w
    BY <2>1, <2>3, <2>4, SeqEqual
  <2> QED BY <2>1, <2>3, <2>5 DEF Last
<1> QED BY <1>1, <1>2

(* The recount of a word gives numbers.                                    *)
LEMMA WaysTyped ==
    ASSUME NEW d \in DiceCounts, NEW S, NEW word \in Seq(S)
    PROVE  /\ NoWays(TuplesOf[d]) \in [TuplesOf[d] -> Int]
           /\ WaysAmong(TuplesOf[d], word) \in [TuplesOf[d] -> Int]
<1> PICK T : T = TuplesOf[d]
  OBVIOUS
<1> PICK b : b = NoWays(T)
  OBVIOUS
<1>1. b \in [T -> Int]
  BY DEF NoWays
<1> PICK D : D = DOMAIN word
  OBVIOUS
<1>2. Ways!IsFiniteSet(D) /\ Ways!Chooses(D)
  <2>1. PICK n \in Nat : n = Len(word) /\ DOMAIN word = 1 .. n
    BY LenProperties
  <2> QED BY <2>1, FacesChosen
<1>3. CountsOf(T, {}, b)
  BY <1>1 DEF CountsOf
<1>4. ASSUME NEW U \in SUBSET D, NEW acc, U # {}, CountsOf(T, U \ {Max(U)}, acc)
      PROVE  CountsOf(T, U, Recount(word, At(word, Max(U)), acc))
  <2>1. acc \in [T -> Int]
    BY <1>4 DEF CountsOf
  <2> PICK o : o = At(word, Max(U))
    OBVIOUS
  <2>2. RestoreSuffix(acc, o) \in [T -> Int]
    BY <2>1, MovesTyped
  <2> QED BY <2>2 DEF CountsOf, Recount
<1>5. CountsOf(T, D, Ways!Fold(word, b, D))
  BY ONLY <1>2, <1>3, <1>4, Ways!FoldInvariant
<1>6. WaysAmong(T, word) \in [T -> Int]
  BY <1>5, WaysIsFold DEF CountsOf
<1> QED BY <1>1, <1>6

(* The one face of a word may be taken for its first or its last.          *)
LEMMA FirstFace ==
    ASSUME NEW d \in DiceCounts, NEW o
    PROVE  RestoreSuffix(NoWays(TuplesOf[d]), o) = RestorePrefix(NoWays(TuplesOf[d]), o)
<1> PICK T : T = TuplesOf[d]
  OBVIOUS
<1> PICK b : b = NoWays(T)
  OBVIOUS
<1>0. b \in [T -> Int] /\ \A q \in T : b[q] = IF q = <<>> THEN 1 ELSE 0
  BY DEF NoWays
<1>1. RestoreSuffix(b, o) \in [T -> Int] /\ RestorePrefix(b, o) \in [T -> Int]
  BY <1>0, MovesTyped
<1>2. ASSUME NEW q \in T PROVE RestoreSuffix(b, o)[q] = RestorePrefix(b, o)[q]
  <2>1. /\ RestorePrefix(b, o)[q] = IF Begins(q, o) THEN b[q] + b[Tail(q)] ELSE b[q]
        /\ RestoreSuffix(b, o)[q] = IF Ends(q, o) THEN b[q] + b[Front(q)] ELSE b[q]
        /\ b[q] \in Int
    BY <1>0, MovesAt
  <2>2. CASE Len(q) >= 2
    <3>1. Tail(q) # <<>> /\ Front(q) # <<>> /\ Tail(q) \in T /\ Front(q) \in T
      BY <2>2, LongTuples
    <3>2. b[Tail(q)] = 0 /\ b[Front(q)] = 0
      BY <1>0, <3>1
    <3> QED BY <2>1, <3>2
  <2>3. CASE ~ (Len(q) >= 2)
    <3>1. \/ ~ Begins(q, o) /\ ~ Ends(q, o)
          \/ Tail(q) = Front(q) /\ (Begins(q, o) <=> Ends(q, o))
      BY <2>3, OneOwner
    <3> QED BY <2>1, <3>1
  <2> QED BY <2>2, <2>3
<1> QED BY <1>1, <1>2

(* One face more in front.                                                 *)
LEMMA WaysPrepend ==
    ASSUME NEW d \in DiceCounts, NEW S, NEW o \in S, NEW word \in Seq(S)
    PROVE  WaysAmong(TuplesOf[d], <<o>> \o word) = RestorePrefix(WaysAmong(TuplesOf[d], word), o)
<1> PICK T : T = TuplesOf[d]
  OBVIOUS
<1> DEFINE Holds(w) == WaysAmong(T, <<o>> \o w) = RestorePrefix(WaysAmong(T, w), o)
           Fails == {Len(w) : w \in {v \in Seq(S) : ~ Holds(v)}}
<1>0. <<o>> \in Seq(S)
  OBVIOUS
<1>1. Holds(<<>>)
  <2>1. <<o>> \o <<>> = <<o>> /\ <<o>> = Append(<<>>, o) /\ <<>> \in Seq(S)
    BY <1>0, ConcatEmptySeq
  <2>2. WaysAmong(T, <<>>) = NoWays(T)
    BY <1>0, WaysAppend
  <2>3. WaysAmong(T, Append(<<>>, o)) = RestoreSuffix(NoWays(T), o)
    BY <2>1, <2>2, WaysAppend
  <2>4. RestoreSuffix(NoWays(T), o) = RestorePrefix(NoWays(T), o)
    BY FirstFace
  <2> QED BY <2>1, <2>2, <2>3, <2>4, Zenon
<1>2. ASSUME NEW v \in Seq(S), NEW p \in S, Holds(v) PROVE Holds(Append(v, p))
  <2>1. PICK u \in Seq(S) : u = <<o>> \o v
    BY <1>0, ConcatProperties
  <2>2. <<o>> \o Append(v, p) = Append(u, p)
    <3>1. <<p>> \in Seq(S) /\ Append(v, p) = v \o <<p>> /\ Append(u, p) = u \o <<p>>
      BY <2>1, AppendIsConcat
    <3>2. (<<o>> \o v) \o <<p>> = <<o>> \o (v \o <<p>>)
      BY <1>0, <3>1, ConcatAssociative
    <3> QED BY <2>1, <3>1, <3>2, Zenon
  <2> PICK c : c = WaysAmong(T, v)
    OBVIOUS
  <2>3. c \in [T -> Int]
    BY WaysTyped
  <2>4. WaysAmong(T, u) = RestorePrefix(c, o)
    BY <1>2, <2>1, Zenon
  <2>5. WaysAmong(T, Append(u, p)) = RestoreSuffix(WaysAmong(T, u), p)
    BY <2>1, WaysAppend, ZenonT(60)
  <2>6. WaysAmong(T, Append(v, p)) = RestoreSuffix(c, p)
    BY WaysAppend
  <2>7. RestoreSuffix(RestorePrefix(c, o), p) = RestorePrefix(RestoreSuffix(c, p), o)
    BY <2>3, RestoresCommute
  <2> QED BY <2>2, <2>4, <2>5, <2>6, <2>7, Zenon
<1>3. Fails = {}
  <2> SUFFICES ASSUME Fails # {} PROVE FALSE
    OBVIOUS
  <2>1. Fails \in SUBSET Nat
    BY LenProperties
  <2> HIDE DEF Fails
  <2>2. PICK n \in Fails : \A m \in Fails : n <= m
    BY <2>1, Ways!LeastNatural
  <2> USE DEF Fails
  <2> HIDE DEF Holds
  <2>3. PICK w \in Seq(S) : ~ Holds(w) /\ n = Len(w)
    BY Zenon
  <2>4. w # <<>>
    BY <1>1, <2>3
  <2>5. PICK v \in Seq(S), p \in S : w = Append(v, p) /\ Len(v) = Len(w) - 1
    BY <2>4, LastAndFront
  <2>6. Holds(v)
    <3>1. n \in Nat /\ Len(v) = n - 1
      BY <2>1, <2>3, <2>5
    <3>2. ~ (n <= Len(v))
      BY <3>1
    <3>3. Len(v) \notin Fails
      BY <2>2, <3>2
    <3> QED BY <3>3, Zenon
  <2> QED BY <1>2, <2>3, <2>5, <2>6, Zenon
<1> QED BY <1>3, Zenon

-----------------------------------------------------------------------------
(* Sums. *)

AddTo(c, x, y) == x + y
Anyone(S)      == CHOOSE x \in S : TRUE
OnlyOne(k, S, sum) == sum = IF k[1] \in S THEN k[2] ELSE 0
Sums == INSTANCE Folding WITH
    Op <- AddTo, Map <- At, Choose <- Anyone, Values <- Int, Inv <- OnlyOne

(* A sum is a fold.                                                        *)
LEMMA TotalIsFold == ASSUME NEW f, NEW S PROVE Total(f, S) = Sums!Fold(f, 0, S)
  BY Zenon DEF Total, MapThenSumSet, MapThenFoldSet, Sums!Fold, Sums!MapThenFoldSet,
               AddTo, At, Anyone

(* Any finite set can be summed over.                                      *)
LEMMA Summable ==
    ASSUME NEW S, IsFiniteSet(S)
    PROVE  Sums!IsFiniteSet(S) /\ Sums!Chooses(S)
  BY DEF IsFiniteSet, Sums!IsFiniteSet, Sums!Chooses, Anyone

(* A sum may be taken apart at any of its terms.                           *)
LEMMA TotalTakesOut ==
    ASSUME NEW S, IsFiniteSet(S), NEW f, \A i \in S : f[i] \in Int
    PROVE  /\ Total(f, S) \in Int
           /\ S = {} => Total(f, S) = 0
           /\ \A e \in S : Total(f, S) = f[e] + Total(f, S \ {e})
<1>1. Sums!IsFiniteSet(S) /\ Sums!Chooses(S)
  BY Summable
<1>2. Sums!Collects(f, 0, S)
  BY DEF Sums!Collects, At, AddTo
<1>3. /\ Sums!Fold(f, 0, S) \in Int
      /\ \A e \in S : Sums!Fold(f, 0, S) = AddTo(f, At(f, e), Sums!Fold(f, 0, S \ {e}))
  BY <1>1, <1>2, Sums!FoldTakeOut
<1>4. /\ Total(f, S) \in Int
      /\ \A e \in S : Total(f, S) = AddTo(f, At(f, e), Total(f, S \ {e}))
  BY <1>3, TotalIsFold
<1>5. S = {} => Sums!Fold(f, 0, S) = 0
  BY <1>1, Sums!FoldEquation
<1> QED BY <1>4, <1>5, TotalIsFold DEF AddTo, At

(* A sum of which one term counts.                                         *)
LEMMA TotalOfOne ==
    ASSUME NEW S, IsFiniteSet(S), NEW f, NEW e \in S, f[e] \in Int,
           \A x \in S : x # e => f[x] = 0
    PROVE  Total(f, S) = f[e]
<1>1. Sums!IsFiniteSet(S) /\ Sums!Chooses(S)
  BY Summable
<1> PICK k : k = <<e, f[e]>>
  OBVIOUS
<1>2. OnlyOne(k, {}, 0)
  BY DEF OnlyOne
<1>3. ASSUME NEW T \in SUBSET S, NEW sum, T # {}, OnlyOne(k, T \ {Anyone(T)}, sum)
      PROVE  OnlyOne(k, T, AddTo(f, At(f, Anyone(T)), sum))
  <2>1. PICK a \in T : a = Anyone(T)
    BY <1>3, Zenon DEF Anyone
  <2>2. sum = IF e \in T \ {a} THEN f[e] ELSE 0
    BY <1>3, <2>1 DEF OnlyOne
  <2>3. a # e => f[a] = 0
    OBVIOUS
  <2>4. f[a] + sum = IF e \in T THEN f[e] ELSE 0
    BY <2>2, <2>3
  <2> QED BY <2>1, <2>4 DEF OnlyOne, AddTo, At
<1>4. OnlyOne(k, S, Sums!Fold(f, 0, S))
  BY <1>1, <1>2, <1>3, Sums!FoldInvariant
<1> QED BY <1>4, TotalIsFold DEF OnlyOne

(* Two sums agree whose terms agree two by two.                            *)
LEMMA PairedTotals ==
    ASSUME NEW S, IsFiniteSet(S), NEW f \in [S -> Int], NEW g \in [S -> Int],
           NEW partner \in [S -> S],
           \A x \in S : /\ partner[partner[x]] = x
                        /\ f[x] + f[partner[x]] = g[x] + g[partner[x]]
    PROVE  Total(f, S) = Total(g, S)
<1> DEFINE Closed(T) == \A x \in T : partner[x] \in T
           Off == {T \in SUBSET S : Closed(T) /\ Total(f, T) # Total(g, T)}
<1>1. Off = {}
  <2> SUFFICES ASSUME Off # {} PROVE FALSE
    OBVIOUS
  <2>1. Off \in SUBSET (SUBSET S)
    OBVIOUS
  <2>2. PICK T \in Off : /\ Cardinality(T) \in Nat
                         /\ \A U \in Off : /\ Cardinality(U) \in Nat
                                           /\ Cardinality(T) <= Cardinality(U)
    <3> HIDE DEF Off
    <3>1. Sums!IsFiniteSet(S)
      BY Summable
    <3>2. PICK T \in Off : /\ Sums!Cardinality(T) \in Nat
                           /\ \A U \in Off : /\ Sums!Cardinality(U) \in Nat
                                             /\ Sums!Cardinality(T) <= Sums!Cardinality(U)
      BY ONLY <2>1, <3>1, Off # {}, Sums!FewestElements
    <3>3. \A U : Sums!Cardinality(U) = Cardinality(U)
      BY Zenon DEF Sums!Cardinality, Cardinality
    <3> QED BY <3>2, <3>3
  <2>3. T \in SUBSET S /\ Closed(T) /\ Total(f, T) # Total(g, T)
    OBVIOUS
  <2>4. IsFiniteSet(T)
    BY <2>3, FS_Subset
  <2>5. \A x \in T : x \in S /\ f[x] \in Int /\ g[x] \in Int
    BY <2>3
  <2>6. /\ Total(f, T) \in Int /\ Total(g, T) \in Int
        /\ T = {} => Total(f, T) = 0 /\ Total(g, T) = 0
        /\ \A e \in T : /\ Total(f, T) = f[e] + Total(f, T \ {e})
                        /\ Total(g, T) = g[e] + Total(g, T \ {e})
    <3>1. \A x \in T : f[x] \in Int
      BY <2>5
    <3>2. \A x \in T : g[x] \in Int
      BY <2>5
    <3>3. Total(f, T) \in Int /\ (T = {} => Total(f, T) = 0)
          /\ \A e \in T : Total(f, T) = f[e] + Total(f, T \ {e})
      BY <2>4, <3>1, TotalTakesOut
    <3>4. Total(g, T) \in Int /\ (T = {} => Total(g, T) = 0)
          /\ \A e \in T : Total(g, T) = g[e] + Total(g, T \ {e})
      BY <2>4, <3>2, TotalTakesOut
    <3> QED BY <3>3, <3>4
  <2>7. PICK e \in T : TRUE
    BY <2>3, <2>6
  <2>8. PICK p \in T : p = partner[e] /\ partner[p] = e /\ f[e] + f[p] = g[e] + g[p]
    BY <2>3, <2>5, <2>7
  <2>9. IsFiniteSet(T \ {e}) /\ Cardinality(T \ {e}) = Cardinality(T) - 1
    BY <2>4, FS_RemoveElement
  <2>10. \A x \in T : x # e /\ x # p => partner[x] \in T /\ partner[x] # e /\ partner[x] # p
    BY <2>3, <2>5, <2>8
  <2>11. CASE p = e
    <3>1. f[e] = g[e]
      <4>1. \A x, y \in Int : x + x = y + y => x = y
        OBVIOUS
      <4>2. f[e] \in Int /\ g[e] \in Int /\ f[e] + f[e] = g[e] + g[e]
        BY <2>5, <2>8, <2>11
      <4> QED BY <4>1, <4>2
    <3> PICK U : U = T \ {e}
      OBVIOUS
    <3>2. U \in SUBSET S /\ Closed(U)
      BY <2>3, <2>10, <2>11
    <3>3. U \notin Off
      <4>1. Cardinality(U) = Cardinality(T) - 1
        BY <2>9
      <4>2. ~ (Cardinality(T) <= Cardinality(U))
        BY <2>2, <4>1
      <4> HIDE DEF Off
      <4> QED BY <2>2, <4>2
    <3>4. Total(f, U) = Total(g, U)
      BY <3>2, <3>3
    <3> QED BY <2>3, <2>6, <3>1, <3>4
  <2>12. CASE p # e
    <3> PICK V : V = T \ {e}
      OBVIOUS
    <3> PICK U : U = V \ {p}
      OBVIOUS
    <3>1. p \in V /\ IsFiniteSet(V) /\ Cardinality(V) = Cardinality(T) - 1
      BY <2>9, <2>12
    <3>2. Cardinality(U) = Cardinality(V) - 1
      BY <3>1, FS_RemoveElement
    <3>3. U \in SUBSET S /\ Closed(U)
      BY <2>3, <2>10
    <3>4. U \notin Off
      <4>1. ~ (Cardinality(T) <= Cardinality(U))
        BY <2>2, <3>1, <3>2
      <4> HIDE DEF Off
      <4> QED BY <2>2, <4>1
    <3>5. Total(f, U) = Total(g, U)
      BY <3>3, <3>4
    <3>6. IsFiniteSet(U) /\ (\A x \in V : f[x] \in Int) /\ (\A x \in V : g[x] \in Int)
          /\ (\A x \in U : f[x] \in Int)
      BY <2>5, <3>1, FS_RemoveElement
    <3>7. Total(f, V) = f[p] + Total(f, U)
      BY <3>1, <3>6, TotalTakesOut
    <3>8. Total(g, V) = g[p] + Total(g, U)
      BY <3>1, <3>6, TotalTakesOut
    <3>9. Total(f, U) \in Int
      BY <3>6, TotalTakesOut
    <3>10. Total(f, T) = f[e] + (f[p] + Total(f, U)) /\ Total(g, T) = g[e] + (g[p] + Total(f, U))
      BY <2>6, <3>5, <3>7, <3>8
    <3>11. f[e] \in Int /\ f[p] \in Int /\ g[e] \in Int /\ g[p] \in Int
      BY <2>5
    <3>12. \A a, b, c, h, t \in Int : a + b = c + h => a + (b + t) = c + (h + t)
      OBVIOUS
    <3> QED BY <2>3, <2>8, <3>9, <3>10, <3>11, <3>12
  <2> QED BY <2>11, <2>12
<1>2. Closed(S)
  OBVIOUS
<1>3. S \notin Off
  BY <1>1
<1> QED BY <1>2, <1>3

-----------------------------------------------------------------------------
(* What is put together from the two ends and the middle. *)

(* The cuts of an order in three.                                          *)
LEMMA CutsFinite ==
    ASSUME NEW d \in DiceCounts, NEW q \in TuplesOf[d]
    PROVE  /\ q \in Seq(0 .. d - 1) /\ Len(q) \in Nat
           /\ IsFiniteSet(Cuts(q))
           /\ \A c : c \in Cuts(q) <=> \E a, b \in 0 .. Len(q) : a <= b /\ c = <<a, b>>
<1>1. q \in Seq(0 .. d - 1) /\ Len(q) \in Nat
  BY TuplesAre DEF IsTuple
<1>2. IsFiniteSet(0 .. Len(q))
  BY <1>1, FS_Interval
<1>3. IsFiniteSet((0 .. Len(q)) \X (0 .. Len(q)))
  BY <1>2, FS_Product
<1>4. IsFiniteSet(Cuts(q))
  BY <1>3, FS_Subset DEF Cuts
<1> QED BY <1>1, <1>4 DEF Cuts

(* A piece of a tuple.                                                     *)
LEMMA PieceSeq ==
    ASSUME NEW d \in DiceCounts, NEW q \in TuplesOf[d],
           NEW a \in Nat, NEW b \in Nat, a <= b, b <= Len(q)
    PROVE  \E r \in TuplesOf[d] :
               /\ r = Piece(q, a, b) /\ r \in Seq(0 .. d - 1) /\ Len(r) = b - a
               /\ \A i \in 1 .. Len(r) : r[i] = q[a + i]
<1>1. PICK n \in Nat : n = Len(q) /\ q \in Seq(0 .. d - 1)
  BY CutsFinite
<1> PICK k \in Int : k = a + 1
  OBVIOUS
<1> PICK r : r = SubSeq(q, k, b)
  OBVIOUS
<1>2. k \in 1 .. Len(q) + 1 /\ b \in 0 .. Len(q)
  BY <1>1
<1>3. r \in TuplesOf[d]
  BY <1>2, TupleParts
<1>4. \A i \in k .. b : q[i] \in 0 .. d - 1
  <2>1. \A i \in k .. b : i \in 1 .. Len(q)
    BY <1>1
  <2> QED BY <1>1, <2>1, ElementOfSeq
<1>5. /\ r \in Seq(0 .. d - 1)
      /\ Len(r) = IF k <= b THEN b - k + 1 ELSE 0
      /\ \A i \in 1 .. b - k + 1 : r[i] = q[k + i - 1]
  BY <1>4, SubSeqProperties
<1>6. Len(r) = b - a
  BY <1>5
<1>7. \A i \in 1 .. Len(r) : i \in 1 .. b - k + 1 /\ k + i - 1 = a + i
  BY <1>6
<1>8. r = Piece(q, a, b)
  BY DEF Piece
<1> QED BY <1>3, <1>5, <1>6, <1>7, <1>8

(* The ends of a piece.                                                    *)
LEMMA PieceEnds ==
    ASSUME NEW d \in DiceCounts, NEW q \in TuplesOf[d],
           NEW a \in Nat, NEW b \in Nat, a <= b, b <= Len(q), NEW o
    PROVE  /\ Piece(q, a, b) \in TuplesOf[d]
           /\ Begins(Piece(q, a, b), o) <=> a < b /\ q[a + 1] = o
           /\ Ends(Piece(q, a, b), o) <=> a < b /\ q[b] = o
           /\ a = b => Piece(q, a, b) = <<>>
<1>1. PICK r \in TuplesOf[d] : /\ r = Piece(q, a, b) /\ r \in Seq(0 .. d - 1) /\ Len(r) = b - a
                               /\ \A i \in 1 .. Len(r) : r[i] = q[a + i]
  BY PieceSeq
<1>2. a < b => r # <<>> /\ Head(r) = q[a + 1] /\ Last(r) = q[b]
  <2> SUFFICES ASSUME a < b PROVE r # <<>> /\ Head(r) = q[a + 1] /\ Last(r) = q[b]
    OBVIOUS
  <2>1. 1 \in 1 .. Len(r) /\ Len(r) \in 1 .. Len(r) /\ a + Len(r) = b
    BY <1>1
  <2>2. r # <<>> /\ Head(r) = r[1]
    <3>1. r # <<>>
      BY <2>1, EmptySeq
    <3> QED BY <1>1, <3>1
  <2> QED BY <1>1, <2>1, <2>2 DEF Last
<1>3. a = b => r = <<>>
  BY <1>1, EmptySeq
<1>4. a < b \/ a = b
  OBVIOUS
<1>5. Begins(r, o) <=> a < b /\ q[a + 1] = o
  BY <1>2, <1>3, <1>4 DEF Begins
<1>6. Ends(r, o) <=> a < b /\ q[b] = o
  BY <1>2, <1>3, <1>4 DEF Ends
<1> QED BY <1>1, <1>3, <1>5, <1>6, Zenon

(* A piece without its first owner.                                        *)
LEMMA PieceTail ==
    ASSUME NEW d \in DiceCounts, NEW q \in TuplesOf[d],
           NEW a \in Nat, NEW b \in Nat, a < b, b <= Len(q), NEW m \in Nat, m = a + 1
    PROVE  Tail(Piece(q, a, b)) = Piece(q, m, b)
<1>1. q \in Seq(0 .. d - 1) /\ Len(q) \in Nat
  BY CutsFinite
<1>2. m \in 1 .. Len(q) /\ b \in m .. Len(q)
  BY <1>1
<1>3. Tail(SubSeq(q, m, b)) = SubSeq(q, m + 1, b)
  BY <1>1, <1>2, HeadTailOfSubSeq
<1> QED BY <1>3, Zenon DEF Piece

(* A piece without its last owner.                                         *)
LEMMA PieceFront ==
    ASSUME NEW d \in DiceCounts, NEW q \in TuplesOf[d],
           NEW a \in Nat, NEW b \in Nat, a < b, b <= Len(q), NEW m \in Nat, b = m + 1
    PROVE  Front(Piece(q, a, b)) = Piece(q, a, m)
<1>0. a <= b
  OBVIOUS
<1>1. PICK r \in TuplesOf[d] : /\ r = Piece(q, a, b) /\ r \in Seq(0 .. d - 1) /\ Len(r) = b - a
                               /\ \A i \in 1 .. Len(r) : r[i] = q[a + i]
  BY <1>0, PieceSeq
<1>2. a <= m /\ m <= Len(q)
  <2>1. Len(q) \in Nat
    BY CutsFinite
  <2> QED BY <2>1
<1>3. PICK s \in TuplesOf[d] : /\ s = Piece(q, a, m) /\ s \in Seq(0 .. d - 1) /\ Len(s) = m - a
                               /\ \A i \in 1 .. Len(s) : s[i] = q[a + i]
  BY <1>2, PieceSeq
<1>4. r # <<>>
  BY <1>1, EmptySeq
<1>5. PICK f \in Seq(0 .. d - 1) : f = Front(r) /\ Len(f) = Len(r) - 1
                                   /\ \A i \in 1 .. Len(f) : f[i] = r[i]
  <2>1. r \in Seq(0 .. d - 1)
    BY <1>1
  <2> QED BY ONLY <1>4, <2>1, FrontOf
<1>6. Len(f) = Len(s) /\ \A i \in 1 .. Len(f) : i \in 1 .. Len(r) /\ i \in 1 .. Len(s)
  BY <1>1, <1>3, <1>5
<1>7. f = s
  <2>1. \A i \in 1 .. Len(f) : f[i] = s[i]
    BY <1>1, <1>3, <1>5, <1>6
  <2> QED BY ONLY <1>3, <1>5, <1>6, <2>1, SeqEqual
<1> QED BY <1>1, <1>3, <1>5, <1>7

(* The last owner of a piece.                                              *)
LEMMA PieceLast ==
    ASSUME NEW d \in DiceCounts, NEW q \in TuplesOf[d],
           NEW a \in Nat, NEW b \in Nat, a <= b, b <= Len(q), NEW o
    PROVE  Ends(Piece(q, a, b), o) <=> a < b /\ q[b] = o
  BY PieceEnds

(* What the first owners of a tuple make up.                               *)
LEMMA FirstPiece ==
    ASSUME NEW d \in DiceCounts, NEW q \in TuplesOf[d], NEW a \in Nat, a <= Len(q), NEW o
    PROVE  /\ Ends(Piece(q, 0, a), o) <=> 0 < a /\ q[a] = o
           /\ Piece(q, 0, a) \in TuplesOf[d]
           /\ \A m \in Nat : a = m + 1 => Front(Piece(q, 0, a)) = Piece(q, 0, m)
<1>1. ASSUME NEW z \in Nat, z <= a
      PROVE  (Ends(Piece(q, z, a), o) <=> z < a /\ q[a] = o) /\ Piece(q, z, a) \in TuplesOf[d]
  BY <1>1, PieceEnds
<1>2. ASSUME NEW z \in Nat, z < a, NEW m \in Nat, a = m + 1
      PROVE  Front(Piece(q, z, a)) = Piece(q, z, m)
  BY <1>2, PieceFront
<1> QED BY <1>1, <1>2

(* What the last owners of a tuple make up.                                *)
LEMMA LastPiece ==
    ASSUME NEW d \in DiceCounts, NEW q \in TuplesOf[d], NEW n \in Nat, n = Len(q),
           NEW b \in Nat, b <= n, NEW o
    PROVE  /\ Begins(Piece(q, b, n), o) <=> b < n /\ q[b + 1] = o
           /\ Piece(q, b, n) \in TuplesOf[d]
           /\ \A m \in Nat : m = b + 1 /\ b < n => Tail(Piece(q, b, n)) = Piece(q, m, n)
<1>1. ASSUME NEW z \in Nat, b <= z, z <= Len(q)
      PROVE  (Begins(Piece(q, b, z), o) <=> b < z /\ q[b + 1] = o) /\ Piece(q, b, z) \in TuplesOf[d]
  BY <1>1, PieceEnds
<1>2. ASSUME NEW z \in Nat, b < z, z <= Len(q), NEW m \in Nat, m = b + 1
      PROVE  Tail(Piece(q, b, z)) = Piece(q, m, z)
  BY <1>2, PieceTail
<1> QED BY <1>1, <1>2

-----------------------------------------------------------------------------
(* The terms of the sum over the cuts.                                     *)
Value(B, M, E, q, c) ==
    B[Piece(q, 0, c[1])] * M[Piece(q, c[1], c[2])] * E[Piece(q, c[2], Len(q))]

(* The counts of the three pieces are numbers.                             *)
LEMMA PieceTyped ==
    ASSUME NEW d \in DiceCounts, NEW B \in [TuplesOf[d] -> Int], NEW M \in [TuplesOf[d] -> Int],
           NEW E \in [TuplesOf[d] -> Int], NEW q \in TuplesOf[d], NEW c \in Cuts(q)
    PROVE  /\ B[Piece(q, 0, c[1])] \in Int /\ M[Piece(q, c[1], c[2])] \in Int
           /\ E[Piece(q, c[2], Len(q))] \in Int
<1>1. PICK n \in Nat : n = Len(q) /\ n <= Len(q)
  BY CutsFinite
<1>2. PICK a, b \in 0 .. n : a <= b /\ c = <<a, b>>
  BY <1>1, CutsFinite
<1>3. a \in Nat /\ b \in Nat /\ 0 <= a /\ b <= n /\ c[1] = a /\ c[2] = b /\ a <= n
  BY <1>2
<1>4. Piece(q, 0, a) \in TuplesOf[d]
  BY <1>1, <1>2, <1>3, PieceEnds
<1>5. Piece(q, a, b) \in TuplesOf[d]
  BY <1>1, <1>2, <1>3, PieceEnds
<1>6. Piece(q, b, n) \in TuplesOf[d]
  BY <1>1, <1>2, <1>3, PieceEnds
<1> QED BY <1>1, <1>3, <1>4, <1>5, <1>6

(* So are the terms of the sum over the cuts.                              *)
LEMMA PiecesTyped ==
    ASSUME NEW d \in DiceCounts, NEW B \in [TuplesOf[d] -> Int], NEW M \in [TuplesOf[d] -> Int],
           NEW E \in [TuplesOf[d] -> Int], NEW q \in TuplesOf[d]
    PROVE  Pieces(B, M, E, q) \in [Cuts(q) -> Int]
<1> DEFINE v(x) == Value(B, M, E, q, x)
<1>1. Pieces(B, M, E, q) = [x \in Cuts(q) |-> v(x)]
  BY DEF Pieces, Value
<1>2. ASSUME NEW x \in Cuts(q) PROVE v(x) \in Int
  <2>1. \A i, j, k \in Int : i * j * k \in Int
    OBVIOUS
  <2>2. /\ B[Piece(q, 0, x[1])] \in Int /\ M[Piece(q, x[1], x[2])] \in Int
        /\ E[Piece(q, x[2], Len(q))] \in Int
    BY PieceTyped
  <2> QED BY <2>1, <2>2 DEF Value
<1> HIDE DEF v
<1> QED BY <1>1, <1>2

(* The term of a cut.                                                      *)
LEMMA PieceValue ==
    ASSUME NEW B, NEW M, NEW E, NEW q, NEW c \in Cuts(q)
    PROVE  Pieces(B, M, E, q)[c] = Value(B, M, E, q, c)
<1> DEFINE v(x) == Value(B, M, E, q, x)
<1>1. Pieces(B, M, E, q) = [x \in Cuts(q) |-> v(x)]
  BY DEF Pieces, Value
<1> HIDE DEF v
<1>2. Pieces(B, M, E, q)[c] = v(c)
  BY <1>1
<1> QED BY <1>2, Zenon DEF v

(* A face that goes from the middle to the left end leaves the whole.      *)
LEMMA JoinLeft ==
    ASSUME NEW d \in DiceCounts, NEW B \in [TuplesOf[d] -> Int], NEW M \in [TuplesOf[d] -> Int],
           NEW E \in [TuplesOf[d] -> Int], NEW q \in TuplesOf[d], NEW o
    PROVE  Joined(RestoreSuffix(B, o), SubtractPrefix(M, o), E, q) = Joined(B, M, E, q)
<1>0. PICK n \in Nat : n = Len(q)
  BY CutsFinite
<1> PICK T : T = TuplesOf[d]
  OBVIOUS
<1> PICK C : C = Cuts(q)
  OBVIOUS
<1> PICK B1 : B1 = RestoreSuffix(B, o)
  OBVIOUS
<1> PICK M1 : M1 = SubtractPrefix(M, o)
  OBVIOUS
<1> PICK f : f = Pieces(B1, M1, E, q)
  OBVIOUS
<1> PICK g : g = Pieces(B, M, E, q)
  OBVIOUS
<1> DEFINE Next1(a, b) == a < b /\ q[a + 1] = o
           Last1(a)    == a > 0 /\ q[a] = o
<1>1. B1 \in [T -> Int] /\ M1 \in [T -> Int]
  BY MovesTyped
<1>2. /\ f \in [C -> Int] /\ g \in [C -> Int]
      /\ \A c \in C : f[c] = Value(B1, M1, E, q, c) /\ g[c] = Value(B, M, E, q, c)
  <2>0. B1 \in [TuplesOf[d] -> Int] /\ M1 \in [TuplesOf[d] -> Int]
    BY <1>1
  <2>1. f \in [C -> Int] /\ \A c \in C : f[c] = Value(B1, M1, E, q, c)
    <3>1. f \in [C -> Int]
      BY <2>0, PiecesTyped
    <3>2. \A c \in C : f[c] = Value(B1, M1, E, q, c)
      BY PieceValue
    <3> QED BY <3>1, <3>2
  <2>2. g \in [C -> Int] /\ \A c \in C : g[c] = Value(B, M, E, q, c)
    BY PiecesTyped, PieceValue
  <2> QED BY <2>1, <2>2
<1>3. ASSUME NEW a \in 0 .. n, NEW b \in 0 .. n, a <= b
      PROVE  /\ <<a, b>> \in C
             /\ f[<<a, b>>] = B1[Piece(q, 0, a)] * M1[Piece(q, a, b)] * E[Piece(q, b, n)]
             /\ g[<<a, b>>] = B[Piece(q, 0, a)] * M[Piece(q, a, b)] * E[Piece(q, b, n)]
             /\ B[Piece(q, 0, a)] \in Int /\ M[Piece(q, a, b)] \in Int /\ E[Piece(q, b, n)] \in Int
             /\ ~ Last1(a) => B1[Piece(q, 0, a)] = B[Piece(q, 0, a)]
             /\ \A m \in Nat : a = m + 1 /\ q[a] = o =>
                    B1[Piece(q, 0, a)] = B[Piece(q, 0, a)] + B[Piece(q, 0, m)]
             /\ ~ Next1(a, b) => M1[Piece(q, a, b)] = M[Piece(q, a, b)]
             /\ \A m \in Nat : m = a + 1 /\ Next1(a, b) =>
                    M1[Piece(q, a, b)] = M[Piece(q, a, b)] - M[Piece(q, m, b)]
  <2>1. a \in Nat /\ b \in Nat /\ 0 <= a /\ a <= Len(q) /\ b <= Len(q) /\ 0 \in Nat
    BY <1>0
  <2> PICK c : c = <<a, b>>
    OBVIOUS
  <2>2. c \in C /\ c[1] = a /\ c[2] = b
    BY <1>0, <1>3, CutsFinite
  <2> PICK x : x = Piece(q, 0, a)
    OBVIOUS
  <2> PICK y : y = Piece(q, a, b)
    OBVIOUS
  <2> PICK z : z = Piece(q, b, n)
    OBVIOUS
  <2>3. f[c] = B1[x] * M1[y] * E[z] /\ g[c] = B[x] * M[y] * E[z]
    <3>1. f[c] = Value(B1, M1, E, q, c) /\ g[c] = Value(B, M, E, q, c)
      BY <1>2, <2>2
    <3> HIDE DEF Next1, Last1
    <3> QED BY <1>0, <2>2, <3>1, Zenon DEF Value
  <2>4. B[x] \in Int /\ M[y] \in Int /\ E[z] \in Int
    <3> HIDE DEF Next1, Last1
    <3>1. /\ B[Piece(q, 0, c[1])] \in Int /\ M[Piece(q, c[1], c[2])] \in Int
          /\ E[Piece(q, c[2], Len(q))] \in Int
      BY <2>2, PieceTyped
    <3> QED BY <1>0, <2>2, <3>1, Zenon
  <2>5. x \in T /\ (Ends(x, o) <=> Last1(a))
    <3>1. x \in T /\ (Ends(x, o) <=> 0 < a /\ q[a] = o)
      BY <2>1, FirstPiece, ZenonT(60)
    <3> QED BY <2>1, <3>1
  <2>6. y \in T /\ (Begins(y, o) <=> Next1(a, b))
    BY <1>3, <2>1, PieceEnds, ZenonT(60)
  <2>7. ASSUME NEW m \in Nat, a = m + 1 PROVE Front(x) = Piece(q, 0, m)
    BY <2>1, <2>7, FirstPiece, ZenonT(60)
  <2>8. ASSUME NEW m \in Nat, m = a + 1, Next1(a, b) PROVE Tail(y) = Piece(q, m, b)
    BY <2>1, <2>8, PieceTail
  <2>9. B1[x] = IF Ends(x, o) THEN B[x] + B[Front(x)] ELSE B[x]
    <3> HIDE DEF Next1, Last1
    <3> QED BY <2>5, MovesAt
  <2>10. M1[y] = IF Begins(y, o) THEN M[y] - M[Tail(y)] ELSE M[y]
    <3> HIDE DEF Next1, Last1
    <3> QED BY <2>6, MovesAt
  <2>11. ~ Last1(a) => B1[x] = B[x]
    BY <2>5, <2>9, Zenon
  <2>12. ASSUME NEW m \in Nat, a = m + 1, q[a] = o PROVE B1[x] = B[x] + B[Piece(q, 0, m)]
    <3>1. Last1(a)
      BY <2>12
    <3>2. Front(x) = Piece(q, 0, m)
      BY <2>7, <2>12
    <3> QED BY <2>5, <2>9, <3>1, <3>2, Zenon
  <2>13. ~ Next1(a, b) => M1[y] = M[y]
    BY <2>6, <2>10, Zenon
  <2>14. ASSUME NEW m \in Nat, m = a + 1, Next1(a, b) PROVE M1[y] = M[y] - M[Piece(q, m, b)]
    <3>1. Tail(y) = Piece(q, m, b)
      BY <2>8, <2>14
    <3> QED BY <2>6, <2>10, <2>14, <3>1, Zenon
  <2> HIDE DEF Next1, Last1
  <2> QED BY <2>2, <2>3, <2>4, <2>11, <2>12, <2>13, <2>14, ZenonT(60)
<1>4. \A i, j \in 1 .. n : q[i] = q[j] => i = j
  BY <1>0, TuplesAre DEF IsTuple
<1> DEFINE over(c) == IF Next1(c[1], c[2]) THEN <<c[1] + 1, c[2]>>
                      ELSE IF Last1(c[1]) THEN <<c[1] - 1, c[2]>> ELSE c
           partner == [c \in C |-> over(c)]
<1>5. ASSUME NEW a \in 0 .. n, NEW b \in 0 .. n, NEW m \in 0 .. n, m = a + 1, m <= b, q[m] = o
      PROVE  /\ <<a, b>> \in C /\ <<m, b>> \in C
             /\ over(<<a, b>>) = <<m, b>> /\ over(<<m, b>>) = <<a, b>>
             /\ f[<<a, b>>] + f[<<m, b>>] = g[<<a, b>>] + g[<<m, b>>]
  <2>1. a < b /\ a <= b /\ m \in 1 .. n /\ m > 0 /\ a \in Nat /\ m \in Nat /\ m - 1 = a
    BY <1>5
  <2>2. ~ Last1(a)
    <3> SUFFICES ASSUME a > 0, q[a] = o PROVE FALSE
      OBVIOUS
    <3>1. a \in 1 .. n /\ a # m
      BY <1>5
    <3> QED BY <1>4, <1>5, <2>1, <3>1
  <2>3. ~ Next1(m, b)
    <3> SUFFICES ASSUME m < b, q[m + 1] = o PROVE FALSE
      OBVIOUS
    <3>1. m + 1 \in 1 .. n /\ m + 1 # m
      BY <2>1
    <3> QED BY <1>4, <1>5, <2>1, <3>1
  <2>4. Next1(a, b) /\ Last1(m)
    BY <1>5, <2>1
  <2>5. over(<<a, b>>) = <<m, b>>
    BY <1>5, <2>4
  <2>6. over(<<m, b>>) = <<a, b>>
    <3> HIDE DEF Next1, Last1
    <3> QED BY <2>1, <2>3, <2>4
  <2> HIDE DEF Next1, Last1, over
  <2> PICK x : x = B[Piece(q, 0, a)]
    OBVIOUS
  <2> PICK y : y = B[Piece(q, 0, m)]
    OBVIOUS
  <2> PICK u : u = M[Piece(q, a, b)]
    OBVIOUS
  <2> PICK v : v = M[Piece(q, m, b)]
    OBVIOUS
  <2> PICK e : e = E[Piece(q, b, n)]
    OBVIOUS
  <2>7. /\ <<a, b>> \in C /\ x \in Int /\ u \in Int /\ e \in Int
        /\ f[<<a, b>>] = B1[Piece(q, 0, a)] * M1[Piece(q, a, b)] * e
        /\ g[<<a, b>>] = x * u * e
    BY <1>3, <2>1
  <2>8. /\ <<m, b>> \in C /\ y \in Int /\ v \in Int
        /\ f[<<m, b>>] = B1[Piece(q, 0, m)] * M1[Piece(q, m, b)] * e
        /\ g[<<m, b>>] = y * v * e
    BY <1>3, <1>5
  <2>9. B1[Piece(q, 0, a)] = x /\ M1[Piece(q, a, b)] = u - v
    BY <1>3, <1>5, <2>1, <2>2, <2>4, ZenonT(60)
  <2>10. B1[Piece(q, 0, m)] = y + x /\ M1[Piece(q, m, b)] = v
    BY <1>3, <1>5, <2>1, <2>3, ZenonT(60)
  <2>11. f[<<a, b>>] + f[<<m, b>>] = g[<<a, b>>] + g[<<m, b>>]
    <3>0. x \in Int /\ y \in Int /\ u \in Int /\ v \in Int /\ e \in Int
      BY <2>7, <2>8
    <3>1. x * (u - v) * e + (y + x) * v * e = x * u * e + y * v * e
      BY ONLY <3>0
    <3>2. f[<<a, b>>] = x * (u - v) * e /\ f[<<m, b>>] = (y + x) * v * e
      BY <2>7, <2>8, <2>9, <2>10, Zenon
    <3> QED BY <2>7, <2>8, <3>1, <3>2, Zenon
  <2> QED BY <2>5, <2>6, <2>7, <2>8, <2>11, Zenon
<1>6. ASSUME NEW c \in C
      PROVE  /\ over(c) \in C /\ over(over(c)) = c
             /\ f[c] + f[over(c)] = g[c] + g[over(c)]
  <2>1. PICK a \in 0 .. n, b \in 0 .. n : a <= b /\ c = <<a, b>>
    BY <1>0, CutsFinite
  <2>2. f[c] \in Int /\ g[c] \in Int
    BY <1>2
  <2>3. CASE Next1(a, b)
    <3>1. PICK m \in 0 .. n : m = a + 1 /\ m <= b /\ q[m] = o
      BY <2>1, <2>3
    <3>2. /\ <<m, b>> \in C
          /\ over(<<a, b>>) = <<m, b>> /\ over(<<m, b>>) = <<a, b>>
          /\ f[<<a, b>>] + f[<<m, b>>] = g[<<a, b>>] + g[<<m, b>>]
      <4> HIDE DEF over, Next1, Last1
      <4> QED BY <1>5, <3>1
    <3> HIDE DEF over
    <3> QED BY <2>1, <3>2, Zenon
  <2>4. CASE ~ Next1(a, b) /\ Last1(a)
    <3>1. PICK m \in 0 .. n : a = m + 1 /\ q[a] = o
      <4>1. a - 1 \in 0 .. n /\ a = (a - 1) + 1
        BY <2>4
      <4> QED BY <2>4, <4>1
    <3>2. /\ <<m, b>> \in C
          /\ over(<<m, b>>) = <<a, b>> /\ over(<<a, b>>) = <<m, b>>
          /\ f[<<m, b>>] + f[<<a, b>>] = g[<<m, b>>] + g[<<a, b>>]
      <4> HIDE DEF over, Next1, Last1
      <4> QED BY <1>5, <2>1, <3>1
    <3>3. f[<<m, b>>] \in Int /\ g[<<m, b>>] \in Int
      BY <1>2, <3>2
    <3> HIDE DEF over, Next1, Last1
    <3>4. f[c] + f[<<m, b>>] = g[c] + g[<<m, b>>]
      BY <2>1, <2>2, <3>2, <3>3
    <3> QED BY <2>1, <3>2, <3>4, Zenon
  <2>5. CASE ~ Next1(a, b) /\ ~ Last1(a)
    <3>1. over(c) = c
      <4>1. c[1] = a /\ c[2] = b
        BY <2>1
      <4> HIDE DEF Next1, Last1
      <4> QED BY <2>5, <4>1
    <3>2. B1[Piece(q, 0, a)] = B[Piece(q, 0, a)] /\ M1[Piece(q, a, b)] = M[Piece(q, a, b)]
      <4> HIDE DEF Next1, Last1
      <4> QED BY <1>3, <2>1, <2>5
    <3>3. f[c] = g[c]
      BY <1>3, <2>1, <3>2
    <3> HIDE DEF over
    <3> QED BY <3>1, <3>3, Zenon
  <2> QED BY <2>3, <2>4, <2>5
<1>7. Total(f, C) = Total(g, C)
  <2> HIDE DEF over
  <2>1. partner \in [C -> C] /\ \A c \in C : partner[c] = over(c)
    BY <1>6
  <2> HIDE DEF partner
  <2>2. \A c \in C : partner[partner[c]] = c /\ f[c] + f[partner[c]] = g[c] + g[partner[c]]
    BY <1>6, <2>1
  <2>3. IsFiniteSet(C)
    BY CutsFinite
  <2> QED BY <1>2, <2>1, <2>2, <2>3, PairedTotals
<1> QED BY <1>7, Zenon DEF Joined

(* So does one that goes from the middle to the right end.                 *)
LEMMA JoinRight ==
    ASSUME NEW d \in DiceCounts, NEW B \in [TuplesOf[d] -> Int], NEW M \in [TuplesOf[d] -> Int],
           NEW E \in [TuplesOf[d] -> Int], NEW q \in TuplesOf[d], NEW o
    PROVE  Joined(B, SubtractSuffix(M, o), RestorePrefix(E, o), q) = Joined(B, M, E, q)
<1>0. PICK n \in Nat : n = Len(q)
  BY CutsFinite
<1> PICK T : T = TuplesOf[d]
  OBVIOUS
<1> PICK C : C = Cuts(q)
  OBVIOUS
<1> PICK E1 : E1 = RestorePrefix(E, o)
  OBVIOUS
<1> PICK M1 : M1 = SubtractSuffix(M, o)
  OBVIOUS
<1> PICK f : f = Pieces(B, M1, E1, q)
  OBVIOUS
<1> PICK g : g = Pieces(B, M, E, q)
  OBVIOUS
<1> DEFINE Prev1(a, b) == a < b /\ q[b] = o
           First1(b)   == b < n /\ q[b + 1] = o
<1>1. E1 \in [T -> Int] /\ M1 \in [T -> Int]
  BY MovesTyped
<1>2. /\ f \in [C -> Int] /\ g \in [C -> Int]
      /\ \A c \in C : f[c] = Value(B, M1, E1, q, c) /\ g[c] = Value(B, M, E, q, c)
  <2>0. E1 \in [TuplesOf[d] -> Int] /\ M1 \in [TuplesOf[d] -> Int]
    BY <1>1
  <2>1. f \in [C -> Int] /\ \A c \in C : f[c] = Value(B, M1, E1, q, c)
    <3>1. f \in [C -> Int]
      BY <2>0, PiecesTyped
    <3>2. \A c \in C : f[c] = Value(B, M1, E1, q, c)
      BY PieceValue
    <3> QED BY <3>1, <3>2
  <2>2. g \in [C -> Int] /\ \A c \in C : g[c] = Value(B, M, E, q, c)
    BY PiecesTyped, PieceValue
  <2> QED BY <2>1, <2>2
<1>3. ASSUME NEW a \in 0 .. n, NEW b \in 0 .. n, a <= b
      PROVE  /\ <<a, b>> \in C
             /\ f[<<a, b>>] = B[Piece(q, 0, a)] * M1[Piece(q, a, b)] * E1[Piece(q, b, n)]
             /\ g[<<a, b>>] = B[Piece(q, 0, a)] * M[Piece(q, a, b)] * E[Piece(q, b, n)]
             /\ B[Piece(q, 0, a)] \in Int /\ M[Piece(q, a, b)] \in Int /\ E[Piece(q, b, n)] \in Int
             /\ ~ First1(b) => E1[Piece(q, b, n)] = E[Piece(q, b, n)]
             /\ \A m \in Nat : m = b + 1 /\ First1(b) =>
                    E1[Piece(q, b, n)] = E[Piece(q, b, n)] + E[Piece(q, m, n)]
             /\ ~ Prev1(a, b) => M1[Piece(q, a, b)] = M[Piece(q, a, b)]
             /\ \A m \in Nat : b = m + 1 /\ Prev1(a, b) =>
                    M1[Piece(q, a, b)] = M[Piece(q, a, b)] - M[Piece(q, a, m)]
  <2>1. a \in Nat /\ b \in Nat /\ 0 <= a /\ a <= Len(q) /\ b <= Len(q) /\ b <= n /\ 0 \in Nat
    BY <1>0
  <2> PICK c : c = <<a, b>>
    OBVIOUS
  <2>2. c \in C /\ c[1] = a /\ c[2] = b
    BY <1>0, <1>3, CutsFinite
  <2> PICK x : x = Piece(q, 0, a)
    OBVIOUS
  <2> PICK y : y = Piece(q, a, b)
    OBVIOUS
  <2> PICK z : z = Piece(q, b, n)
    OBVIOUS
  <2>3. f[c] = B[x] * M1[y] * E1[z] /\ g[c] = B[x] * M[y] * E[z]
    <3>1. f[c] = Value(B, M1, E1, q, c) /\ g[c] = Value(B, M, E, q, c)
      BY <1>2, <2>2
    <3> HIDE DEF Prev1, First1
    <3> QED BY <1>0, <2>2, <3>1, Zenon DEF Value
  <2>4. B[x] \in Int /\ M[y] \in Int /\ E[z] \in Int
    <3> HIDE DEF Prev1, First1
    <3>1. /\ B[Piece(q, 0, c[1])] \in Int /\ M[Piece(q, c[1], c[2])] \in Int
          /\ E[Piece(q, c[2], Len(q))] \in Int
      BY <2>2, PieceTyped
    <3> QED BY <1>0, <2>2, <3>1, Zenon
  <2>5. z \in T /\ (Begins(z, o) <=> First1(b))
    <3>1. z \in T
      BY <1>0, <2>1, LastPiece
    <3>2. Begins(z, o) <=> b < n /\ q[b + 1] = o
      BY <1>0, <2>1, LastPiece
    <3> QED BY <3>1, <3>2
  <2>6. y \in T /\ (Ends(y, o) <=> Prev1(a, b))
    <3>1. y \in T
      BY <1>3, <2>1, PieceEnds
    <3>2. Ends(y, o) <=> a < b /\ q[b] = o
      BY <1>3, <2>1, PieceLast
    <3> QED BY <3>1, <3>2
  <2>7. ASSUME NEW m \in Nat, m = b + 1, First1(b) PROVE Tail(z) = Piece(q, m, n)
    BY <1>0, <2>1, <2>7, PieceTail
  <2>8. ASSUME NEW m \in Nat, b = m + 1, Prev1(a, b) PROVE Front(y) = Piece(q, a, m)
    BY <2>1, <2>8, PieceFront
  <2> HIDE DEF Prev1, First1
  <2>9. E1[z] = IF Begins(z, o) THEN E[z] + E[Tail(z)] ELSE E[z]
    BY <2>5, MovesAt
  <2>10. M1[y] = IF Ends(y, o) THEN M[y] - M[Front(y)] ELSE M[y]
    BY <2>6, MovesAt
  <2>11. ~ First1(b) => E1[z] = E[z]
    BY <2>5, <2>9, Zenon
  <2>12. ASSUME NEW m \in Nat, m = b + 1, First1(b) PROVE E1[z] = E[z] + E[Piece(q, m, n)]
    <3>1. Tail(z) = Piece(q, m, n)
      BY <2>7, <2>12
    <3> QED BY <2>5, <2>9, <2>12, <3>1, Zenon
  <2>13. ~ Prev1(a, b) => M1[y] = M[y]
    BY <2>6, <2>10, Zenon
  <2>14. ASSUME NEW m \in Nat, b = m + 1, Prev1(a, b) PROVE M1[y] = M[y] - M[Piece(q, a, m)]
    <3>1. Front(y) = Piece(q, a, m)
      BY <2>8, <2>14
    <3> QED BY <2>6, <2>10, <2>14, <3>1, Zenon
  <2> QED BY <2>2, <2>3, <2>4, <2>11, <2>12, <2>13, <2>14, ZenonT(60)
<1>4. \A i, j \in 1 .. n : q[i] = q[j] => i = j
  BY <1>0, TuplesAre DEF IsTuple
<1> DEFINE over(c) == IF Prev1(c[1], c[2]) THEN <<c[1], c[2] - 1>>
                      ELSE IF First1(c[2]) THEN <<c[1], c[2] + 1>> ELSE c
           partner == [c \in C |-> over(c)]
<1>5. ASSUME NEW a \in 0 .. n, NEW b \in 0 .. n, NEW m \in 0 .. n, a <= b, m = b + 1, q[m] = o
      PROVE  /\ <<a, b>> \in C /\ <<a, m>> \in C
             /\ over(<<a, m>>) = <<a, b>> /\ over(<<a, b>>) = <<a, m>>
             /\ f[<<a, m>>] + f[<<a, b>>] = g[<<a, m>>] + g[<<a, b>>]
  <2>1. /\ a < m /\ a <= m /\ m \in 1 .. n /\ b < n /\ b \in Nat /\ m \in Nat /\ m - 1 = b
    BY <1>5
  <2>2. ~ First1(m)
    <3> SUFFICES ASSUME m < n, q[m + 1] = o PROVE FALSE
      OBVIOUS
    <3>1. m + 1 \in 1 .. n /\ m + 1 # m
      BY <2>1
    <3> QED BY <1>4, <1>5, <2>1, <3>1
  <2>3. ~ Prev1(a, b)
    <3> SUFFICES ASSUME a < b, q[b] = o PROVE FALSE
      OBVIOUS
    <3>1. b \in 1 .. n /\ b # m
      BY <1>5
    <3> QED BY <1>4, <1>5, <2>1, <3>1
  <2>4. Prev1(a, m) /\ First1(b)
    BY <1>5, <2>1
  <2>5. over(<<a, m>>) = <<a, b>>
    <3> HIDE DEF Prev1, First1
    <3> QED BY <2>1, <2>4
  <2>6. over(<<a, b>>) = <<a, m>>
    <3> HIDE DEF Prev1, First1
    <3> QED BY <1>5, <2>3, <2>4
  <2> HIDE DEF Prev1, First1, over
  <2> PICK x : x = E[Piece(q, m, n)]
    OBVIOUS
  <2> PICK y : y = E[Piece(q, b, n)]
    OBVIOUS
  <2> PICK u : u = M[Piece(q, a, m)]
    OBVIOUS
  <2> PICK v : v = M[Piece(q, a, b)]
    OBVIOUS
  <2> PICK e : e = B[Piece(q, 0, a)]
    OBVIOUS
  <2>7. /\ <<a, m>> \in C /\ x \in Int /\ u \in Int /\ e \in Int
        /\ f[<<a, m>>] = e * M1[Piece(q, a, m)] * E1[Piece(q, m, n)]
        /\ g[<<a, m>>] = e * u * x
    BY <1>3, <2>1
  <2>8. /\ <<a, b>> \in C /\ y \in Int /\ v \in Int
        /\ f[<<a, b>>] = e * M1[Piece(q, a, b)] * E1[Piece(q, b, n)]
        /\ g[<<a, b>>] = e * v * y
    BY <1>3, <1>5
  <2>9. E1[Piece(q, m, n)] = x /\ M1[Piece(q, a, m)] = u - v
    BY <1>3, <1>5, <2>1, <2>2, <2>4, ZenonT(60)
  <2>10. E1[Piece(q, b, n)] = y + x /\ M1[Piece(q, a, b)] = v
    BY <1>3, <1>5, <2>1, <2>3, <2>4, ZenonT(60)
  <2>11. f[<<a, m>>] + f[<<a, b>>] = g[<<a, m>>] + g[<<a, b>>]
    <3>0. x \in Int /\ y \in Int /\ u \in Int /\ v \in Int /\ e \in Int
      BY <2>7, <2>8
    <3>1. e * (u - v) * x + e * v * (y + x) = e * u * x + e * v * y
      BY ONLY <3>0
    <3>2. f[<<a, m>>] = e * (u - v) * x /\ f[<<a, b>>] = e * v * (y + x)
      BY <2>7, <2>8, <2>9, <2>10, Zenon
    <3> QED BY <2>7, <2>8, <3>1, <3>2, Zenon
  <2> QED BY <2>5, <2>6, <2>7, <2>8, <2>11, Zenon
<1>6. ASSUME NEW c \in C
      PROVE  /\ over(c) \in C /\ over(over(c)) = c
             /\ f[c] + f[over(c)] = g[c] + g[over(c)]
  <2>1. PICK a \in 0 .. n, b \in 0 .. n : a <= b /\ c = <<a, b>>
    BY <1>0, CutsFinite
  <2>2. f[c] \in Int /\ g[c] \in Int
    BY <1>2
  <2>3. CASE Prev1(a, b)
    <3>1. PICK m \in 0 .. n : b = m + 1 /\ a <= m /\ q[b] = o
      <4>1. b - 1 \in 0 .. n /\ b = (b - 1) + 1 /\ a <= b - 1
        BY <2>3
      <4> QED BY <2>3, <4>1
    <3>2. /\ <<a, m>> \in C
          /\ over(<<a, b>>) = <<a, m>> /\ over(<<a, m>>) = <<a, b>>
          /\ f[<<a, b>>] + f[<<a, m>>] = g[<<a, b>>] + g[<<a, m>>]
      <4> HIDE DEF over, Prev1, First1
      <4> QED BY <1>5, <3>1
    <3> HIDE DEF over
    <3> QED BY <2>1, <3>2, Zenon
  <2>4. CASE ~ Prev1(a, b) /\ First1(b)
    <3>1. PICK m \in 0 .. n : m = b + 1 /\ q[m] = o
      BY <2>4
    <3>2. /\ <<a, m>> \in C
          /\ over(<<a, m>>) = <<a, b>> /\ over(<<a, b>>) = <<a, m>>
          /\ f[<<a, m>>] + f[<<a, b>>] = g[<<a, m>>] + g[<<a, b>>]
      <4> HIDE DEF over, Prev1, First1
      <4> QED BY <1>5, <2>1, <3>1
    <3>3. f[<<a, m>>] \in Int /\ g[<<a, m>>] \in Int
      BY <1>2, <3>2
    <3> HIDE DEF over, Prev1, First1
    <3>4. f[c] + f[<<a, m>>] = g[c] + g[<<a, m>>]
      BY <2>1, <2>2, <3>2, <3>3
    <3> QED BY <2>1, <3>2, <3>4, Zenon
  <2>5. CASE ~ Prev1(a, b) /\ ~ First1(b)
    <3>1. over(c) = c
      <4>1. c[1] = a /\ c[2] = b
        BY <2>1
      <4> HIDE DEF Prev1, First1
      <4> QED BY <2>5, <4>1
    <3>2. E1[Piece(q, b, n)] = E[Piece(q, b, n)] /\ M1[Piece(q, a, b)] = M[Piece(q, a, b)]
      <4> HIDE DEF Prev1, First1
      <4> QED BY <1>3, <2>1, <2>5
    <3>3. f[c] = g[c]
      <4> HIDE DEF Prev1, First1
      <4> QED BY <1>3, <2>1, <3>2
    <3> HIDE DEF over
    <3> QED BY <3>1, <3>3, Zenon
  <2> QED BY <2>3, <2>4, <2>5
<1>7. Total(f, C) = Total(g, C)
  <2> HIDE DEF over
  <2>1. partner \in [C -> C] /\ \A c \in C : partner[c] = over(c)
    BY <1>6
  <2> HIDE DEF partner
  <2>2. \A c \in C : partner[partner[c]] = c /\ f[c] + f[partner[c]] = g[c] + g[partner[c]]
    BY <1>6, <2>1
  <2>3. IsFiniteSet(C)
    BY CutsFinite
  <2> QED BY <1>2, <2>1, <2>2, <2>3, PairedTotals
<1> QED BY <1>7, Zenon DEF Joined

-----------------------------------------------------------------------------
(* The targets. *)

Times(c, x, acc)     == acc * x
Positive(k, S, acc)  == acc \in Nat \ {0}
Products == INSTANCE Folding WITH
    Op <- Times, Map <- At, Choose <- Max, Values <- {}, Inv <- Positive

(* A product is a fold.                                                    *)
LEMMA ProductIsFold ==
    ASSUME NEW factors
    PROVE  Product(factors) = Products!Fold(factors, 1, DOMAIN factors)
  BY Zenon DEF Product, FoldLeft, MapThenFoldSet, Products!Fold, Products!MapThenFoldSet, Times, At

(* The factors are taken in from the last one.                             *)
LEMMA FactorsChosen ==
    ASSUME NEW n \in Nat
    PROVE  Products!IsFiniteSet(1 .. n) /\ Products!Chooses(1 .. n)
<1>1. PICK S : S = 1 .. n
  OBVIOUS
<1>2. IsFiniteSet(S)
  BY <1>1, FS_Interval
<1>3. Products!IsFiniteSet(S)
  BY ONLY <1>2 DEF IsFiniteSet, Products!IsFiniteSet
<1>4. Products!Chooses(1 .. n)
  <2> SUFFICES ASSUME NEW T \in SUBSET (1 .. n), T # {} PROVE Max(T) \in T
    BY DEF Products!Chooses
  <2> QED BY MaxOf
<1> QED BY <1>1, <1>3, <1>4

(* A product of positive numbers.                                          *)
LEMMA ProductPositive ==
    ASSUME NEW n \in Nat, NEW factors \in [1 .. n -> Nat \ {0}]
    PROVE  /\ Product(factors) \in Nat \ {0}
           /\ n = 0 => Product(factors) = 1
           /\ n = 1 => Product(factors) = factors[1]
<1>1. Products!IsFiniteSet(1 .. n) /\ Products!Chooses(1 .. n)
  BY FactorsChosen
<1>2. Positive(0, {}, 1)
  BY DEF Positive
<1>3. ASSUME NEW T \in SUBSET (1 .. n), NEW acc, T # {}, Positive(0, T \ {Max(T)}, acc)
      PROVE  Positive(0, T, Times(factors, At(factors, Max(T)), acc))
  <2>1. PICK m \in 1 .. n : m = Max(T)
    BY <1>3, MaxOf
  <2>2. \A x, y \in Nat \ {0} : x * y \in Nat \ {0}
    OBVIOUS
  <2>3. acc * factors[m] \in Nat \ {0}
    BY <1>3, <2>2 DEF Positive
  <2> QED BY <2>1, <2>3 DEF Positive, Times, At
<1>4. Positive(0, 1 .. n, Products!Fold(factors, 1, 1 .. n))
  <2> PICK S : S = 1 .. n
    OBVIOUS
  <2>1. Products!IsFiniteSet(S) /\ Products!Chooses(S)
    BY <1>1
  <2>2. \A T \in SUBSET S : \A acc :
            T # {} /\ Positive(0, T \ {Max(T)}, acc)
                => Positive(0, T, Times(factors, At(factors, Max(T)), acc))
    BY <1>3
  <2>3. Positive(0, S, Products!Fold(factors, 1, S))
    BY ONLY <1>2, <2>1, <2>2, Products!FoldInvariant
  <2> QED BY <2>3
<1>5. Product(factors) = Products!Fold(factors, 1, 1 .. n)
  BY ProductIsFold
<1>6. Products!Fold(factors, 1, {}) = 1
  <2>1. Products!IsFiniteSet({}) /\ Products!Chooses({})
    BY FactorsChosen
  <2> QED BY <2>1, Products!FoldEquation
<1>7. n = 0 => Product(factors) = 1
  BY <1>5, <1>6
<1>8. ASSUME n = 1 PROVE Product(factors) = factors[1]
  <2> PICK S : S = {1}
    OBVIOUS
  <2>1. S = 1 .. n /\ S # {} /\ Max(S) = 1 /\ S \ {1} = {}
    <3>1. S = 1 .. n /\ S # {} /\ S \ {1} = {}
      BY <1>8
    <3>2. Max(S) \in S
      BY <3>1, MaxOf
    <3> QED BY <3>1, <3>2
  <2>2. Products!IsFiniteSet(S) /\ Products!Chooses(S)
    BY <1>1, <2>1
  <2>3. Products!Fold(factors, 1, S)
            = Times(factors, At(factors, Max(S)), Products!Fold(factors, 1, S \ {Max(S)}))
    BY <2>1, <2>2, Products!FoldEquation
  <2>4. PICK k \in Nat : k = factors[1]
    BY <1>8
  <2>5. Products!Fold(factors, 1, S) = Times(factors, At(factors, 1), Products!Fold(factors, 1, {}))
    BY <2>1, <2>3, Zenon
  <2>6. Products!Fold(factors, 1, S) = Times(factors, At(factors, 1), 1)
    BY <1>6, <2>5
  <2>7. Products!Fold(factors, 1, S) = 1 * k
    BY <2>4, <2>6, Zenon DEF Times, At
  <2>8. 1 * k = k
    BY <2>4
  <2>9. Product(factors) = Products!Fold(factors, 1, S)
    BY <1>5, <2>1, Zenon
  <2> QED BY <2>4, <2>7, <2>8, <2>9
<1> QED BY <1>4, <1>5, <1>7, <1>8 DEF Positive

(* The target of an order is a number, that of one die its sides.          *)
LEMMA GoalOf ==
    ASSUME NEW sides \in Nat, sides > 0, NEW n \in Nat
    PROVE  /\ Goal(sides, n) \in Nat
           /\ n = 0 => Goal(sides, n) = 1
           /\ n = 1 => Goal(sides, n) = sides
<1> PICK p : p = [i \in 1 .. n |-> sides]
  OBVIOUS
<1> PICK f : f = [i \in 1 .. n |-> i]
  OBVIOUS
<1>1. p \in [1 .. n -> Nat \ {0}] /\ f \in [1 .. n -> Nat \ {0}]
  OBVIOUS
<1>2. /\ Product(p) \in Nat \ {0} /\ (n = 0 => Product(p) = 1)
      /\ n = 1 => Product(p) = p[1]
  BY <1>1, ProductPositive
<1>3. /\ Product(f) \in Nat \ {0} /\ (n = 0 => Product(f) = 1)
      /\ n = 1 => Product(f) = f[1]
  BY <1>1, ProductPositive
<1>4. Goal(sides, n) = Product(p) \div Product(f)
  BY DEF Goal, integer_power, Factorial
<1>5. \A x, y \in Nat \ {0} : x \div y \in Nat
  OBVIOUS
<1>6. n = 1 => p[1] = sides /\ f[1] = 1
  OBVIOUS
<1>7. \A x \in Nat : x \div 1 = x
  OBVIOUS
<1> QED BY <1>2, <1>3, <1>4, <1>5, <1>6, <1>7

Sized(d, sides) == <<d, sides>> \in Sizes

(* The targets are counts, the same for an order and the reversed one.     *)
LEMMA TargetsAre ==
    ASSUME NEW d, NEW sides, Sized(d, sides)
    PROVE  /\ d \in DiceCounts /\ d \in Nat /\ d >= 2 /\ sides \in Nat /\ sides > 0
           /\ TargetsOf[<<d, sides>>] \in [TuplesOf[d] -> Nat]
           /\ TargetsOf[<<d, sides>>][<<>>] = 1
           /\ \A o \in 0 .. d - 1 : TargetsOf[<<d, sides>>][<<o>>] = sides
           /\ \A q \in TuplesOf[d] :
                  TargetsOf[<<d, sides>>][Reverse(q)] = TargetsOf[<<d, sides>>][q]
<1> PICK s \in Sizes : s = <<d, sides>>
  BY DEF Sized
<1>1. s[1] = d /\ s[2] = sides
  OBVIOUS
<1>2. d \in DiceCounts
  BY <1>1 DEF DiceCounts
<1>3. d \in Nat /\ d >= 2 /\ sides \in Nat /\ sides > 0
  BY SizesAssumption, <1>1
<1>4. TargetsOf[s] = [q \in TuplesOf[d] |-> Goal(sides, Len(q))]
  BY <1>1 DEF TargetsOf
<1>5. \A q \in TuplesOf[d] : Len(q) \in Nat
  BY <1>2, CutsFinite
<1>6. \A q \in TuplesOf[d] : Goal(sides, Len(q)) \in Nat
  BY <1>3, <1>5, GoalOf
<1>7. TargetsOf[s] \in [TuplesOf[d] -> Nat]
  BY <1>4, <1>6
<1>8. TargetsOf[s][<<>>] = 1
  <2>1. <<>> \in TuplesOf[d] /\ Len(<<>>) = 0
    BY <1>2, ShortTuples
  <2>2. Goal(sides, 0) = 1
    BY <1>3, GoalOf
  <2> QED BY <1>4, <2>1, <2>2
<1>9. ASSUME NEW o \in 0 .. d - 1 PROVE TargetsOf[s][<<o>>] = sides
  <2>1. <<o>> \in TuplesOf[d] /\ Len(<<o>>) = 1
    BY <1>2, ShortTuples
  <2>2. Goal(sides, 1) = sides
    BY <1>3, GoalOf
  <2> QED BY <1>4, <2>1, <2>2
<1>10. ASSUME NEW q \in TuplesOf[d] PROVE TargetsOf[s][Reverse(q)] = TargetsOf[s][q]
  <2>1. Reverse(q) \in TuplesOf[d]
    BY <1>2, TupleParts
  <2>2. Len(Reverse(q)) = Len(q)
    BY <1>5 DEF Reverse
  <2> QED BY <1>4, <2>1, <2>2
<1> QED BY <1>2, <1>3, <1>7, <1>8, <1>9, <1>10

(* With nothing at the ends the middle is the whole.                       *)
LEMMA JoinNothing ==
    ASSUME NEW d \in DiceCounts, NEW M \in [TuplesOf[d] -> Int], NEW q \in TuplesOf[d]
    PROVE  Joined(NoWays(TuplesOf[d]), M, NoWays(TuplesOf[d]), q) = M[q]
<1> PICK T : T = TuplesOf[d]
  OBVIOUS
<1> PICK B : B = NoWays(T)
  OBVIOUS
<1>1. B \in [TuplesOf[d] -> Int] /\ \A r \in T : B[r] = IF r = <<>> THEN 1 ELSE 0
  BY DEF NoWays
<1>2. PICK n \in Nat : n = Len(q) /\ n <= Len(q) /\ q \in Seq(0 .. d - 1)
  BY CutsFinite
<1> PICK f : f = Pieces(B, M, B, q)
  OBVIOUS
<1> PICK e : e = <<0, n>>
  OBVIOUS
<1>3. e \in Cuts(q) /\ e[1] = 0 /\ e[2] = n
  BY <1>2, CutsFinite
<1>4. f \in [Cuts(q) -> Int]
  BY <1>1, PiecesTyped
<1>5. \A c \in Cuts(q) : f[c] = Value(B, M, B, q, c)
  BY PieceValue
<1>6. f[e] = M[q]
  <2>1. Piece(q, 0, n) = q
    <3>1. PICK r \in TuplesOf[d] : /\ r = Piece(q, 0, n) /\ r \in Seq(0 .. d - 1) /\ Len(r) = n - 0
                                   /\ \A i \in 1 .. Len(r) : r[i] = q[0 + i]
      <4>1. 0 \in Nat /\ 0 <= n
        OBVIOUS
      <4> QED BY <1>2, <4>1, PieceSeq
    <3>2. Len(r) = n /\ \A i \in 1 .. Len(r) : r[i] = q[i]
      BY <3>1
    <3>3. r = q
      BY <1>2, <3>1, <3>2, SeqEqual
    <3> QED BY <3>1, <3>3
  <2>2. Piece(q, 0, 0) = <<>> /\ Piece(q, n, n) = <<>>
    <3>1. ASSUME NEW z \in Nat, NEW y \in Nat, z <= y, y <= z, y <= Len(q)
          PROVE  Piece(q, z, y) = <<>>
      <4>1. PICK r \in TuplesOf[d] : r = Piece(q, z, y) /\ r \in Seq(0 .. d - 1) /\ Len(r) = y - z
        BY <3>1, PieceSeq
      <4>2. Len(r) = 0
        BY <3>1, <4>1
      <4> QED BY <4>1, <4>2, EmptySeq
    <3>2. ASSUME NEW z \in Nat, z <= Len(q) PROVE Piece(q, z, z) = <<>>
      BY <3>1, <3>2
    <3>3. 0 \in Nat /\ 0 <= Len(q)
      BY <1>2
    <3> QED BY <1>2, <3>2, <3>3
  <2>3. B[<<>>] = 1 /\ M[q] \in Int
    BY <1>1, ShortTuples
  <2>4. f[e] = B[Piece(q, 0, 0)] * M[Piece(q, 0, n)] * B[Piece(q, n, n)]
    <3>1. f[e] = Value(B, M, B, q, e)
      BY <1>3, <1>5
    <3> QED BY <1>2, <1>3, <3>1, Zenon DEF Value
  <2> QED BY <2>1, <2>2, <2>3, <2>4
<1>7. ASSUME NEW c \in Cuts(q), c # e PROVE f[c] = 0
  <2>1. PICK a \in 0 .. n, b \in 0 .. n : a <= b /\ c = <<a, b>>
    BY <1>2, CutsFinite
  <2>2. c[1] = a /\ c[2] = b /\ (a > 0 \/ b < n)
    BY <1>7, <2>1
  <2> PICK x : x = Piece(q, 0, a)
    OBVIOUS
  <2> PICK y : y = Piece(q, a, b)
    OBVIOUS
  <2> PICK z : z = Piece(q, b, n)
    OBVIOUS
  <2>3. f[c] = B[x] * M[y] * B[z]
    <3>1. f[c] = Value(B, M, B, q, c)
      BY <1>5
    <3> QED BY <1>2, <2>2, <3>1, Zenon DEF Value
  <2>4. B[x] \in Int /\ M[y] \in Int /\ B[z] \in Int
    <3>1. /\ B[Piece(q, 0, c[1])] \in Int /\ M[Piece(q, c[1], c[2])] \in Int
          /\ B[Piece(q, c[2], Len(q))] \in Int
      BY <1>1, PieceTyped
    <3> QED BY <1>2, <2>2, <3>1, Zenon
  <2>5. a > 0 => B[x] = 0
    <3> SUFFICES ASSUME a > 0 PROVE B[x] = 0
      OBVIOUS
    <3>0. 0 \in Nat /\ 0 <= a /\ a \in Nat /\ a <= Len(q)
      BY <1>2
    <3>1. PICK r \in TuplesOf[d] : r = Piece(q, 0, a) /\ r \in Seq(0 .. d - 1) /\ Len(r) = a - 0
      BY <3>0, PieceSeq
    <3>2. r # <<>>
      BY <3>1, EmptySeq
    <3> QED BY <1>1, <3>1, <3>2
  <2>6. b < n => B[z] = 0
    <3> SUFFICES ASSUME b < n PROVE B[z] = 0
      OBVIOUS
    <3>0. b \in Nat /\ b <= n
      OBVIOUS
    <3>1. PICK r \in TuplesOf[d] : r = Piece(q, b, n) /\ r \in Seq(0 .. d - 1) /\ Len(r) = n - b
      BY <1>2, <3>0, PieceSeq
    <3>2. r # <<>>
      BY <3>1, EmptySeq
    <3> QED BY <1>1, <3>1, <3>2
  <2> QED BY <2>2, <2>3, <2>4, <2>5, <2>6
<1>8. IsFiniteSet(Cuts(q))
  BY CutsFinite
<1>9. Total(f, Cuts(q)) = f[e]
  <2>1. f[e] \in Int
    BY <1>3, <1>4
  <2> QED BY <1>3, <1>7, <1>8, <2>1, TotalOfOne
<1> QED BY <1>6, <1>9, Zenon DEF Joined

-----------------------------------------------------------------------------
(* Reversed tuples, and moves at both ends. *)

(* A sequence from behind.                                                 *)
LEMMA ReverseIs ==
    ASSUME NEW S, NEW q \in Seq(S)
    PROVE  \E r \in Seq(S) : /\ r = Reverse(q) /\ Len(r) = Len(q)
                             /\ \A i \in 1 .. Len(q) : r[i] = q[Len(q) - i + 1]
<1>1. PICK n \in Nat : n = Len(q)
  BY LenProperties
<1>2. \A k \in 1 .. n : n - k + 1 \in 1 .. n
  OBVIOUS
<1>3. \A k \in 1 .. n : q[n - k + 1] \in S
  BY <1>1, <1>2, ElementOfSeq
<1> PICK r : r = [i \in 1 .. n |-> q[n - i + 1]]
  OBVIOUS
<1>4. r \in Seq(S) /\ Len(r) = n /\ \A i \in 1 .. n : r[i] = q[n - i + 1]
  BY <1>3
<1>5. r = Reverse(q)
  BY <1>1, Zenon DEF Reverse
<1> QED BY <1>1, <1>4, <1>5

(* Reversed orders have their ends swapped.                                *)
LEMMA ReversedEnds ==
    ASSUME NEW d \in DiceCounts, NEW q \in TuplesOf[d], q # <<>>
    PROVE  /\ Reverse(q) \in TuplesOf[d] /\ Reverse(q) # <<>> /\ Len(Reverse(q)) = Len(q)
           /\ \A o : Begins(Reverse(q), o) <=> Ends(q, o)
           /\ \A o : Ends(Reverse(q), o) <=> Begins(q, o)
           /\ Tail(Reverse(q)) = Reverse(Front(q)) /\ Front(Reverse(q)) = Reverse(Tail(q))
<1> PICK S : S = 0 .. d - 1
  OBVIOUS
<1>1. q \in Seq(S)
  BY CutsFinite
<1>2. PICK n \in Nat : n = Len(q) /\ n >= 1
  BY <1>1, EmptySeq
<1>3. PICK r \in Seq(S) : /\ r = Reverse(q) /\ Len(r) = n
                          /\ \A i \in 1 .. n : r[i] = q[n - i + 1]
  BY <1>1, <1>2, ReverseIs
<1>4. r \in TuplesOf[d] /\ r # <<>>
  <2>1. Reverse(q) \in TuplesOf[d]
    BY TupleParts
  <2>2. r # <<>>
    BY <1>2, <1>3, EmptySeq
  <2> QED BY <1>3, <2>1, <2>2
<1>5. r[1] = q[n] /\ r[n] = q[1]
  <2>1. 1 \in 1 .. n /\ n \in 1 .. n /\ n - 1 + 1 = n /\ n - n + 1 = 1
    BY <1>2
  <2> QED BY <1>3, <2>1
<1>6. ASSUME NEW o PROVE Begins(r, o) <=> Ends(q, o)
  <2>1. Head(r) = r[1] /\ Last(q) = q[n]
    BY <1>2, <1>3, <1>4 DEF Last
  <2> QED BY <1>4, <1>5, <2>1 DEF Begins, Ends
<1>7. ASSUME NEW o PROVE Ends(r, o) <=> Begins(q, o)
  <2>1. Head(q) = q[1] /\ Last(r) = r[n]
    BY <1>1, <1>2, <1>3, <1>4 DEF Last
  <2> QED BY <1>4, <1>5, <2>1 DEF Begins, Ends
<1>8. PICK m \in Nat : m = n - 1
  BY <1>2
<1>9. PICK f \in Seq(S) : f = Front(q) /\ Len(f) = m /\ \A i \in 1 .. m : f[i] = q[i]
  <2>1. PICK f \in Seq(S) : /\ f = Front(q) /\ Len(f) = Len(q) - 1
                             /\ \A i \in 1 .. Len(f) : f[i] = q[i]
    BY <1>1, FrontOf
  <2> QED BY <1>2, <1>8, <2>1
<1>10. PICK t \in Seq(S) : t = Tail(q) /\ Len(t) = m /\ \A i \in 1 .. m : t[i] = q[i + 1]
  <2>1. PICK t : t = Tail(q)
    OBVIOUS
  <2>2. t \in Seq(S) /\ Len(t) = Len(q) - 1 /\ \A i \in 1 .. Len(t) : t[i] = q[i + 1]
    BY <1>1, <2>1, HeadTailProperties
  <2> QED BY <1>2, <1>8, <2>1, <2>2
<1>11. PICK rf \in Seq(S) : /\ rf = Reverse(f) /\ Len(rf) = m
                            /\ \A i \in 1 .. m : rf[i] = f[m - i + 1]
  <2>1. PICK x \in Seq(S) : /\ x = Reverse(f) /\ Len(x) = Len(f)
                            /\ \A i \in 1 .. Len(f) : x[i] = f[Len(f) - i + 1]
    BY ReverseIs
  <2> QED BY <1>9, <2>1
<1>12. PICK rt \in Seq(S) : /\ rt = Reverse(t) /\ Len(rt) = m
                            /\ \A i \in 1 .. m : rt[i] = t[m - i + 1]
  <2>1. PICK x \in Seq(S) : /\ x = Reverse(t) /\ Len(x) = Len(t)
                            /\ \A i \in 1 .. Len(t) : x[i] = t[Len(t) - i + 1]
    BY ReverseIs
  <2> QED BY <1>10, <2>1
<1>13. PICK tr \in Seq(S) : tr = Tail(r) /\ Len(tr) = m /\ \A i \in 1 .. m : tr[i] = r[i + 1]
  <2>1. PICK x : x = Tail(r)
    OBVIOUS
  <2>2. x \in Seq(S) /\ Len(x) = Len(r) - 1 /\ \A i \in 1 .. Len(x) : x[i] = r[i + 1]
    BY <1>4, <2>1, HeadTailProperties
  <2>3. Len(x) = m
    BY <1>2, <1>3, <1>8, <2>2
  <2> QED BY <2>1, <2>2, <2>3
<1>14. PICK fr \in Seq(S) : fr = Front(r) /\ Len(fr) = m /\ \A i \in 1 .. m : fr[i] = r[i]
  <2>1. PICK x \in Seq(S) : /\ x = Front(r) /\ Len(x) = Len(r) - 1
                             /\ \A i \in 1 .. Len(x) : x[i] = r[i]
    BY <1>4, FrontOf
  <2> QED BY <1>3, <1>8, <2>1
<1>15. tr = rf
  <2>1. ASSUME NEW i \in 1 .. m PROVE tr[i] = rf[i]
    <3>1. i + 1 \in 1 .. n /\ m - i + 1 \in 1 .. m /\ n - (i + 1) + 1 = m - i + 1
      BY <1>8
    <3>2. tr[i] = r[i + 1]
      BY <1>13
    <3>3. r[i + 1] = q[n - (i + 1) + 1]
      BY <1>3, <3>1
    <3>4. rf[i] = f[m - i + 1]
      BY <1>11
    <3>5. f[m - i + 1] = q[m - i + 1]
      BY <1>9, <3>1
    <3> QED BY <3>1, <3>2, <3>3, <3>4, <3>5
  <2> QED BY <1>11, <1>13, <2>1, SeqEqual
<1>16. fr = rt
  <2>1. ASSUME NEW i \in 1 .. m PROVE fr[i] = rt[i]
    <3>1. i \in 1 .. n /\ m - i + 1 \in 1 .. m /\ n - i + 1 = m - i + 1 + 1
      BY <1>8
    <3>2. fr[i] = r[i]
      BY <1>14
    <3>3. r[i] = q[n - i + 1]
      BY <1>3, <3>1
    <3>4. rt[i] = t[m - i + 1]
      BY <1>12
    <3>5. t[m - i + 1] = q[m - i + 1 + 1]
      BY <1>10, <3>1
    <3> QED BY <3>1, <3>2, <3>3, <3>4, <3>5
  <2> QED BY <1>12, <1>14, <2>1, SeqEqual
<1>17. Tail(Reverse(q)) = Reverse(Front(q))
  BY <1>3, <1>9, <1>11, <1>13, <1>15
<1>18. Front(Reverse(q)) = Reverse(Tail(q))
  BY <1>3, <1>10, <1>12, <1>14, <1>16
<1> QED BY <1>2, <1>3, <1>4, <1>6, <1>7, <1>17, <1>18

(* A feasible move leaves natural numbers.                                 *)
LEMMA FeasibleLeft ==
    ASSUME NEW d \in DiceCounts, NEW c \in [TuplesOf[d] -> Nat], NEW o, PrefixFeasible(c, o)
    PROVE  SubtractPrefix(c, o) \in [TuplesOf[d] -> Nat]
<1> PICK T : T = TuplesOf[d]
  OBVIOUS
<1> PICK e : e = SubtractPrefix(c, o)
  OBVIOUS
<1>1. c \in [T -> Int] /\ c \in [TuplesOf[d] -> Int] /\ DOMAIN c = T
  OBVIOUS
<1>2. e \in [T -> Int]
  BY <1>1, MovesTyped
<1>3. ASSUME NEW q \in T PROVE e[q] \in Nat
  <2>1. /\ e[q] = IF Begins(q, o) THEN c[q] - c[Tail(q)] ELSE c[q]
        /\ Begins(q, o) => Tail(q) \in T
    BY <1>1, MovesAt
  <2>2. Begins(q, o) => c[q] >= c[Tail(q)]
    BY <1>1 DEF PrefixFeasible
  <2>3. c[q] \in Nat
    OBVIOUS
  <2>4. Begins(q, o) => c[Tail(q)] \in Nat
    BY <2>1
  <2> QED BY <2>1, <2>2, <2>3, <2>4
<1> QED BY <1>2, <1>3

(* And so at the right end.                                                *)
LEMMA FeasibleRight ==
    ASSUME NEW d \in DiceCounts, NEW c \in [TuplesOf[d] -> Nat], NEW o, SuffixFeasible(c, o)
    PROVE  SubtractSuffix(c, o) \in [TuplesOf[d] -> Nat]
<1> PICK T : T = TuplesOf[d]
  OBVIOUS
<1> PICK e : e = SubtractSuffix(c, o)
  OBVIOUS
<1>1. c \in [T -> Int] /\ c \in [TuplesOf[d] -> Int] /\ DOMAIN c = T
  OBVIOUS
<1>2. e \in [T -> Int]
  BY <1>1, MovesTyped
<1>3. ASSUME NEW q \in T PROVE e[q] \in Nat
  <2>1. /\ e[q] = IF Ends(q, o) THEN c[q] - c[Front(q)] ELSE c[q]
        /\ Ends(q, o) => Front(q) \in T
    BY <1>1, MovesAt
  <2>2. Ends(q, o) => c[q] >= c[Front(q)]
    BY <1>1 DEF SuffixFeasible
  <2>3. c[q] \in Nat
    OBVIOUS
  <2>4. Ends(q, o) => c[Front(q)] \in Nat
    BY <2>1
  <2> QED BY <2>1, <2>2, <2>3, <2>4
<1> QED BY <1>2, <1>3

(* What a move does to the counts of no face and of one.                   *)
LEMMA ShortCounts ==
    ASSUME NEW d \in DiceCounts, NEW c \in [TuplesOf[d] -> Int], c[<<>>] = 1, NEW o
    PROVE  /\ SubtractPrefix(c, o)[<<>>] = 1 /\ SubtractSuffix(c, o)[<<>>] = 1
           /\ \A p \in 0 .. d - 1 :
                  /\ c[<<p>>] \in Int
                  /\ SubtractPrefix(c, o)[<<p>>] = IF p = o THEN c[<<p>>] - 1 ELSE c[<<p>>]
                  /\ SubtractSuffix(c, o)[<<p>>] = IF p = o THEN c[<<p>>] - 1 ELSE c[<<p>>]
<1> PICK T : T = TuplesOf[d]
  OBVIOUS
<1>1. <<>> \in T /\ ~ Begins(<<>>, o) /\ ~ Ends(<<>>, o)
  BY ShortTuples DEF Begins, Ends
<1>2. SubtractPrefix(c, o)[<<>>] = 1 /\ SubtractSuffix(c, o)[<<>>] = 1
  BY <1>1, MovesAt
<1>3. ASSUME NEW p \in 0 .. d - 1
      PROVE  /\ c[<<p>>] \in Int
             /\ SubtractPrefix(c, o)[<<p>>] = IF p = o THEN c[<<p>>] - 1 ELSE c[<<p>>]
             /\ SubtractSuffix(c, o)[<<p>>] = IF p = o THEN c[<<p>>] - 1 ELSE c[<<p>>]
  <2> PICK q : q = <<p>>
    OBVIOUS
  <2>1. q \in T
    BY ShortTuples
  <2>2. Len(q) = 1 /\ q[1] = p /\ q # <<>> /\ ~ (Len(q) >= 2)
    OBVIOUS
  <2>3. Tail(q) = <<>> /\ Front(q) = <<>> /\ (Begins(q, o) <=> p = o) /\ (Ends(q, o) <=> p = o)
    BY <2>1, <2>2, OneOwner
  <2>4. /\ SubtractPrefix(c, o)[q] = IF Begins(q, o) THEN c[q] - c[Tail(q)] ELSE c[q]
        /\ SubtractSuffix(c, o)[q] = IF Ends(q, o) THEN c[q] - c[Front(q)] ELSE c[q]
        /\ c[q] \in Int
    <3>1. \A x \in T :
              /\ SubtractPrefix(c, o)[x] = IF Begins(x, o) THEN c[x] - c[Tail(x)] ELSE c[x]
              /\ SubtractSuffix(c, o)[x] = IF Ends(x, o) THEN c[x] - c[Front(x)] ELSE c[x]
              /\ c[x] \in Int
      BY MovesAt
    <3> QED BY ONLY <2>1, <3>1
  <2> QED BY <2>3, <2>4
<1> QED BY <1>2, <1>3

(* Counts that are the same for an order and for the reversed one.         *)
Even(d, c) == \A q \in TuplesOf[d] : c[q] = c[Reverse(q)]

(* No order of two dice or more begins and ends with the same one.         *)
LEMMA EndsDiffer ==
    ASSUME NEW d \in DiceCounts, NEW q \in TuplesOf[d], Len(q) >= 2, NEW o
    PROVE  ~ (Begins(q, o) /\ Ends(q, o))
<1>1. /\ q # <<>> /\ Front(q) \in TuplesOf[d] /\ Front(q) # <<>>
      /\ Begins(Front(q), o) <=> Begins(q, o)
  BY LongTuples
<1>2. q \in Seq(0 .. d - 1) /\ \A i, j \in 1 .. Len(q) : q[i] = q[j] => i = j
  BY TuplesAre DEF IsTuple
<1>3. PICK n \in Nat : n = Len(q) /\ n >= 2
  BY CutsFinite
<1>4. 1 \in 1 .. n /\ n \in 1 .. n /\ 1 # n
  BY <1>3
<1>5. q[1] # q[n]
  BY <1>2, <1>3, <1>4
<1>6. Head(q) = q[1] /\ Last(q) = q[n]
  BY <1>1, <1>2, <1>3 DEF Last
<1> QED BY <1>5, <1>6 DEF Begins, Ends

(* What one end allows the other allows, in counts that are even.          *)
LEMMA BothFeasible ==
    ASSUME NEW d \in DiceCounts, NEW c \in [TuplesOf[d] -> Nat], c[<<>>] = 1, Even(d, c),
           NEW o \in 0 .. d - 1, c[<<o>>] >= 2, PrefixFeasible(c, o)
    PROVE  SuffixFeasible(SubtractPrefix(c, o), o)
<1> PICK T : T = TuplesOf[d]
  OBVIOUS
<1> PICK e : e = SubtractPrefix(c, o)
  OBVIOUS
<1>1. c \in [T -> Int] /\ c \in [TuplesOf[d] -> Int] /\ DOMAIN c = T
  OBVIOUS
<1>2. e \in [T -> Int] /\ DOMAIN e = T
  BY <1>1, MovesTyped
<1>3. \A q \in T : e[q] = IF Begins(q, o) THEN c[q] - c[Tail(q)] ELSE c[q]
  BY <1>1, MovesAt
<1>4. ASSUME NEW q \in T, Ends(q, o) PROVE e[q] >= e[Front(q)]
  <2>0. q # <<>>
    BY <1>4 DEF Ends
  <2>1. CASE Len(q) >= 2
    <3>1. ~ Begins(q, o)
      BY <1>4, <2>1, EndsDiffer
    <3>2. Front(q) \in T /\ ~ Begins(Front(q), o)
      BY <2>1, <3>1, LongTuples
    <3>3. e[q] = c[q] /\ e[Front(q)] = c[Front(q)]
      BY <1>3, <3>1, <3>2
    <3>4. PICK r \in T : /\ r = Reverse(q) /\ Begins(r, o) /\ Tail(r) = Reverse(Front(q))
      BY <1>4, <2>0, ReversedEnds
    <3>5. c[r] >= c[Tail(r)]
      BY <1>1, <3>4 DEF PrefixFeasible
    <3>6. c[q] = c[r] /\ c[Front(q)] = c[Tail(r)]
      BY <3>2, <3>4 DEF Even
    <3> QED BY <3>3, <3>5, <3>6
  <2>2. CASE ~ (Len(q) >= 2)
    <3>1. Front(q) = <<>> /\ q = <<o>>
      BY <1>4, <2>0, <2>2, OneOwner
    <3>2. /\ e[<<>>] = 1
          /\ e[<<o>>] = IF o = o THEN c[<<o>>] - 1 ELSE c[<<o>>]
          /\ c[<<o>>] \in Int
      <4>1. /\ SubtractPrefix(c, o)[<<>>] = 1
            /\ \A p \in 0 .. d - 1 :
                  /\ c[<<p>>] \in Int
                  /\ SubtractPrefix(c, o)[<<p>>] = IF p = o THEN c[<<p>>] - 1 ELSE c[<<p>>]
        BY <1>1, ShortCounts
      <4> QED BY <4>1
    <3>3. PICK k \in Int : k = c[<<o>>] /\ k >= 2 /\ e[<<o>>] = k - 1
      BY <3>2
    <3>4. e[q] = k - 1 /\ e[Front(q)] = 1
      BY <3>1, <3>2, <3>3
    <3> QED BY <3>3, <3>4
  <2> QED BY <2>1, <2>2
<1>5. SuffixFeasible(e, o)
  BY <1>2, <1>4 DEF SuffixFeasible
<1> QED BY <1>5

(* A pair of moves keeps counts even.                                      *)
LEMMA BothEven ==
    ASSUME NEW d \in DiceCounts, NEW c \in [TuplesOf[d] -> Int], Even(d, c), NEW o
    PROVE  Even(d, SubtractSuffix(SubtractPrefix(c, o), o))
<1> PICK T : T = TuplesOf[d]
  OBVIOUS
<1> PICK e : e = SubtractPrefix(c, o)
  OBVIOUS
<1> PICK g : g = SubtractSuffix(e, o)
  OBVIOUS
<1>2. e \in [T -> Int] /\ e \in [TuplesOf[d] -> Int]
  BY MovesTyped
<1>3. \A q \in T : e[q] = (IF Begins(q, o) THEN c[q] - c[Tail(q)] ELSE c[q]) /\ c[q] \in Int
  BY MovesAt
<1>4. \A q \in T : g[q] = IF Ends(q, o) THEN e[q] - e[Front(q)] ELSE e[q]
  BY <1>2, MovesAt
<1>5. ASSUME NEW q \in T, Len(q) >= 2
      PROVE  g[q] = IF Begins(q, o) THEN c[q] - c[Tail(q)]
                    ELSE IF Ends(q, o) THEN c[q] - c[Front(q)] ELSE c[q]
  <2>1. ~ (Begins(q, o) /\ Ends(q, o))
    BY <1>5, EndsDiffer
  <2>2. Front(q) \in T /\ (Begins(Front(q), o) <=> Begins(q, o))
    BY <1>5, LongTuples
  <2>3. Ends(q, o) => e[q] = c[q] /\ e[Front(q)] = c[Front(q)]
    BY <1>3, <2>1, <2>2
  <2> QED BY <1>3, <1>4, <2>1, <2>3
<1>6. ASSUME NEW q \in T PROVE g[q] = g[Reverse(q)]
  <2>1. CASE Len(q) >= 2
    <3>1. q # <<>> /\ Tail(q) \in T /\ Front(q) \in T
      BY <2>1, LongTuples
    <3>2. PICK r \in T : /\ r = Reverse(q) /\ Len(r) = Len(q)
                         /\ Begins(r, o) <=> Ends(q, o)
                         /\ Ends(r, o) <=> Begins(q, o)
                         /\ Tail(r) = Reverse(Front(q)) /\ Front(r) = Reverse(Tail(q))
      BY <3>1, ReversedEnds
    <3>3. c[r] = c[q] /\ c[Tail(r)] = c[Front(q)] /\ c[Front(r)] = c[Tail(q)]
      BY <3>1, <3>2 DEF Even
    <3>4. g[q] = IF Begins(q, o) THEN c[q] - c[Tail(q)]
                 ELSE IF Ends(q, o) THEN c[q] - c[Front(q)] ELSE c[q]
      BY <1>5, <2>1
    <3>5. g[r] = IF Begins(r, o) THEN c[r] - c[Tail(r)]
                 ELSE IF Ends(r, o) THEN c[r] - c[Front(r)] ELSE c[r]
      <4>1. Len(r) >= 2
        BY <2>1, <3>2
      <4> QED BY <1>5, <4>1
    <3>6. ~ (Begins(q, o) /\ Ends(q, o))
      BY <2>1, EndsDiffer
    <3>7. g[q] = g[r]
      BY <3>2, <3>3, <3>4, <3>5, <3>6
    <3> QED BY <3>2, <3>7
  <2>2. CASE ~ (Len(q) >= 2)
    <3>1. q \in Seq(0 .. d - 1)
      BY CutsFinite
    <3>2. PICK r \in Seq(0 .. d - 1) : /\ r = Reverse(q) /\ Len(r) = Len(q)
                                       /\ \A i \in 1 .. Len(q) : r[i] = q[Len(q) - i + 1]
      BY <3>1, ReverseIs
    <3>3. PICK n \in Nat : n = Len(q) /\ n < 2
      BY <2>2, <3>1, LenProperties
    <3>4. \A i \in 1 .. n : n - i + 1 = i
      BY <3>3
    <3>5. \A i \in 1 .. n : r[i] = q[i]
      <4>1. \A i \in 1 .. n : r[i] = q[n - i + 1]
        BY <3>2, <3>3
      <4> QED BY <3>4, <4>1
    <3>6. r = q
      BY <3>1, <3>2, <3>3, <3>5, SeqEqual
    <3> QED BY <3>2, <3>6
  <2> QED BY <2>1, <2>2
<1> QED BY <1>6 DEF Even

-----------------------------------------------------------------------------
(* Words that grow by a face. *)

(* One more face of an owner.                                              *)
LEMMA FacesAppend ==
    ASSUME NEW S, NEW w \in Seq(S), NEW e \in S, NEW o
    PROVE  /\ FacesOf(<<>>, o) = 0 /\ FacesOf(w, o) \in Nat
           /\ FacesOf(Append(w, e), o) = IF e = o THEN FacesOf(w, o) + 1 ELSE FacesOf(w, o)
<1>1. PICK n \in Nat : n = Len(w) /\ DOMAIN w = 1 .. n
  BY LenProperties
<1> PICK a : a = Append(w, e)
  OBVIOUS
<1>2. PICK m \in Nat : m = n + 1
  OBVIOUS
<1>3. a \in Seq(S) /\ DOMAIN a = 1 .. m /\ a[m] = e /\ \A i \in 1 .. n : a[i] = w[i]
  <2>1. /\ a \in Seq(S) /\ Len(a) = Len(w) + 1 /\ a[Len(w) + 1] = e
        /\ \A i \in 1 .. Len(w) : a[i] = w[i]
    BY AppendProperties
  <2>2. Len(a) = m
    BY <1>1, <1>2, <2>1
  <2>3. DOMAIN a = 1 .. m
    BY <2>1, <2>2, LenProperties
  <2> QED BY <1>1, <1>2, <2>1, <2>3
<1> PICK F : F = {i \in 1 .. n : w[i] = o}
  OBVIOUS
<1> PICK G : G = {i \in 1 .. m : a[i] = o}
  OBVIOUS
<1>4. IsFiniteSet(F) /\ m \notin F
  <2>1. IsFiniteSet(1 .. n)
    BY FS_Interval
  <2>2. F \subseteq 1 .. n
    OBVIOUS
  <2> QED BY <1>2, <2>1, <2>2, FS_Subset
<1>5. Cardinality(F) \in Nat
  BY <1>4, FS_CardinalityType
<1>6. FacesOf(w, o) = Cardinality(F) /\ FacesOf(a, o) = Cardinality(G)
  BY <1>1, <1>3 DEF FacesOf
<1>7. G = IF e = o THEN F \union {m} ELSE F
  <2>1. ASSUME NEW i \in 1 .. m PROVE i \in 1 .. n \/ i = m
    BY <1>2
  <2>2. \A i \in 1 .. n : i \in 1 .. m
    BY <1>2
  <2>3. m \in 1 .. m
    BY <1>2
  <2> QED BY <1>3, <2>1, <2>2, <2>3
<1>8. Cardinality(F \union {m}) = Cardinality(F) + 1
  BY <1>4, FS_AddElement
<1>9. FacesOf(<<>>, o) = 0
  <2>1. {i \in DOMAIN <<>> : <<>>[i] = o} = {}
    OBVIOUS
  <2> QED BY <2>1, FS_EmptySet DEF FacesOf
<1> QED BY <1>5, <1>6, <1>7, <1>8, <1>9

(* What is appended comes first from behind.                               *)
LEMMA ReverseAppend ==
    ASSUME NEW S, NEW w \in Seq(S), NEW e \in S
    PROVE  /\ Reverse(w) \in Seq(S)
           /\ Reverse(Append(w, e)) = <<e>> \o Reverse(w)
<1>1. PICK n \in Nat : n = Len(w)
  BY LenProperties
<1>2. PICK m \in Nat : m = n + 1
  OBVIOUS
<1>3. PICK r \in Seq(S) : /\ r = Reverse(w) /\ Len(r) = n
                          /\ \A i \in 1 .. n : r[i] = w[n - i + 1]
  BY <1>1, ReverseIs
<1>4. PICK a \in Seq(S) : /\ a = Append(w, e) /\ Len(a) = m /\ a[m] = e
                          /\ \A i \in 1 .. n : a[i] = w[i]
  <2> PICK a : a = Append(w, e)
    OBVIOUS
  <2>1. /\ a \in Seq(S) /\ Len(a) = Len(w) + 1 /\ a[Len(w) + 1] = e
        /\ \A i \in 1 .. Len(w) : a[i] = w[i]
    BY AppendProperties
  <2> QED BY <1>1, <1>2, <2>1
<1>5. PICK b \in Seq(S) : /\ b = Reverse(a) /\ Len(b) = m
                          /\ \A i \in 1 .. m : b[i] = a[m - i + 1]
  <2>1. PICK b \in Seq(S) : /\ b = Reverse(a) /\ Len(b) = Len(a)
                            /\ \A i \in 1 .. Len(a) : b[i] = a[Len(a) - i + 1]
    BY ReverseIs
  <2> QED BY <1>4, <2>1
<1> PICK z : z = <<e>>
  OBVIOUS
<1>6. z \in Seq(S) /\ Len(z) = 1 /\ z[1] = e
  OBVIOUS
<1>7. PICK c \in Seq(S) : /\ c = z \o r /\ Len(c) = m /\ c[1] = e
                          /\ \A i \in 1 .. n : c[i + 1] = r[i]
  <2> PICK c : c = z \o r
    OBVIOUS
  <2>1. /\ c \in Seq(S) /\ Len(c) = Len(z) + Len(r)
        /\ \A i \in 1 .. Len(z) + Len(r) : c[i] = IF i <= Len(z) THEN z[i] ELSE r[i - Len(z)]
    BY <1>6, ConcatProperties
  <2>2. Len(c) = m /\ \A i \in 1 .. m : c[i] = IF i <= 1 THEN z[i] ELSE r[i - 1]
    <3>1. Len(z) + Len(r) = m
      BY <1>2, <1>3, <1>6
    <3> QED BY <1>6, <2>1, <3>1
  <2>3. c[1] = e
    BY <1>2, <1>6, <2>2
  <2>4. ASSUME NEW i \in 1 .. n PROVE c[i + 1] = r[i]
    <3>1. i + 1 \in 1 .. m /\ ~ (i + 1 <= 1) /\ i + 1 - 1 = i
      BY <1>2
    <3> QED BY <2>2, <3>1
  <2> QED BY <2>1, <2>2, <2>3, <2>4
<1>8. ASSUME NEW i \in 1 .. m PROVE b[i] = c[i]
  <2>1. CASE i = 1
    <3>1. m - i + 1 = m /\ m \in 1 .. m
      BY <1>2, <2>1
    <3> QED BY <1>4, <1>5, <1>7, <2>1, <3>1
  <2>2. CASE i # 1
    <3>1. PICK j \in 1 .. n : i = j + 1
      <4>1. i - 1 \in 1 .. n /\ i = i - 1 + 1
        BY <1>2, <2>2
      <4> QED BY <4>1
    <3>2. n - j + 1 \in 1 .. n /\ m - i + 1 = n - j + 1
      BY <1>2, <3>1
    <3>3. b[i] = a[m - i + 1]
      BY <1>5
    <3>4. a[n - j + 1] = w[n - j + 1]
      BY <1>4, <3>2
    <3>5. c[i] = r[j] /\ r[j] = w[n - j + 1]
      BY <1>3, <1>7, <3>1
    <3> QED BY <3>2, <3>3, <3>4, <3>5
  <2> QED BY <2>1, <2>2
<1>9. b = c
  BY <1>5, <1>7, <1>8, SeqEqual
<1> QED BY <1>3, <1>4, <1>5, <1>7, <1>9

(* The owners of a word, as a set.                                         *)
Owned(w) == {w[i] : i \in 1 .. Len(w)}

(* One more owner of faces.                                                *)
LEMMA OwnedAppend ==
    ASSUME NEW S, NEW w \in Seq(S), NEW e \in S
    PROVE  /\ Owned(<<>>) = {}
           /\ Owned(Append(w, e)) = Owned(w) \union {e}
<1>1. PICK n \in Nat : n = Len(w)
  BY LenProperties
<1>2. PICK m \in Nat : m = n + 1
  OBVIOUS
<1>3. PICK a \in Seq(S) : /\ a = Append(w, e) /\ Len(a) = m /\ a[m] = e
                          /\ \A i \in 1 .. n : a[i] = w[i]
  <2> PICK a : a = Append(w, e)
    OBVIOUS
  <2>1. /\ a \in Seq(S) /\ Len(a) = Len(w) + 1 /\ a[Len(w) + 1] = e
        /\ \A i \in 1 .. Len(w) : a[i] = w[i]
    BY AppendProperties
  <2> QED BY <1>1, <1>2, <2>1
<1>4. \A i \in 1 .. m : i \in 1 .. n \/ i = m
  BY <1>2
<1>5. \A i \in 1 .. n : i \in 1 .. m
  BY <1>2
<1>6. m \in 1 .. m
  BY <1>2
<1>7. Owned(a) = Owned(w) \union {e}
  <2>1. Owned(a) = {a[i] : i \in 1 .. m} /\ Owned(w) = {w[i] : i \in 1 .. n}
    BY <1>1, <1>3 DEF Owned
  <2> QED BY <1>3, <1>4, <1>5, <1>6, <2>1, SMTT(30)
<1>8. Owned(<<>>) = {}
  BY DEF Owned
<1> QED BY <1>3, <1>7, <1>8

-----------------------------------------------------------------------------
(* A move the plan allows keeps a state exact. *)

Allowed(d, c, o, end) ==
    /\ c \in [TuplesOf[d] -> Nat] /\ c[<<>>] = 1 /\ o \in 0 .. d - 1
    /\ end \in {"left", "right", "both"}
    /\ end = "both" => Even(d, c) /\ c[<<o>>] >= 2
    /\ end = "right" => SuffixFeasible(c, o)
    /\ end # "right" => PrefixFeasible(c, o)

(* A move that is allowed leaves natural numbers, even ones when it is a   *)
(* pair.                                                                   *)
LEMMA SubtractTyped ==
    ASSUME NEW d \in DiceCounts, NEW c, NEW o, NEW end, Allowed(d, c, o, end)
    PROVE  /\ Subtract(c, o, end) \in [TuplesOf[d] -> Nat]
           /\ end = "both" => Even(d, Subtract(c, o, end))
<1>1. c \in [TuplesOf[d] -> Nat] /\ c[<<>>] = 1 /\ o \in 0 .. d - 1
  BY DEF Allowed
<1>2. c \in [TuplesOf[d] -> Int]
  BY <1>1
<1>3. CASE end = "left"
  <2>1. PrefixFeasible(c, o)
    BY <1>3 DEF Allowed
  <2>2. SubtractPrefix(c, o) \in [TuplesOf[d] -> Nat]
    BY <1>1, <2>1, FeasibleLeft
  <2> QED BY <1>3, <2>2 DEF Subtract
<1>4. CASE end = "right"
  <2>1. SuffixFeasible(c, o)
    BY <1>4 DEF Allowed
  <2>2. SubtractSuffix(c, o) \in [TuplesOf[d] -> Nat]
    BY <1>1, <2>1, FeasibleRight
  <2> QED BY <1>4, <2>2 DEF Subtract
<1>5. CASE end = "both"
  <2>1. PrefixFeasible(c, o) /\ Even(d, c) /\ c[<<o>>] >= 2
    BY <1>5 DEF Allowed
  <2> PICK e : e = SubtractPrefix(c, o)
    OBVIOUS
  <2>2. e \in [TuplesOf[d] -> Nat]
    BY <1>1, <2>1, FeasibleLeft
  <2>3. SuffixFeasible(e, o)
    BY <1>1, <2>1, BothFeasible
  <2>4. SubtractSuffix(e, o) \in [TuplesOf[d] -> Nat]
    BY <2>2, <2>3, FeasibleRight
  <2>5. Even(d, SubtractSuffix(e, o))
    BY <1>2, <2>1, BothEven
  <2> QED BY <1>5, <2>4, <2>5 DEF Subtract
<1>6. end \in {"left", "right", "both"}
  BY DEF Allowed
<1> QED BY <1>3, <1>4, <1>5, <1>6

(* And takes its faces from the count of its owner.                        *)
LEMMA SubtractShort ==
    ASSUME NEW d \in DiceCounts, NEW c, NEW o, NEW end, Allowed(d, c, o, end)
    PROVE  /\ Subtract(c, o, end)[<<>>] = 1
           /\ \A p \in 0 .. d - 1 :
                  Subtract(c, o, end)[<<p>>] = IF p = o THEN c[<<p>>] - Faces(end) ELSE c[<<p>>]
<1>1. c[<<>>] = 1 /\ c \in [TuplesOf[d] -> Int]
  BY DEF Allowed
<1> PICK e : e = SubtractPrefix(c, o)
  OBVIOUS
<1> PICK f : f = SubtractSuffix(c, o)
  OBVIOUS
<1> PICK g : g = SubtractSuffix(e, o)
  OBVIOUS
<1>2. /\ e[<<>>] = 1 /\ f[<<>>] = 1
      /\ \A p \in 0 .. d - 1 :
             /\ c[<<p>>] \in Int
             /\ e[<<p>>] = IF p = o THEN c[<<p>>] - 1 ELSE c[<<p>>]
             /\ f[<<p>>] = IF p = o THEN c[<<p>>] - 1 ELSE c[<<p>>]
  BY <1>1, ShortCounts
<1>3. e \in [TuplesOf[d] -> Int]
  BY <1>1, MovesTyped
<1>4. /\ g[<<>>] = 1
      /\ \A p \in 0 .. d - 1 : g[<<p>>] = IF p = o THEN e[<<p>>] - 1 ELSE e[<<p>>]
  BY <1>2, <1>3, ShortCounts
<1>5. \A p \in 0 .. d - 1 : g[<<p>>] = IF p = o THEN c[<<p>>] - 2 ELSE c[<<p>>]
  <2> SUFFICES ASSUME NEW p \in 0 .. d - 1
               PROVE  g[<<p>>] = IF p = o THEN c[<<p>>] - 2 ELSE c[<<p>>]
    OBVIOUS
  <2>1. /\ c[<<p>>] \in Int
        /\ e[<<p>>] = IF p = o THEN c[<<p>>] - 1 ELSE c[<<p>>]
        /\ g[<<p>>] = IF p = o THEN e[<<p>>] - 1 ELSE e[<<p>>]
    BY <1>2, <1>4
  <2> QED BY ONLY <2>1
<1>6. CASE end = "left"
  BY <1>2, <1>6 DEF Subtract, Faces
<1>7. CASE end = "right"
  BY <1>2, <1>7 DEF Subtract, Faces
<1>8. CASE end = "both"
  BY <1>4, <1>5, <1>8 DEF Subtract, Faces
<1>9. end \in {"left", "right", "both"}
  BY DEF Allowed
<1> QED BY <1>6, <1>7, <1>8, <1>9

(* In an exact state what the plan makes sure of is enough for a move.     *)
LEMMA MoveAllowed ==
    ASSUME NEW d \in DiceCounts, NEW sides, NEW mirror, NEW s, NEW o, NEW end,
           Exact(d, sides, mirror, s), CanMove(d, mirror, s, o, end)
    PROVE  Allowed(d, s.residual, o, end)
<1>1. s.residual \in [TuplesOf[d] -> Nat] /\ s.residual[<<>>] = 1
  BY DEF Exact, StateTyped, FacesCounted
<1>2. o \in 0 .. d - 1 /\ end \in {"left", "right", "both"}
  BY DEF CanMove
<1>3. ASSUME end = "both" PROVE Even(d, s.residual) /\ s.residual[<<o>>] >= 2
  <2>1. mirror
    BY <1>3 DEF CanMove
  <2>2. Even(d, s.residual)
    BY <2>1 DEF Exact, Mirrored, Even
  <2>3. s.residual[<<o>>] = s.remaining[o]
    BY <1>2 DEF Exact, FacesCounted
  <2>4. s.remaining[o] >= 2
    BY <1>3 DEF CanMove, Faces
  <2> QED BY <2>2, <2>3, <2>4
<1>4. end = "right" => SuffixFeasible(s.residual, o)
  BY DEF CanMove
<1>5. end # "right" => PrefixFeasible(s.residual, o)
  BY DEF CanMove
<1> QED BY <1>1, <1>2, <1>3, <1>4, <1>5 DEF Allowed

(* The fields of the state after a move.                                   *)
LEMMA MovedFields ==
    ASSUME NEW s, NEW step
    PROVE  /\ Moved(s, step).residual = Subtract(s.residual, step.owner, step.end)
           /\ Moved(s, step).remaining
                  = [s.remaining EXCEPT ![step.owner] = s.remaining[step.owner] - Faces(step.end)]
           /\ Moved(s, step).left = IF step.end \in {"left", "both"}
                                    THEN Append(s.left, step.owner) ELSE s.left
           /\ Moved(s, step).right = IF step.end \in {"right", "both"}
                                     THEN Append(s.right, step.owner) ELSE s.right
           /\ Moved(s, step).used = IF step.end # "right" /\ step.owner = s.used
                                    THEN s.used + 1 ELSE s.used
  BY DEF Moved

(* A move leaves a state of the right shape.                               *)
LEMMA MoveTyped ==
    ASSUME NEW d \in DiceCounts, NEW sides, NEW mirror, NEW s, NEW step,
           Exact(d, sides, mirror, s), CanMove(d, mirror, s, step.owner, step.end)
    PROVE  StateTyped(d, Moved(s, step))
<1> PICK o : o = step.owner
  OBVIOUS
<1> PICK end : end = step.end
  OBVIOUS
<1> PICK t : t = Moved(s, step)
  OBVIOUS
<1>1. Allowed(d, s.residual, o, end)
  BY MoveAllowed
<1>2. /\ s.remaining \in [0 .. d - 1 -> Nat] /\ s.left \in Seq(0 .. d - 1)
      /\ s.right \in Seq(0 .. d - 1) /\ s.used \in 0 .. d
  BY DEF Exact, StateTyped
<1>3. o \in 0 .. d - 1 /\ end \in {"left", "right", "both"} /\ s.remaining[o] >= Faces(end)
  BY DEF CanMove
<1>4. t.residual \in [TuplesOf[d] -> Nat]
  <2>1. t.residual = Subtract(s.residual, o, end)
    BY MovedFields
  <2>2. Subtract(s.residual, o, end) \in [TuplesOf[d] -> Nat]
    BY <1>1, SubtractTyped
  <2> QED BY <2>1, <2>2
<1>5. t.remaining \in [0 .. d - 1 -> Nat]
  <2>1. t.remaining = [s.remaining EXCEPT ![o] = s.remaining[o] - Faces(end)]
    BY MovedFields
  <2>2. s.remaining[o] - Faces(end) \in Nat
    <3>1. PICK k \in Nat : k = s.remaining[o]
      BY <1>2, <1>3
    <3>2. Faces(end) = 1 \/ Faces(end) = 2
      BY DEF Faces
    <3> QED BY <1>3, <3>1, <3>2
  <2> QED BY <1>2, <2>1, <2>2
<1>6. t.left \in Seq(0 .. d - 1)
  <2>1. Append(s.left, o) \in Seq(0 .. d - 1)
    BY <1>2, <1>3
  <2> QED BY <1>2, <2>1, MovedFields
<1>7. t.right \in Seq(0 .. d - 1)
  <2>1. Append(s.right, o) \in Seq(0 .. d - 1)
    BY <1>2, <1>3
  <2> QED BY <1>2, <2>1, MovedFields
<1>8. t.used \in 0 .. d
  <2>1. t.used = IF end # "right" /\ o = s.used THEN s.used + 1 ELSE s.used
    BY MovedFields
  <2>2. d \in Nat
    BY SizesAssumption DEF DiceCounts
  <2> QED BY <1>2, <1>3, <2>1, <2>2
<1> QED BY <1>4, <1>5, <1>6, <1>7, <1>8 DEF StateTyped

(* A move takes the faces it places from those left.                       *)
LEMMA MoveCounted ==
    ASSUME NEW d \in DiceCounts, NEW sides \in Nat, NEW mirror, NEW s, NEW step,
           Exact(d, sides, mirror, s), CanMove(d, mirror, s, step.owner, step.end)
    PROVE  FacesCounted(d, sides, Moved(s, step))
<1> PICK o : o = step.owner
  OBVIOUS
<1> PICK end : end = step.end
  OBVIOUS
<1> PICK t : t = Moved(s, step)
  OBVIOUS
<1>1. Allowed(d, s.residual, o, end)
  BY MoveAllowed
<1>2. /\ s.remaining \in [0 .. d - 1 -> Nat] /\ s.left \in Seq(0 .. d - 1)
      /\ s.right \in Seq(0 .. d - 1)
  BY DEF Exact, StateTyped
<1>3. o \in 0 .. d - 1 /\ end \in {"left", "right", "both"}
  BY DEF CanMove
<1>4. t.residual = Subtract(s.residual, o, end)
  BY MovedFields
<1>5. t.residual[<<>>] = 1
  BY <1>1, <1>4, SubtractShort
<1>6. ASSUME NEW p \in 0 .. d - 1
      PROVE  /\ t.residual[<<p>>] = t.remaining[p]
             /\ t.remaining[p] = sides - FacesOf(t.left, p) - FacesOf(t.right, p)
  <2>1. /\ s.residual[<<p>>] = s.remaining[p]
        /\ s.remaining[p] = sides - FacesOf(s.left, p) - FacesOf(s.right, p)
    BY DEF Exact, FacesCounted
  <2>2. t.residual[<<p>>] = IF p = o THEN s.residual[<<p>>] - Faces(end) ELSE s.residual[<<p>>]
    BY <1>1, <1>4, SubtractShort
  <2>3. t.remaining[p] = IF p = o THEN s.remaining[p] - Faces(end) ELSE s.remaining[p]
    <3>1. t.remaining = [s.remaining EXCEPT ![o] = s.remaining[o] - Faces(end)]
      BY MovedFields
    <3> QED BY <1>2, <1>3, <3>1
  <2>4. /\ FacesOf(s.left, p) \in Nat
        /\ FacesOf(Append(s.left, o), p)
               = IF o = p THEN FacesOf(s.left, p) + 1 ELSE FacesOf(s.left, p)
    <3> PICK S : S = 0 .. d - 1
      OBVIOUS
    <3> PICK w \in Seq(S) : w = s.left
      BY <1>2
    <3>0. o \in S
      BY <1>3
    <3>1. /\ FacesOf(w, p) \in Nat
          /\ FacesOf(Append(w, o), p) = IF o = p THEN FacesOf(w, p) + 1 ELSE FacesOf(w, p)
      BY ONLY <3>0, FacesAppend
    <3> QED BY <3>1
  <2>5. /\ FacesOf(s.right, p) \in Nat
        /\ FacesOf(Append(s.right, o), p)
               = IF o = p THEN FacesOf(s.right, p) + 1 ELSE FacesOf(s.right, p)
    <3> PICK S : S = 0 .. d - 1
      OBVIOUS
    <3> PICK w \in Seq(S) : w = s.right
      BY <1>2
    <3>0. o \in S
      BY <1>3
    <3>1. /\ FacesOf(w, p) \in Nat
          /\ FacesOf(Append(w, o), p) = IF o = p THEN FacesOf(w, p) + 1 ELSE FacesOf(w, p)
      BY ONLY <3>0, FacesAppend
    <3> QED BY <3>1
  <2>6. /\ t.left  = IF end \in {"left", "both"} THEN Append(s.left, o) ELSE s.left
        /\ t.right = IF end \in {"right", "both"} THEN Append(s.right, o) ELSE s.right
    BY MovedFields
  <2> PICK x \in Nat : x = FacesOf(s.left, p)
    BY <2>4
  <2> PICK y \in Nat : y = FacesOf(s.right, p)
    BY <2>5
  <2>7. /\ FacesOf(t.left, p) = IF end \in {"left", "both"} /\ o = p THEN x + 1 ELSE x
        /\ FacesOf(t.right, p) = IF end \in {"right", "both"} /\ o = p THEN y + 1 ELSE y
    BY <2>4, <2>5, <2>6
  <2>8. s.remaining[p] = sides - x - y
    BY <2>1
  <2>9. Faces(end) = IF end = "both" THEN 2 ELSE 1
    BY DEF Faces
  <2>10. t.remaining[p] = sides - FacesOf(t.left, p) - FacesOf(t.right, p)
    BY <1>3, <2>3, <2>7, <2>8, <2>9
  <2> QED BY <2>1, <2>2, <2>3, <2>10
<1> QED BY <1>5, <1>6 DEF FacesCounted

(* The ends of a state are words, and their counts are numbers.            *)
LEMMA EndsTyped ==
    ASSUME NEW d \in DiceCounts, NEW s, StateTyped(d, s)
    PROVE  /\ s.left \in Seq(0 .. d - 1) /\ s.right \in Seq(0 .. d - 1)
           /\ s.residual \in [TuplesOf[d] -> Int]
           /\ WaysLeft(d, s) \in [TuplesOf[d] -> Int] /\ WaysRight(d, s) \in [TuplesOf[d] -> Int]
<1>1. s.left \in Seq(0 .. d - 1) /\ s.right \in Seq(0 .. d - 1)
  BY DEF StateTyped
<1>2. s.residual \in [TuplesOf[d] -> Int]
  BY DEF StateTyped
<1>3. PICK l \in Seq(0 .. d - 1) : l = s.left
  BY <1>1
<1>4. PICK r \in Seq(0 .. d - 1) : r = Reverse(s.right)
  BY <1>1, ReverseIs
<1>5. WaysAmong(TuplesOf[d], l) \in [TuplesOf[d] -> Int]
  BY WaysTyped
<1>6. WaysAmong(TuplesOf[d], r) \in [TuplesOf[d] -> Int]
  BY WaysTyped
<1> QED BY <1>1, <1>2, <1>3, <1>4, <1>5, <1>6 DEF WaysLeft, WaysRight

(* The face a move places is one more on its side of the targets' sum.     *)
LEMMA MoveTargets ==
    ASSUME NEW d \in DiceCounts, NEW sides, NEW mirror, NEW s, NEW step,
           Exact(d, sides, mirror, s), CanMove(d, mirror, s, step.owner, step.end)
    PROVE  TargetsMade(d, sides, Moved(s, step))
<1> PICK T : T = TuplesOf[d]
  OBVIOUS
<1> PICK o : o = step.owner
  OBVIOUS
<1> PICK end : end = step.end
  OBVIOUS
<1> PICK t : t = Moved(s, step)
  OBVIOUS
<1> PICK B : B = WaysLeft(d, s)
  OBVIOUS
<1> PICK E : E = WaysRight(d, s)
  OBVIOUS
<1> PICK M : M = s.residual
  OBVIOUS
<1>1. B \in [TuplesOf[d] -> Int] /\ E \in [TuplesOf[d] -> Int] /\ M \in [TuplesOf[d] -> Int]
  BY EndsTyped DEF Exact
<1>2. \A q \in T : Joined(B, M, E, q) = TargetsOf[<<d, sides>>][q]
  BY DEF Exact, TargetsMade
<1>3. o \in 0 .. d - 1 /\ end \in {"left", "right", "both"}
  BY DEF CanMove
<1>4. WaysLeft(d, t) = IF end \in {"left", "both"} THEN RestoreSuffix(B, o) ELSE B
  <2>1. PICK l \in Seq(0 .. d - 1) : l = s.left
    BY EndsTyped DEF Exact
  <2>2. WaysAmong(T, Append(l, o)) = RestoreSuffix(WaysAmong(T, l), o)
    <3> PICK S : S = 0 .. d - 1
      OBVIOUS
    <3>1. o \in S /\ l \in Seq(S)
      BY <1>3
    <3> QED BY ONLY <3>1, WaysAppend
  <2>3. t.left = IF end \in {"left", "both"} THEN Append(l, o) ELSE l
    BY <2>1, MovedFields
  <2> QED BY <2>1, <2>2, <2>3 DEF WaysLeft
<1>5. WaysRight(d, t) = IF end \in {"right", "both"} THEN RestorePrefix(E, o) ELSE E
  <2>1. PICK r \in Seq(0 .. d - 1) : r = s.right
    BY EndsTyped DEF Exact
  <2>2. PICK w \in Seq(0 .. d - 1) : w = Reverse(r)
    BY ReverseIs
  <2>3. Reverse(Append(r, o)) = <<o>> \o w
    BY <1>3, <2>2, ReverseAppend
  <2>4. WaysAmong(T, <<o>> \o w) = RestorePrefix(WaysAmong(T, w), o)
    BY <1>3, WaysPrepend
  <2>5. t.right = IF end \in {"right", "both"} THEN Append(r, o) ELSE r
    BY <2>1, MovedFields
  <2>6. E = WaysAmong(T, w)
    BY <2>1, <2>2 DEF WaysRight
  <2>7. CASE end \in {"right", "both"}
    <3>1. WaysRight(d, t) = WaysAmong(T, Reverse(Append(r, o)))
      BY <2>5, <2>7 DEF WaysRight
    <3> QED BY <2>3, <2>4, <2>6, <2>7, <3>1
  <2>8. CASE end \notin {"right", "both"}
    <3>1. WaysRight(d, t) = WaysAmong(T, Reverse(r))
      BY <2>5, <2>8 DEF WaysRight
    <3> QED BY <2>2, <2>6, <2>8, <3>1
  <2> QED BY <2>7, <2>8
<1>6. t.residual = Subtract(M, o, end)
  BY MovedFields
<1>7. ASSUME NEW q \in T
      PROVE  Joined(WaysLeft(d, t), t.residual, WaysRight(d, t), q) = Joined(B, M, E, q)
  <2>1. CASE end = "left"
    <3>1. /\ WaysLeft(d, t) = RestoreSuffix(B, o) /\ WaysRight(d, t) = E
          /\ t.residual = SubtractPrefix(M, o)
      BY <1>4, <1>5, <1>6, <2>1 DEF Subtract
    <3>2. Joined(RestoreSuffix(B, o), SubtractPrefix(M, o), E, q) = Joined(B, M, E, q)
      BY <1>1, JoinLeft
    <3> QED BY <3>1, <3>2
  <2>2. CASE end = "right"
    <3>1. /\ WaysLeft(d, t) = B /\ WaysRight(d, t) = RestorePrefix(E, o)
          /\ t.residual = SubtractSuffix(M, o)
      BY <1>4, <1>5, <1>6, <2>2 DEF Subtract
    <3>2. Joined(B, SubtractSuffix(M, o), RestorePrefix(E, o), q) = Joined(B, M, E, q)
      BY <1>1, JoinRight
    <3> QED BY <3>1, <3>2
  <2>3. CASE end = "both"
    <3> PICK C : C = RestoreSuffix(B, o)
      OBVIOUS
    <3> PICK N : N = SubtractPrefix(M, o)
      OBVIOUS
    <3>1. /\ WaysLeft(d, t) = C /\ WaysRight(d, t) = RestorePrefix(E, o)
          /\ t.residual = SubtractSuffix(N, o)
      BY <1>4, <1>5, <1>6, <2>3 DEF Subtract
    <3>2. C \in [TuplesOf[d] -> Int] /\ N \in [TuplesOf[d] -> Int]
      BY <1>1, MovesTyped
    <3>3. Joined(C, N, E, q) = Joined(B, M, E, q)
      BY <1>1, JoinLeft
    <3>4. Joined(C, SubtractSuffix(N, o), RestorePrefix(E, o), q) = Joined(C, N, E, q)
      BY <1>1, <3>2, JoinRight
    <3> QED BY <3>1, <3>3, <3>4
  <2> QED BY <1>3, <2>1, <2>2, <2>3
<1> QED BY <1>2, <1>7 DEF TargetsMade

(* A mirrored move leaves the counts mirrored.                             *)
LEMMA MoveMirrored ==
    ASSUME NEW d \in DiceCounts, NEW sides, NEW mirror, NEW s, NEW step,
           Exact(d, sides, mirror, s), CanMove(d, mirror, s, step.owner, step.end)
    PROVE  Mirrored(d, mirror, Moved(s, step))
<1>1. mirror => step.end = "both"
  BY DEF CanMove
<1>2. Allowed(d, s.residual, step.owner, step.end)
  BY MoveAllowed
<1>3. step.end = "both" => Even(d, Subtract(s.residual, step.owner, step.end))
  BY <1>2, SubtractTyped
<1>4. Moved(s, step).residual = Subtract(s.residual, step.owner, step.end)
  BY MovedFields
<1> QED BY <1>1, <1>3, <1>4 DEF Mirrored, Even

(* The labels stay those seen from the left.                               *)
LEMMA MoveNames ==
    ASSUME NEW d \in DiceCounts, NEW sides, NEW mirror, NEW s, NEW step,
           Exact(d, sides, mirror, s), CanMove(d, mirror, s, step.owner, step.end)
    PROVE  NamesSeen(Moved(s, step))
<1> PICK o : o = step.owner
  OBVIOUS
<1> PICK end : end = step.end
  OBVIOUS
<1> PICK t : t = Moved(s, step)
  OBVIOUS
<1>1. d \in Nat
  BY SizesAssumption DEF DiceCounts
<1>2. PICK u \in Nat : u = s.used
  BY <1>1 DEF Exact, StateTyped
<1>3. PICK l \in Seq(0 .. d - 1) : l = s.left
  BY EndsTyped DEF Exact
<1>4. Owned(l) = 0 .. u - 1
  BY <1>2, <1>3 DEF Exact, NamesSeen, Owned
<1>5. o \in 0 .. d - 1 /\ end \in {"left", "right", "both"}
  BY DEF CanMove
<1>6. Owned(Append(l, o)) = Owned(l) \union {o}
  <2> PICK S : S = 0 .. d - 1
    OBVIOUS
  <2>1. o \in S /\ l \in Seq(S)
    BY <1>5
  <2> QED BY ONLY <2>1, OwnedAppend
<1>7. /\ t.left = IF end \in {"left", "both"} THEN Append(l, o) ELSE l
      /\ t.used = IF end # "right" /\ o = u THEN u + 1 ELSE u
  BY <1>2, <1>3, MovedFields
<1>8. CASE end = "right"
  BY <1>4, <1>7, <1>8 DEF NamesSeen, Owned
<1>9. CASE end # "right"
  <2>1. o <= u
    BY <1>2, <1>9 DEF CanMove
  <2>2. Owned(t.left) = 0 .. t.used - 1
    <3>1. t.left = Append(l, o) /\ t.used = IF o = u THEN u + 1 ELSE u
      BY <1>5, <1>7, <1>9
    <3>2. Owned(t.left) = (0 .. u - 1) \union {o}
      BY <1>4, <1>6, <3>1
    <3>3. o = u => (0 .. u - 1) \union {o} = 0 .. (u + 1) - 1
      OBVIOUS
    <3>4. o # u => (0 .. u - 1) \union {o} = 0 .. u - 1
      BY <1>5, <2>1
    <3> QED BY <3>1, <3>2, <3>3, <3>4
  <2> QED BY <2>2 DEF NamesSeen, Owned
<1> QED BY <1>8, <1>9

(* A move keeps a state exact.                                             *)
LEMMA MoveExact ==
    ASSUME NEW d \in DiceCounts, NEW sides \in Nat, NEW mirror, NEW s, NEW step,
           Exact(d, sides, mirror, s), CanMove(d, mirror, s, step.owner, step.end)
    PROVE  Exact(d, sides, mirror, Moved(s, step))
<1>1. StateTyped(d, Moved(s, step))
  BY MoveTyped
<1>2. FacesCounted(d, sides, Moved(s, step))
  BY MoveCounted
<1>3. TargetsMade(d, sides, Moved(s, step))
  BY MoveTargets
<1>4. Mirrored(d, mirror, Moved(s, step))
  BY MoveMirrored
<1>5. NamesSeen(Moved(s, step))
  BY MoveNames
<1> QED BY <1>1, <1>2, <1>3, <1>4, <1>5 DEF Exact

(* And so is the one the search starts from.                               *)
LEMMA FreshExact ==
    ASSUME NEW d, NEW sides, Sized(d, sides), NEW mirror
    PROVE  Exact(d, sides, mirror, Fresh(d, sides))
<1> PICK T : T = TuplesOf[d]
  OBVIOUS
<1> PICK f : f = Fresh(d, sides)
  OBVIOUS
<1> PICK M : M = TargetsOf[<<d, sides>>]
  OBVIOUS
<1>1. /\ d \in DiceCounts /\ d \in Nat /\ d >= 2 /\ sides \in Nat /\ sides > 0
      /\ M \in [TuplesOf[d] -> Nat] /\ M[<<>>] = 1
      /\ \A o \in 0 .. d - 1 : M[<<o>>] = sides
      /\ \A q \in TuplesOf[d] : M[Reverse(q)] = M[q]
  <2>1. d \in DiceCounts /\ d \in Nat /\ d >= 2 /\ sides \in Nat /\ sides > 0
    BY TargetsAre
  <2>2. TargetsOf[<<d, sides>>] \in [TuplesOf[d] -> Nat]
    BY TargetsAre
  <2>3. TargetsOf[<<d, sides>>][<<>>] = 1
    BY TargetsAre
  <2>4. \A o \in 0 .. d - 1 : TargetsOf[<<d, sides>>][<<o>>] = sides
    BY TargetsAre
  <2>5. \A q \in TuplesOf[d] : TargetsOf[<<d, sides>>][Reverse(q)] = TargetsOf[<<d, sides>>][q]
    BY TargetsAre
  <2> QED BY <2>1, <2>2, <2>3, <2>4, <2>5, Zenon
<1>2. /\ f.residual = M /\ f.remaining = [o \in 0 .. d - 1 |-> sides]
      /\ f.left = <<>> /\ f.right = <<>> /\ f.used = 0
  BY DEF Fresh
<1>3. StateTyped(d, f)
  <2>1. <<>> \in Seq(0 .. d - 1)
    BY EmptySeq
  <2>2. f.residual \in [TuplesOf[d] -> Nat] /\ f.remaining \in [0 .. d - 1 -> Nat]
    BY <1>1, <1>2
  <2>3. f.used \in 0 .. d /\ f.left \in Seq(0 .. d - 1) /\ f.right \in Seq(0 .. d - 1)
    BY <1>1, <1>2, <2>1
  <2> QED BY <2>2, <2>3 DEF StateTyped
<1>4. FacesCounted(d, sides, f)
  <2>1. ASSUME NEW o \in 0 .. d - 1
        PROVE  /\ f.residual[<<o>>] = f.remaining[o]
               /\ f.remaining[o] = sides - FacesOf(f.left, o) - FacesOf(f.right, o)
    <3>1. FacesOf(<<>>, o) = 0
      <4>1. <<>> \in Seq({0}) /\ 0 \in {0}
        OBVIOUS
      <4> QED BY ONLY <4>1, FacesAppend
    <3>2. f.residual[<<o>>] = sides
      BY <1>1, <1>2
    <3>3. f.remaining[o] = sides
      BY <1>2
    <3>4. FacesOf(f.left, o) = 0 /\ FacesOf(f.right, o) = 0
      BY <1>2, <3>1
    <3>5. sides = sides - 0 - 0
      BY <1>1
    <3> QED BY <3>2, <3>3, <3>4, <3>5
  <2> QED BY <1>1, <1>2, <2>1 DEF FacesCounted
<1>5. TargetsMade(d, sides, f)
  <2>1. WaysAmong(T, <<>>) = NoWays(T)
    BY EmptySeq, WaysAppend
  <2>2. Reverse(<<>>) = <<>>
    BY EmptySeq, ReverseIs
  <2>3. WaysLeft(d, f) = NoWays(T) /\ WaysRight(d, f) = NoWays(T)
    BY <1>2, <2>1, <2>2 DEF WaysLeft, WaysRight
  <2>4. ASSUME NEW q \in T PROVE Joined(NoWays(T), M, NoWays(T), q) = M[q]
    <3>1. M \in [TuplesOf[d] -> Int]
      BY <1>1
    <3> QED BY <1>1, <3>1, JoinNothing
  <2> QED BY <1>2, <2>3, <2>4 DEF TargetsMade
<1>6. Mirrored(d, mirror, f)
  BY <1>1, <1>2 DEF Mirrored
<1>7. NamesSeen(f)
  BY <1>2 DEF NamesSeen
<1> QED BY <1>3, <1>4, <1>5, <1>6, <1>7 DEF Exact

-----------------------------------------------------------------------------
(* The states on the way down. *)

Replay(c, step, s) == Moved(s, step)
Anything(k, S, s)  == TRUE
States == INSTANCE Folding WITH
    Op <- Replay, Map <- At, Choose <- Max, Values <- {}, Inv <- Anything

(* The state along a stack is a fold.                                      *)
LEMMA StateIsFold ==
    ASSUME NEW s, NEW frames
    PROVE  StateAfter(s, frames) = States!Fold(frames, s, DOMAIN frames)
  BY Zenon DEF StateAfter, FoldLeft, MapThenFoldSet, States!Fold, States!MapThenFoldSet, Replay, At

(* The moves of a stack are made from the first one.                       *)
LEMMA StepsChosen ==
    ASSUME NEW n \in Nat
    PROVE  /\ States!IsFiniteSet(1 .. n) /\ 1 .. n + 1 = (1 .. n) \union {n + 1}
           /\ n + 1 \notin 1 .. n /\ Max((1 .. n) \union {n + 1}) = n + 1
           /\ States!Chooses(1 .. n) /\ States!Chooses((1 .. n) \union {n + 1})
<1>1. States!IsFiniteSet(1 .. n)
  <2>1. PICK S : S = 1 .. n
    OBVIOUS
  <2>2. IsFiniteSet(S)
    BY <2>1, FS_Interval
  <2>3. States!IsFiniteSet(S)
    BY ONLY <2>2 DEF IsFiniteSet, States!IsFiniteSet
  <2> QED BY <2>1, <2>3
<1>2. /\ 1 .. n + 1 = (1 .. n) \union {n + 1} /\ n + 1 \notin 1 .. n
      /\ Max((1 .. n) \union {n + 1}) = n + 1
  BY FacesChosen
<1>3. \A m \in Nat : States!Chooses(1 .. m)
  <2> SUFFICES ASSUME NEW m \in Nat, NEW T \in SUBSET (1 .. m), T # {} PROVE Max(T) \in T
    BY DEF States!Chooses
  <2> QED BY MaxOf
<1>4. States!Chooses(1 .. n) /\ States!Chooses((1 .. n) \union {n + 1})
  <2>1. n + 1 \in Nat
    OBVIOUS
  <2> QED BY <1>2, <1>3, <2>1
<1> QED BY <1>1, <1>2, <1>4

(* One more move.                                                          *)
LEMMA StateAppend ==
    ASSUME NEW s, NEW S, NEW frames \in Seq(S), NEW f \in S
    PROVE  /\ StateAfter(s, <<>>) = s
           /\ StateAfter(s, Append(frames, f)) = Moved(StateAfter(s, frames), f)
<1> PICK n \in Nat : n = Len(frames)
  OBVIOUS
<1> PICK w : w = Append(frames, f)
  OBVIOUS
<1>1. /\ DOMAIN frames = 1 .. n /\ DOMAIN w = 1 .. n + 1 /\ w[n + 1] = f
      /\ \A i \in 1 .. n : w[i] = frames[i]
  <2>1. w \in Seq(S) /\ Len(w) = n + 1
    BY AppendProperties
  <2> QED BY <2>1, AppendProperties, LenProperties
<1> PICK D : D = 1 .. n
  OBVIOUS
<1> PICK e : e = n + 1
  OBVIOUS
<1>2. \A i \in D : \A acc : Replay(w, At(w, i), acc) = Replay(frames, At(frames, i), acc)
  BY <1>1 DEF Replay, At
<1>3. States!Fold(w, s, D \union {e}) = Replay(w, At(w, e), States!Fold(frames, s, D))
  <2>1. /\ States!IsFiniteSet(D) /\ e \notin D /\ States!Chooses(D \union {e})
        /\ Max(D \union {e}) = e
    BY StepsChosen
  <2> QED BY ONLY <1>2, <2>1, States!FoldExtends
<1>4. States!Fold(w, s, DOMAIN w) = Moved(States!Fold(frames, s, DOMAIN frames), f)
  BY <1>1, <1>3, StepsChosen, Zenon DEF Replay, At
<1>5. StateAfter(s, w) = Moved(StateAfter(s, frames), f)
  BY <1>4, StateIsFold, Zenon
<1>6. StateAfter(s, <<>>) = s
  <2>1. StateAfter(s, <<>>) = States!Fold(<<>>, s, DOMAIN <<>>)
    BY StateIsFold, Zenon
  <2>2. DOMAIN <<>> = {} /\ States!IsFiniteSet({})
    BY FS_EmptySet DEF IsFiniteSet, States!IsFiniteSet
  <2>3. States!Chooses({})
    BY DEF States!Chooses
  <2>4. States!Fold(<<>>, s, {}) = s
    BY <2>2, <2>3, States!FoldEquation
  <2> QED BY <2>1, <2>2, <2>4
<1> QED BY <1>5, <1>6

(* Sequences that begin alike.                                             *)
LEMMA SameFront ==
    ASSUME NEW S, NEW v \in Seq(S), NEW w \in Seq(S), NEW k \in Nat,
           k <= Len(v), k <= Len(w), \A i \in 1 .. k : v[i] = w[i]
    PROVE  SubSeq(v, 1, k) = SubSeq(w, 1, k)
<1> PICK m \in Nat : m = Len(v)
  BY LenProperties
<1> PICK n \in Nat : n = Len(w)
  BY LenProperties
<1> PICK a : a = SubSeq(v, 1, k)
  OBVIOUS
<1> PICK b : b = SubSeq(w, 1, k)
  OBVIOUS
<1>1. \A i \in 1 .. k : v[i] \in S /\ w[i] \in S
  <2>1. \A i \in 1 .. k : i \in 1 .. m /\ i \in 1 .. n
    OBVIOUS
  <2> QED BY <2>1, ElementOfSeq
<1>2. a \in Seq(S) /\ Len(a) = k /\ \A i \in 1 .. k : a[i] = v[i]
  <2>1. /\ a \in Seq(S) /\ Len(a) = IF 1 <= k THEN k - 1 + 1 ELSE 0
        /\ \A i \in 1 .. k - 1 + 1 : a[i] = v[1 + i - 1]
    BY <1>1, SubSeqProperties
  <2>2. k - 1 + 1 = k /\ \A i \in 1 .. k : 1 + i - 1 = i
    OBVIOUS
  <2> QED BY <2>1, <2>2
<1>3. b \in Seq(S) /\ Len(b) = k /\ \A i \in 1 .. k : b[i] = w[i]
  <2>1. /\ b \in Seq(S) /\ Len(b) = IF 1 <= k THEN k - 1 + 1 ELSE 0
        /\ \A i \in 1 .. k - 1 + 1 : b[i] = w[1 + i - 1]
    BY <1>1, SubSeqProperties
  <2>2. k - 1 + 1 = k /\ \A i \in 1 .. k : 1 + i - 1 = i
    OBVIOUS
  <2> QED BY <2>1, <2>2
<1> QED BY <1>2, <1>3, SeqEqual

(* All elements but the last, as a subsequence.                            *)
LEMMA FrontIsSubSeq ==
    ASSUME NEW S, NEW w \in Seq(S), w # <<>>, NEW k \in Nat, k = Len(w)
    PROVE  Front(w) = SubSeq(w, 1, k - 1)
  BY DEF Front

(* The elements before the one appended.                                   *)
LEMMA AllOfIt ==
    ASSUME NEW S, NEW w \in Seq(S), NEW f \in S, NEW k \in Nat, k = Len(w) + 1
    PROVE  SubSeq(Append(w, f), 1, k - 1) = w
<1> PICK n \in Nat : n = Len(w)
  BY LenProperties
<1> PICK a \in Seq(S) : a = Append(w, f)
  BY AppendProperties
<1>1. Len(a) = n + 1 /\ \A i \in 1 .. n : a[i] = w[i]
  BY AppendProperties
<1>2. SubSeq(a, 1, n) = SubSeq(w, 1, n)
  <2>1. n <= Len(a) /\ n <= Len(w)
    BY <1>1
  <2> QED BY <1>1, <2>1, SameFront
<1>3. SubSeq(w, 1, n) = w
  BY SubSeqFull
<1>4. k - 1 = n
  OBVIOUS
<1> QED BY <1>2, <1>3, <1>4

-----------------------------------------------------------------------------
(* The frames of a stack, whatever the variables are. *)

Below(d, sides, st, k) == StateAfter(Fresh(d, sides), SubSeq(st, 1, k - 1))
FrameOk(d, sides, mirror, st, k) ==
    /\ Exact(d, sides, mirror, Below(d, sides, st, k))
    /\ st[k].used = Below(d, sides, st, k).used /\ (st[k].end = "both") = mirror
    /\ \A o \in st[k].todo : CanMove(d, mirror, Below(d, sides, st, k), o, st[k].end)
FramesOk(d, sides, mirror, st) == \A k \in 1 .. Len(st) : FrameOk(d, sides, mirror, st, k)

(* A frame looks at those before it only, and may lose owners to try.      *)
LEMMA FrameKept ==
    ASSUME NEW d, NEW sides, NEW mirror, NEW S, NEW v \in Seq(S), NEW w \in Seq(S),
           NEW k \in Nat, k >= 1, k <= Len(v), k <= Len(w), NEW m \in Nat, k = m + 1,
           \A i \in 1 .. m : v[i] = w[i],
           w[k].used = v[k].used, w[k].end = v[k].end, w[k].todo \subseteq v[k].todo,
           FrameOk(d, sides, mirror, v, k)
    PROVE  FrameOk(d, sides, mirror, w, k)
<1>1. k - 1 = m /\ m <= Len(v) /\ m <= Len(w)
  <2>1. PICK x \in Nat : x = Len(v)
    BY LenProperties
  <2>2. PICK y \in Nat : y = Len(w)
    BY LenProperties
  <2> QED BY <2>1, <2>2
<1>2. SubSeq(v, 1, m) = SubSeq(w, 1, m)
  BY <1>1, SameFront
<1>3. Below(d, sides, w, k) = Below(d, sides, v, k)
  BY <1>1, <1>2 DEF Below
<1> QED BY <1>3, Zenon DEF FrameOk

(* A frame is pushed.                                                      *)
LEMMA FramesPush ==
    ASSUME NEW d, NEW sides, NEW mirror, NEW S, NEW w \in Seq(S), NEW f \in S,
           FramesOk(d, sides, mirror, w), NEW s, s = StateAfter(Fresh(d, sides), w),
           Exact(d, sides, mirror, s), f.used = s.used, (f.end = "both") = mirror,
           \A o \in f.todo : CanMove(d, mirror, s, o, f.end)
    PROVE  FramesOk(d, sides, mirror, Append(w, f))
<1> PICK n \in Nat : n = Len(w)
  BY LenProperties
<1> PICK a \in Seq(S) : a = Append(w, f)
  BY AppendProperties
<1>1. PICK l \in Nat : l = n + 1
  OBVIOUS
<1>2. Len(a) = l /\ a[l] = f /\ \A i \in 1 .. n : a[i] = w[i]
  BY <1>1, AppendProperties
<1>3. ASSUME NEW k \in 1 .. n PROVE FrameOk(d, sides, mirror, a, k)
  <2>1. PICK m \in Nat : k = m + 1
    <3>1. k - 1 \in Nat /\ k = k - 1 + 1
      OBVIOUS
    <3> QED BY <3>1
  <2>2. k \in Nat /\ k >= 1 /\ k <= Len(w) /\ k <= Len(a)
    BY <1>1, <1>2
  <2>3. \A i \in 1 .. m : w[i] = a[i]
    <3>1. \A i \in 1 .. m : i \in 1 .. n
      BY <2>1
    <3> QED BY <1>2, <3>1
  <2>4. a[k] = w[k]
    BY <1>2
  <2>5. FrameOk(d, sides, mirror, w, k)
    BY DEF FramesOk
  <2>6. a[k].used = w[k].used /\ a[k].end = w[k].end /\ a[k].todo \subseteq w[k].todo
    BY <2>4
  <2>7. w \in Seq(S) /\ a \in Seq(S)
    OBVIOUS
  <2> QED BY ONLY <2>1, <2>2, <2>3, <2>5, <2>6, <2>7, FrameKept
<1>4. FrameOk(d, sides, mirror, a, l)
  <2>1. SubSeq(a, 1, l - 1) = w
    BY <1>1, AllOfIt
  <2>2. Below(d, sides, a, l) = s
    BY <2>1 DEF Below
  <2> QED BY <1>2, <2>2 DEF FrameOk
<1>5. \A k \in 1 .. l : k \in 1 .. n \/ k = l
  BY <1>1
<1>6. \A k \in 1 .. l : FrameOk(d, sides, mirror, a, k)
  BY <1>3, <1>4, <1>5
<1> QED BY <1>2, <1>6 DEF FramesOk

(* A frame is popped.                                                      *)
LEMMA FramesPop ==
    ASSUME NEW d, NEW sides, NEW mirror, NEW S, NEW w \in Seq(S), w # <<>>,
           FramesOk(d, sides, mirror, w)
    PROVE  FramesOk(d, sides, mirror, Front(w))
<1>1. PICK f \in Seq(S) : f = Front(w) /\ Len(f) = Len(w) - 1 /\ \A i \in 1 .. Len(f) : f[i] = w[i]
  BY FrontOf
<1>2. PICK n \in Nat : n = Len(f)
  BY LenProperties
<1>3. Len(w) = n + 1
  <2>1. PICK x \in Nat : x = Len(w)
    BY LenProperties
  <2> QED BY <1>1, <1>2, <2>1
<1>4. ASSUME NEW k \in 1 .. n PROVE FrameOk(d, sides, mirror, f, k)
  <2>1. PICK m \in Nat : k = m + 1
    <3>1. k - 1 \in Nat /\ k = k - 1 + 1
      OBVIOUS
    <3> QED BY <3>1
  <2>2. k \in Nat /\ k >= 1 /\ k <= Len(w) /\ k <= Len(f) /\ k \in 1 .. Len(w)
    BY <1>2, <1>3
  <2>3. \A i \in 1 .. m : w[i] = f[i]
    <3>1. \A i \in 1 .. m : i \in 1 .. n
      BY <2>1
    <3> QED BY <1>1, <1>2, <3>1
  <2>4. f[k] = w[k]
    BY <1>1, <1>2
  <2>5. FrameOk(d, sides, mirror, w, k)
    BY <2>2 DEF FramesOk
  <2> QED BY <2>1, <2>2, <2>3, <2>4, <2>5, FrameKept
<1> QED BY <1>1, <1>2, <1>4 DEF FramesOk

(* Owners are taken from those the top frame may try.                      *)
LEMMA FramesChange ==
    ASSUME NEW d, NEW sides, NEW mirror, NEW S, NEW w \in Seq(S), NEW n \in Nat, n = Len(w),
           n >= 1, NEW v \in Seq(S), Len(v) = n, \A i \in 1 .. n : i # n => v[i] = w[i],
           v[n].used = w[n].used, v[n].end = w[n].end, v[n].todo \subseteq w[n].todo,
           FramesOk(d, sides, mirror, w)
    PROVE  FramesOk(d, sides, mirror, v)
<1>1. ASSUME NEW k \in 1 .. n PROVE FrameOk(d, sides, mirror, v, k)
  <2>1. PICK m \in Nat : k = m + 1
    <3>1. k - 1 \in Nat /\ k = k - 1 + 1
      OBVIOUS
    <3> QED BY <3>1
  <2>2. k \in Nat /\ k >= 1 /\ k <= Len(w) /\ k <= Len(v)
    OBVIOUS
  <2>3. \A i \in 1 .. m : w[i] = v[i]
    <3>1. \A i \in 1 .. m : i \in 1 .. n /\ i # n
      BY <2>1
    <3> QED BY <3>1
  <2>4. v[k].used = w[k].used /\ v[k].end = w[k].end /\ v[k].todo \subseteq w[k].todo
    <3>1. CASE k = n
      BY <3>1
    <3>2. CASE k # n
      BY <3>2
    <3> QED BY <3>1, <3>2
  <2>5. FrameOk(d, sides, mirror, w, k)
    BY DEF FramesOk
  <2> QED BY <2>1, <2>2, <2>3, <2>4, <2>5, FrameKept
<1> QED BY <1>1 DEF FramesOk

(* Undoing a move gives the state before it.                               *)
LEMMA UndoMove ==
    ASSUME NEW d \in DiceCounts, NEW s, StateTyped(d, s), NEW step,
           step.owner \in 0 .. d - 1, step.end \in {"left", "right", "both"},
           NEW t, t = Moved(s, step)
    PROVE  /\ Restore(t.residual, step.owner, step.end) = s.residual
           /\ [t.remaining EXCEPT ![step.owner] = t.remaining[step.owner] + Faces(step.end)]
                  = s.remaining
           /\ (IF step.end \in {"left", "both"} THEN Front(t.left) ELSE t.left) = s.left
           /\ (IF step.end \in {"right", "both"} THEN Front(t.right) ELSE t.right) = s.right
<1> PICK o : o = step.owner
  OBVIOUS
<1> PICK end : end = step.end
  OBVIOUS
<1> PICK S : S = 0 .. d - 1
  OBVIOUS
<1> PICK M : M = s.residual
  OBVIOUS
<1>1. /\ M \in [TuplesOf[d] -> Int] /\ s.remaining \in [S -> Nat]
      /\ s.left \in Seq(S) /\ s.right \in Seq(S) /\ o \in S
  BY DEF StateTyped
<1>2. Restore(Subtract(M, o, end), o, end) = M
  <2> PICK e : e = SubtractPrefix(M, o)
    OBVIOUS
  <2>1. e \in [TuplesOf[d] -> Int]
    BY <1>1, MovesTyped
  <2>2. RestorePrefix(e, o) = M /\ RestoreSuffix(SubtractSuffix(M, o), o) = M
    BY <1>1, RestoreUndoes
  <2>3. RestoreSuffix(SubtractSuffix(e, o), o) = e
    BY <2>1, RestoreUndoes
  <2>4. CASE end = "left"
    BY <2>2, <2>4 DEF Subtract, Restore
  <2>5. CASE end = "right"
    BY <2>2, <2>5 DEF Subtract, Restore
  <2>6. CASE end = "both"
    BY <2>2, <2>3, <2>6 DEF Subtract, Restore
  <2> QED BY <2>4, <2>5, <2>6
<1>3. [t.remaining EXCEPT ![o] = t.remaining[o] + Faces(end)] = s.remaining
  <2> PICK R \in [S -> Nat] : R = s.remaining
    BY <1>1
  <2> PICK k \in Nat : k = Faces(end)
    BY DEF Faces
  <2>1. t.remaining = [R EXCEPT ![o] = R[o] - k]
    BY MovedFields
  <2> PICK Q : Q = t.remaining
    OBVIOUS
  <2>2. Q[o] = R[o] - k /\ R[o] \in Nat
    BY <1>1, <2>1
  <2>3. Q[o] + k = R[o]
    BY <2>2
  <2>4. Q \in [S -> Int] /\ \A p \in S : p # o => Q[p] = R[p]
    <3>1. R \in [S -> Int] /\ R[o] - k \in Int
      BY <2>2
    <3>2. Q = [R EXCEPT ![o] = R[o] - k]
      BY <2>1
    <3> QED BY ONLY <1>1, <3>1, <3>2
  <2>5. [Q EXCEPT ![o] = R[o]] = R
    BY <1>1, <2>4
  <2> QED BY <2>3, <2>5
<1>4. (IF end \in {"left", "both"} THEN Front(t.left) ELSE t.left) = s.left
  <2> PICK l \in Seq(S) : l = s.left
    BY <1>1
  <2>1. Front(Append(l, o)) = l
    <3>1. l \in Seq(S) /\ o \in S
      BY <1>1
    <3>2. \A e \in S : Front(Append(l, e)) = l /\ Last(Append(l, e)) = e
      BY ONLY <3>1, LastAndFront
    <3> QED BY <3>1, <3>2
  <2>2. t.left = IF end \in {"left", "both"} THEN Append(l, o) ELSE l
    BY MovedFields
  <2> QED BY <2>1, <2>2
<1>5. (IF end \in {"right", "both"} THEN Front(t.right) ELSE t.right) = s.right
  <2> PICK r \in Seq(S) : r = s.right
    BY <1>1
  <2>1. Front(Append(r, o)) = r
    <3>1. r \in Seq(S) /\ o \in S
      BY <1>1
    <3>2. \A e \in S : Front(Append(r, e)) = r /\ Last(Append(r, e)) = e
      BY ONLY <3>1, LastAndFront
    <3> QED BY <3>1, <3>2
  <2>2. t.right = IF end \in {"right", "both"} THEN Append(r, o) ELSE r
    BY MovedFields
  <2> QED BY <2>1, <2>2
<1>6. t.residual = Subtract(M, o, end)
  BY MovedFields
<1> QED BY <1>2, <1>3, <1>4, <1>5, <1>6

-----------------------------------------------------------------------------
(* The invariant, by the frames of the stack. *)

Parts ==
    /\ TypeOK /\ Now = StateAfter(Fresh(DICE, SIDES), Placed)
    /\ Exact(DICE, SIDES, MIRROR, Now) /\ FramesOk(DICE, SIDES, MIRROR, stack)

(* The invariant in these terms.                                           *)
LEMMA InvariantIs == IInv <=> Parts
<1>1. (\A k \in 1 .. Len(stack) : FrameInv(k)) <=> FramesOk(DICE, SIDES, MIRROR, stack)
  BY DEF FramesOk, FrameOk, FrameInv, Before, Below
<1> QED BY <1>1 DEF IInv, Parts

(* The sizes of the build are among those allowed.                         *)
LEMMA SizesOf ==
    ASSUME TypeOK
    PROVE  /\ Sized(DICE, SIDES) /\ MIRROR \in BOOLEAN /\ DICE \in DiceCounts
           /\ DICE \in Nat /\ DICE >= 2 /\ SIDES \in Nat
<1>1. <<<<DICE, SIDES>>, MIRROR, COLUMN_GROUP>> \in Sizes \X BOOLEAN \X BOOLEAN
  BY SearchAssumption DEF TypeOK
<1>2. <<DICE, SIDES>> \in Sizes /\ MIRROR \in BOOLEAN
  BY <1>1
<1>3. Sized(DICE, SIDES)
  BY <1>2 DEF Sized
<1>4. DICE \in DiceCounts /\ DICE \in Nat /\ DICE >= 2 /\ SIDES \in Nat
  BY <1>3, TargetsAre
<1> QED BY <1>2, <1>3, <1>4

(* The fields of the state are the variables.                              *)
LEMMA NowIs ==
    /\ Now.residual = residual /\ Now.remaining = remaining
    /\ Now.left = left /\ Now.right = right /\ Now.used = used
  BY DEF Now

(* Every owner of the plan can be moved.                                   *)
LEMMA PlanCanMove ==
    ASSUME TypeOK, Exact(DICE, SIDES, MIRROR, Now)
    PROVE  /\ Plan.end \in {"left", "right", "both"} /\ Plan.owners \subseteq Owners
           /\ (Plan.end = "both") = MIRROR
           /\ \A o \in Plan.owners : CanMove(DICE, MIRROR, Now, o, Plan.end)
<1>1. MIRROR \in BOOLEAN /\ DICE \in Nat
  BY SizesOf
<1>2. used \in 0 .. DICE
  BY NowIs DEF Exact, StateTyped
<1>3. remaining \in [0 .. DICE - 1 -> Nat]
  BY NowIs DEF Exact, StateTyped
<1>4. OwnerLimit \in 0 .. DICE /\ \A o \in 0 .. OwnerLimit - 1 : o \in 0 .. DICE - 1 /\ o <= used
  BY <1>1, <1>2 DEF OwnerLimit
<1>5. CASE MIRROR
  <2>1. Plan.end = "both" /\ Plan.owners = PairOwners
    BY <1>5 DEF Plan
  <2>2. ASSUME NEW o \in PairOwners
        PROVE  o \in Owners /\ CanMove(DICE, MIRROR, Now, o, "both")
    <3>1. o \in 0 .. OwnerLimit - 1 /\ remaining[o] >= 2 /\ PrefixFeasible(residual, o)
      BY DEF PairOwners
    <3>2. o \in 0 .. DICE - 1 /\ o <= used
      BY <1>4, <3>1
    <3> QED BY <1>5, <3>1, <3>2, NowIs DEF CanMove, Faces, Owners
  <2> QED BY <1>5, <2>1, <2>2
<1>6. CASE ~ MIRROR /\ SearchRight
  <2>1. Plan.end = "right" /\ Plan.owners = RightOwners
    BY <1>6 DEF Plan
  <2>2. ASSUME NEW o \in RightOwners
        PROVE  o \in Owners /\ CanMove(DICE, MIRROR, Now, o, "right")
    <3>1. o \in 0 .. DICE - 1 /\ remaining[o] > 0 /\ SuffixFeasible(residual, o)
      BY DEF RightOwners, FeasibleOwners
    <3>2. used = DICE
      BY <1>6 DEF SearchRight
    <3>3. remaining[o] >= 1
      BY <1>3, <3>1
    <3>4. ("right" = "both") = MIRROR /\ Faces("right") = 1
      BY <1>1, <1>6 DEF Faces
    <3> QED BY <3>1, <3>2, <3>3, <3>4, NowIs DEF CanMove, Owners
  <2>3. (Plan.end = "both") = MIRROR
    BY <1>1, <1>6, <2>1
  <2> QED BY <2>1, <2>2, <2>3
<1>7. CASE ~ MIRROR /\ ~ SearchRight
  <2>1. Plan.end = "left" /\ Plan.owners = LeftOwners
    BY <1>7 DEF Plan
  <2>2. ASSUME NEW o \in LeftOwners
        PROVE  o \in Owners /\ CanMove(DICE, MIRROR, Now, o, "left")
    <3>1. o \in 0 .. OwnerLimit - 1 /\ remaining[o] > 0 /\ PrefixFeasible(residual, o)
      BY DEF LeftOwners, FeasibleOwners
    <3>2. o \in 0 .. DICE - 1 /\ o <= used
      BY <1>4, <3>1
    <3>3. remaining[o] >= 1
      BY <1>3, <3>1, <3>2
    <3>4. ("left" = "both") = MIRROR /\ Faces("left") = 1
      BY <1>1, <1>7 DEF Faces
    <3> QED BY <3>1, <3>2, <3>3, <3>4, NowIs DEF CanMove, Owners
  <2>3. (Plan.end = "both") = MIRROR
    BY <1>1, <1>7, <2>1
  <2> QED BY <2>1, <2>2, <2>3
<1> QED BY <1>1, <1>5, <1>6, <1>7

(* Placing an owner is a move, and removing it undoes the move.            *)
LEMMA PlacedIsMoved ==
    ASSUME NEW o, NEW end, (end = "both") = MIRROR, NEW step, step.owner = o, step.end = end,
           PlaceOwner(o, end)
    PROVE  Now' = Moved(Now, step)
<1>1. StepFaces = Faces(end)
  BY DEF StepFaces, Faces
<1>2. /\ residual' = Subtract(residual, o, end)
      /\ remaining' = [remaining EXCEPT ![o] = remaining[o] - Faces(end)]
      /\ left'  = (IF end \in {"left", "both"}  THEN Append(left, o)  ELSE left)
      /\ right' = (IF end \in {"right", "both"} THEN Append(right, o) ELSE right)
      /\ used'  = (IF end # "right" /\ o = used THEN used + 1 ELSE used)
  BY <1>1 DEF PlaceOwner
<1> QED BY <1>2, NowIs, Zenon DEF Moved, Now

-----------------------------------------------------------------------------
(* Every step keeps the invariant. *)

(* What a step has to establish.                                           *)
LEMMA InvariantNext ==
    ASSUME UNCHANGED build, TypeOK',
           Now' = StateAfter(Fresh(DICE, SIDES), Placed'), Exact(DICE, SIDES, MIRROR, Now'),
           FramesOk(DICE, SIDES, MIRROR, stack')
    PROVE  IInv'
<1>1. DICE' = DICE /\ SIDES' = SIDES /\ MIRROR' = MIRROR
  BY DEF build
<1>2. IInv' <=> Parts'
  BY InvariantIs, PTL
<1>3. Parts'
  BY <1>1 DEF Parts
<1> QED BY <1>2, <1>3

(* The types after a step.                                                 *)
LEMMA TypeNext ==
    ASSUME TypeOK, UNCHANGED build, stack' \in Seq(Frames), mode' = "try" => stack' # <<>>
    PROVE  TypeOK'
<1>1. DICE' = DICE /\ SIDES' = SIDES /\ MIRROR' = MIRROR /\ COLUMN_GROUP' = COLUMN_GROUP
  BY DEF build
<1>2. Frames' = Frames
  BY <1>1 DEF Frames, Owners
<1> QED BY <1>1, <1>2 DEF TypeOK

(* A step that leaves the variables leaves the state.                      *)
LEMMA StateSame == ASSUME UNCHANGED state PROVE Now' = Now
  BY DEF state, Now

(* What the invariant gives.                                               *)
LEMMA Held ==
    ASSUME IInv
    PROVE  /\ TypeOK /\ Now = StateAfter(Fresh(DICE, SIDES), Placed)
           /\ Exact(DICE, SIDES, MIRROR, Now) /\ FramesOk(DICE, SIDES, MIRROR, stack)
           /\ Sized(DICE, SIDES) /\ MIRROR \in BOOLEAN /\ DICE \in DiceCounts
           /\ DICE \in Nat /\ DICE >= 2 /\ SIDES \in Nat
           /\ used \in 0 .. DICE /\ stack \in Seq(Frames) /\ Len(stack) \in Nat
           /\ mode = "try" => stack # <<>>
<1>1. /\ TypeOK /\ Now = StateAfter(Fresh(DICE, SIDES), Placed)
      /\ Exact(DICE, SIDES, MIRROR, Now) /\ FramesOk(DICE, SIDES, MIRROR, stack)
  BY InvariantIs DEF Parts
<1>2. /\ Sized(DICE, SIDES) /\ MIRROR \in BOOLEAN /\ DICE \in DiceCounts
      /\ DICE \in Nat /\ DICE >= 2 /\ SIDES \in Nat
  BY <1>1, SizesOf
<1>3. used \in 0 .. DICE
  BY <1>1, NowIs DEF Exact, StateTyped
<1>4. stack \in Seq(Frames) /\ (mode = "try" => stack # <<>>)
  BY <1>1 DEF TypeOK
<1>5. Len(stack) \in Nat
  BY <1>4, LenProperties
<1> QED BY <1>1, <1>2, <1>3, <1>4, <1>5

(* The steps that leave the state and the stack as they are.               *)
LEMMA StayStep ==
    ASSUME IInv, UNCHANGED <<build, state, stack>>, mode # "try", mode' # "try"
    PROVE  IInv'
<1>1. /\ TypeOK /\ Now = StateAfter(Fresh(DICE, SIDES), Placed)
      /\ Exact(DICE, SIDES, MIRROR, Now) /\ FramesOk(DICE, SIDES, MIRROR, stack)
      /\ stack \in Seq(Frames)
  BY Held
<1>2. TypeOK'
  BY <1>1, TypeNext
<1>3. Now' = Now /\ stack' = stack
  BY StateSame
<1>4. Placed' = Placed
  BY <1>3 DEF Placed
<1> QED BY <1>1, <1>2, <1>3, <1>4, InvariantNext

(* A node is entered.                                                      *)
LEMMA EnterNodeStep == ASSUME IInv, EnterNode PROVE IInv'
<1>1. /\ TypeOK /\ Now = StateAfter(Fresh(DICE, SIDES), Placed)
      /\ Exact(DICE, SIDES, MIRROR, Now) /\ FramesOk(DICE, SIDES, MIRROR, stack)
      /\ stack \in Seq(Frames) /\ DICE \in Nat /\ DICE >= 2 /\ used \in 0 .. DICE
  BY Held
<1>2. /\ Plan.end \in {"left", "right", "both"} /\ Plan.owners \subseteq Owners
      /\ (Plan.end = "both") = MIRROR
      /\ \A o \in Plan.owners : CanMove(DICE, MIRROR, Now, o, Plan.end)
  BY <1>1, PlanCanMove
<1> PICK f : f = [end |-> Plan.end, todo |-> Plan.owners, owner |-> 0, used |-> used]
  OBVIOUS
<1>3. f.end = Plan.end /\ f.todo = Plan.owners /\ f.used = used
  OBVIOUS
<1>4. f \in Frames
  <2>1. 0 \in Owners
    BY <1>1 DEF Owners
  <2> QED BY <1>1, <1>2, <2>1 DEF Frames
<1>5. stack' = Append(stack, f) /\ mode = "enter" /\ mode' = "try" /\ UNCHANGED <<build, state>>
  BY DEF EnterNode
<1>6. stack' \in Seq(Frames) /\ stack' # <<>>
  BY <1>1, <1>4, <1>5, AppendProperties
<1>7. TypeOK'
  BY <1>1, <1>5, <1>6, TypeNext
<1>8. Now' = Now
  BY <1>5, StateSame
<1>9. Placed' = stack /\ Placed = stack
  <2>1. Front(Append(stack, f)) = stack
    BY <1>1, <1>4, LastAndFront
  <2> QED BY <1>5, <2>1 DEF Placed
<1>10. FramesOk(DICE, SIDES, MIRROR, stack')
  <2> PICK s : s = Now
    OBVIOUS
  <2>1. s = StateAfter(Fresh(DICE, SIDES), stack) /\ Exact(DICE, SIDES, MIRROR, s)
    BY <1>1, <1>9
  <2>2. f.used = s.used
    BY <1>3, NowIs
  <2>3. (f.end = "both") = MIRROR /\ \A o \in f.todo : CanMove(DICE, MIRROR, s, o, f.end)
    BY <1>2, <1>3
  <2>4. FramesOk(DICE, SIDES, MIRROR, Append(stack, f))
    BY ONLY <1>1, <1>4, <2>1, <2>2, <2>3, FramesPush
  <2> QED BY <1>5, <2>4
<1> QED BY <1>1, <1>5, <1>7, <1>8, <1>9, <1>10, InvariantNext

(* The frame on top, the frames below it, and the state below them.        *)
LEMMA OnTop ==
    ASSUME IInv, stack # <<>>
    PROVE  /\ Front(stack) \in Seq(Frames) /\ Top \in Frames /\ stack = Append(Front(stack), Top)
           /\ FramesOk(DICE, SIDES, MIRROR, Front(stack))
           /\ Exact(DICE, SIDES, MIRROR, StateAfter(Fresh(DICE, SIDES), Front(stack)))
           /\ Top.used = StateAfter(Fresh(DICE, SIDES), Front(stack)).used
           /\ (Top.end = "both") = MIRROR
           /\ \A o \in Top.todo :
                  CanMove(DICE, MIRROR, StateAfter(Fresh(DICE, SIDES), Front(stack)), o, Top.end)
<1>1. FramesOk(DICE, SIDES, MIRROR, stack) /\ stack \in Seq(Frames)
  BY Held
<1>2. PICK n \in Nat : n = Len(stack) /\ n >= 1
  BY <1>1, EmptySeq
<1>3. Front(stack) \in Seq(Frames) /\ Last(stack) \in Frames
      /\ stack = Append(Front(stack), Last(stack))
  BY <1>1, LastAndFront
<1>4. Top = Last(stack) /\ Top = stack[n]
  BY <1>2 DEF Top, Last
<1>5. FramesOk(DICE, SIDES, MIRROR, Front(stack))
  BY <1>1, FramesPop
<1>6. FrameOk(DICE, SIDES, MIRROR, stack, n)
  BY <1>1, <1>2 DEF FramesOk
<1>7. Below(DICE, SIDES, stack, n) = StateAfter(Fresh(DICE, SIDES), Front(stack))
  BY <1>2 DEF Below, Front
<1> QED BY <1>3, <1>4, <1>5, <1>6, <1>7 DEF FrameOk

(* The smallest number of a set of them.                                   *)
LEMMA MinOf ==
    ASSUME NEW d \in Nat, NEW S \in SUBSET (0 .. d - 1), S # {}
    PROVE  Min(S) \in S
<1>1. S \in SUBSET Nat
  OBVIOUS
<1>2. PICK m \in S : \A k \in S : m <= k
  BY <1>1, Ways!LeastNatural
<1> QED BY <1>2, Zenon DEF Min

(* The top frame tries an owner.                                           *)
TakenOut(st, o) == [st EXCEPT ![Len(st)].todo = @ \ {o}, ![Len(st)].owner = o]

(* The stack after an owner was taken from those its top frame may try.    *)
LEMMA TopChanged ==
    ASSUME NEW st \in Seq(Frames), st # <<>>, NEW o \in Owners
    PROVE  \E tt \in Seq(Frames), n \in Nat :
               /\ tt = TakenOut(st, o) /\ n = Len(st) /\ Len(tt) = n /\ n >= 1
               /\ \A i \in 1 .. n : i # n => tt[i] = st[i]
               /\ tt[n] \in Frames /\ tt[n].end = st[n].end /\ tt[n].used = st[n].used
               /\ tt[n].todo \subseteq st[n].todo /\ tt[n].owner = o
               /\ tt = Append(Front(st), tt[n])
<1> PICK n : n = Len(st)
  OBVIOUS
<1> PICK tt : tt = TakenOut(st, o)
  OBVIOUS
<1>1. n \in Nat /\ n >= 1 /\ n \in 1 .. Len(st)
  BY EmptySeq
<1>2. PICK f \in Frames : f = st[n]
  BY <1>1, ElementOfSeq
<1> PICK g : g = [f EXCEPT !.todo = f.todo \ {o}, !.owner = o]
  OBVIOUS
<1>3. f.todo \ {o} \in SUBSET Owners
  BY DEF Frames
<1>4. /\ g \in Frames /\ g.end = f.end /\ g.used = f.used /\ g.owner = o
      /\ g.todo = f.todo \ {o}
  BY <1>3 DEF Frames
<1>5. tt = [st EXCEPT ![n] = g]
  <2>1. DOMAIN st = 1 .. n
    BY LenProperties
  <2>2. tt = [st EXCEPT ![n].todo = @ \ {o}, ![n].owner = o]
    BY DEF TakenOut
  <2> QED BY <1>1, <1>2, <2>1, <2>2
<1>6. /\ tt \in Seq(Frames) /\ Len(tt) = n
      /\ \A j \in 1 .. n : tt[j] = IF j = n THEN g ELSE st[j]
  <2> PICK S : S = Frames
    OBVIOUS
  <2>1. st \in Seq(S) /\ g \in S
    BY <1>4
  <2>2. /\ [st EXCEPT ![n] = g] \in Seq(S) /\ Len([st EXCEPT ![n] = g]) = Len(st)
        /\ \A j \in 1 .. Len(st) : [st EXCEPT ![n] = g][j] = IF j = n THEN g ELSE st[j]
    BY ONLY <1>1, <2>1, ExceptSeq
  <2> QED BY <1>5, <2>2
<1>7. tt[n] = g /\ \A i \in 1 .. n : i # n => tt[i] = st[i]
  BY <1>1, <1>6
<1>8. tt = Append(Front(st), g)
  <2>1. tt # <<>>
    BY <1>1, <1>6, EmptySeq
  <2>2. tt = Append(Front(tt), Last(tt))
    <3> PICK S : S = Frames
      OBVIOUS
    <3>1. tt \in Seq(S)
      BY <1>6
    <3> QED BY ONLY <2>1, <3>1, LastAndFront
  <2>3. Last(tt) = g
    BY <1>6, <1>7 DEF Last
  <2>4. PICK m \in Nat : m = n - 1
    BY <1>1
  <2>5. SubSeq(tt, 1, m) = SubSeq(st, 1, m)
    <3>1. \A i \in 1 .. m : tt[i] = st[i]
      <4>1. \A i \in 1 .. m : i \in 1 .. n /\ i # n
        BY <2>4
      <4> QED BY <1>7, <4>1
    <3>2. m <= Len(tt) /\ m <= Len(st)
      BY <1>1, <1>6, <2>4
    <3> PICK S : S = Frames
      OBVIOUS
    <3>3. tt \in Seq(S) /\ st \in Seq(S) /\ m \in Nat
      BY <1>6
    <3> QED BY ONLY <3>1, <3>2, <3>3, SameFront
  <2>6. Front(tt) = Front(st)
    BY <1>6, <2>4, <2>5 DEF Front
  <2> QED BY <2>2, <2>3, <2>6
<1>9. /\ tt[n] \in Frames /\ tt[n].end = st[n].end /\ tt[n].used = st[n].used
      /\ tt[n].todo \subseteq st[n].todo /\ tt[n].owner = o
      /\ tt = Append(Front(st), tt[n])
  BY <1>2, <1>4, <1>7, <1>8
<1>10. /\ tt \in Seq(Frames) /\ n \in Nat
       /\ tt = TakenOut(st, o) /\ n = Len(st) /\ Len(tt) = n /\ n >= 1
       /\ \A i \in 1 .. n : i # n => tt[i] = st[i]
  BY <1>1, <1>6, <1>7
<1> QED BY ONLY <1>9, <1>10

(* An owner is tried.                                                      *)
LEMMA TryOwnerStep == ASSUME IInv, TryOwner PROVE IInv'
<1>1. /\ TypeOK /\ Now = StateAfter(Fresh(DICE, SIDES), Placed)
      /\ FramesOk(DICE, SIDES, MIRROR, stack) /\ Exact(DICE, SIDES, MIRROR, Now)
      /\ stack \in Seq(Frames) /\ DICE \in Nat /\ DICE \in DiceCounts /\ SIDES \in Nat
      /\ mode = "try" => stack # <<>>
  BY Held
<1>2. /\ mode = "try" /\ Top.todo # {} /\ UNCHANGED build
  BY DEF TryOwner
<1>3. stack # <<>>
  BY <1>1, <1>2
<1> PICK F : F = Front(stack)
  OBVIOUS
<1> PICK n : n = Len(stack)
  OBVIOUS
<1> PICK s : s = StateAfter(Fresh(DICE, SIDES), F)
  OBVIOUS
<1>4. /\ F \in Seq(Frames) /\ Top \in Frames /\ (Top.end = "both") = MIRROR
      /\ \A o \in Top.todo : CanMove(DICE, MIRROR, s, o, Top.end)
  BY <1>3, OnTop
<1>5. Placed = F /\ Now = s /\ Top = stack[n]
  BY <1>1, <1>2 DEF Placed, Top
<1> PICK owner : owner = Min(Top.todo)
  OBVIOUS
<1>6. owner \in Top.todo /\ owner \in Owners
  <2>1. Top.todo \in SUBSET (0 .. DICE - 1)
    BY <1>4 DEF Frames, Owners
  <2>2. owner \in Top.todo
    BY <1>1, <1>2, <2>1, MinOf
  <2> QED BY <2>1, <2>2 DEF Owners
<1> PICK tt : tt = stack'
  OBVIOUS
<1>7. tt = [stack EXCEPT ![n].todo = @ \ {owner}, ![n].owner = owner]
  BY DEF TryOwner
<1>8. /\ tt \in Seq(Frames) /\ Len(tt) = n /\ n \in Nat /\ n >= 1
      /\ \A i \in 1 .. n : i # n => tt[i] = stack[i]
      /\ tt[n] \in Frames /\ tt[n].end = stack[n].end /\ tt[n].used = stack[n].used
      /\ tt[n].todo \subseteq stack[n].todo /\ tt[n].owner = owner
      /\ tt = Append(F, tt[n])
  <2>1. tt = TakenOut(stack, owner)
    BY <1>7 DEF TakenOut
  <2>2. stack \in Seq(Frames) /\ owner \in Owners
    BY <1>1, <1>6
  <2>3. PICK vv \in Seq(Frames), m \in Nat :
               /\ vv = TakenOut(stack, owner) /\ m = Len(stack) /\ Len(vv) = m /\ m >= 1
               /\ \A i \in 1 .. m : i # m => vv[i] = stack[i]
               /\ vv[m] \in Frames /\ vv[m].end = stack[m].end /\ vv[m].used = stack[m].used
               /\ vv[m].todo \subseteq stack[m].todo /\ vv[m].owner = owner
               /\ vv = Append(Front(stack), vv[m])
    BY ONLY <1>3, <2>2, TopChanged
  <2> QED BY <2>1, <2>3
<1> PICK g : g = tt[n]
  OBVIOUS
<1>9. g \in Frames /\ g.end = Top.end /\ g.owner = owner /\ tt = Append(F, g)
  BY <1>5, <1>8
<1>10. FramesOk(DICE, SIDES, MIRROR, tt)
  BY <1>1, <1>8, FramesChange
<1>11. tt # <<>>
  BY <1>8, EmptySeq
<1>12. TypeOK'
  BY <1>1, <1>2, <1>8, <1>11, TypeNext
<1>13. \/ PlaceOwner(owner, Top.end) /\ mode' = "enter"
       \/ UNCHANGED <<state, mode>>
  BY DEF TryOwner
<1>14. CASE PlaceOwner(owner, Top.end) /\ mode' = "enter"
  <2>1. Now' = Moved(s, g)
    BY <1>4, <1>5, <1>9, <1>14, PlacedIsMoved
  <2>2. Placed' = tt
    BY <1>14 DEF Placed
  <2>3. StateAfter(Fresh(DICE, SIDES), Append(F, g)) = Moved(s, g)
    BY ONLY s = StateAfter(Fresh(DICE, SIDES), F), <1>4, <1>9, StateAppend
  <2>4. Now' = StateAfter(Fresh(DICE, SIDES), Placed')
    BY <1>9, <2>1, <2>2, <2>3
  <2>5. CanMove(DICE, MIRROR, s, g.owner, g.end)
    BY <1>4, <1>6, <1>9
  <2>6. Exact(DICE, SIDES, MIRROR, Moved(s, g))
    BY <1>1, <1>5, <2>5, MoveExact
  <2> QED BY <1>2, <1>10, <1>12, <2>1, <2>4, <2>6, InvariantNext
<1>15. CASE UNCHANGED <<state, mode>>
  <2>1. Now' = Now
    BY <1>15, StateSame
  <2>2. Placed' = F
    <3>1. Front(Append(F, g)) = F
      BY <1>4, <1>9, LastAndFront
    <3> QED BY <1>2, <1>9, <1>15, <3>1 DEF Placed
  <2> QED BY <1>1, <1>2, <1>5, <1>10, <1>12, <2>1, <2>2, InvariantNext
<1> QED BY <1>13, <1>14, <1>15

(* A node is left.                                                         *)
LEMMA LeaveNodeStep == ASSUME IInv, LeaveNode PROVE IInv'
<1>1. /\ TypeOK /\ Now = StateAfter(Fresh(DICE, SIDES), Placed)
      /\ Exact(DICE, SIDES, MIRROR, Now) /\ (mode = "try" => stack # <<>>)
  BY Held
<1>2. /\ mode = "try" /\ stack' = Front(stack) /\ mode' = "back" /\ UNCHANGED <<build, state>>
  BY DEF LeaveNode
<1>3. Front(stack) \in Seq(Frames) /\ FramesOk(DICE, SIDES, MIRROR, Front(stack))
  BY <1>1, <1>2, OnTop
<1>4. TypeOK'
  BY <1>1, <1>2, <1>3, TypeNext
<1>5. Now' = Now
  BY <1>2, StateSame
<1>6. Placed' = Placed
  BY <1>2 DEF Placed
<1> QED BY <1>1, <1>2, <1>3, <1>4, <1>5, <1>6, InvariantNext

(* A state reached by moves has its five fields and no more.               *)
LEMMA StateFields ==
    ASSUME NEW d, NEW sides, NEW S, NEW w \in Seq(S), NEW s, s = StateAfter(Fresh(d, sides), w)
    PROVE  s = [residual |-> s.residual, remaining |-> s.remaining, left |-> s.left,
                right |-> s.right, used |-> s.used]
<1>1. CASE w = <<>>
  <2>1. StateAfter(Fresh(d, sides), <<>>) = Fresh(d, sides)
    <3>1. <<>> \in Seq({0}) /\ 0 \in {0}
      OBVIOUS
    <3> QED BY ONLY <3>1, StateAppend
  <2>2. s = Fresh(d, sides)
    BY <1>1, <2>1
  <2> QED BY <2>2 DEF Fresh
<1>2. CASE w # <<>>
  <2>1. Front(w) \in Seq(S) /\ Last(w) \in S /\ w = Append(Front(w), Last(w))
    BY <1>2, LastAndFront
  <2> PICK f \in Seq(S) : f = Front(w)
    BY <2>1
  <2> PICK e \in S : e = Last(w)
    BY <2>1
  <2>2. StateAfter(Fresh(d, sides), Append(f, e)) = Moved(StateAfter(Fresh(d, sides), f), e)
    BY StateAppend
  <2>3. s = Moved(StateAfter(Fresh(d, sides), f), e)
    BY <2>1, <2>2
  <2> QED BY <2>3 DEF Moved
<1> QED BY <1>1, <1>2

(* An owner is taken back.                                                 *)
LEMMA UndoOwnerStep == ASSUME IInv, UndoOwner PROVE IInv'
<1>1. /\ TypeOK /\ Now = StateAfter(Fresh(DICE, SIDES), Placed)
      /\ FramesOk(DICE, SIDES, MIRROR, stack)
      /\ stack \in Seq(Frames) /\ DICE \in Nat /\ DICE \in DiceCounts /\ SIDES \in Nat
  BY Held
<1>2. /\ mode = "back" /\ stack # <<>> /\ mode' = "try" /\ RemoveOwner(Top)
      /\ UNCHANGED <<build, stack>>
  BY DEF UndoOwner
<1> PICK F : F = Front(stack)
  OBVIOUS
<1> PICK top : top = Top
  OBVIOUS
<1> PICK s : s = StateAfter(Fresh(DICE, SIDES), F)
  OBVIOUS
<1>3. /\ F \in Seq(Frames) /\ top \in Frames /\ stack = Append(F, top)
      /\ Exact(DICE, SIDES, MIRROR, s) /\ top.used = s.used /\ (top.end = "both") = MIRROR
  BY <1>2, OnTop
<1>4. Now = Moved(s, top)
  <2>1. Placed = stack
    BY <1>2 DEF Placed
  <2>2. StateAfter(Fresh(DICE, SIDES), Append(F, top)) = Moved(s, top)
    BY ONLY s = StateAfter(Fresh(DICE, SIDES), F), <1>3, StateAppend
  <2> QED BY <1>1, <1>3, <2>1, <2>2
<1>5. top.owner \in 0 .. DICE - 1 /\ top.end \in {"left", "right", "both"}
  BY <1>3 DEF Frames, Owners
<1>6. StateTyped(DICE, s)
  BY <1>3 DEF Exact
<1> PICK t : t = Now
  OBVIOUS
<1>7. /\ Restore(t.residual, top.owner, top.end) = s.residual
      /\ [t.remaining EXCEPT ![top.owner] = t.remaining[top.owner] + Faces(top.end)]
             = s.remaining
      /\ (IF top.end \in {"left", "both"} THEN Front(t.left) ELSE t.left) = s.left
      /\ (IF top.end \in {"right", "both"} THEN Front(t.right) ELSE t.right) = s.right
  BY <1>1, <1>4, <1>5, <1>6, UndoMove
<1>8. StepFaces = Faces(top.end)
  BY <1>3 DEF StepFaces, Faces
<1>9. /\ residual' = Restore(residual, top.owner, top.end)
      /\ remaining' = [remaining EXCEPT ![top.owner] = remaining[top.owner] + Faces(top.end)]
      /\ left'  = (IF top.end \in {"left", "both"}  THEN Front(left)  ELSE left)
      /\ right' = (IF top.end \in {"right", "both"} THEN Front(right) ELSE right)
      /\ used'  = top.used
  BY <1>2, <1>8 DEF RemoveOwner
<1>10. /\ residual' = s.residual /\ remaining' = s.remaining
       /\ left' = s.left /\ right' = s.right /\ used' = s.used
  <2>1. /\ t.residual = residual /\ t.remaining = remaining /\ t.left = left /\ t.right = right
    BY NowIs
  <2> QED BY <1>3, <1>7, <1>9, <2>1, Zenon
<1>11. Now' = s
  <2>1. s = [residual |-> s.residual, remaining |-> s.remaining, left |-> s.left,
             right |-> s.right, used |-> s.used]
    BY <1>3, StateFields
  <2> QED BY <1>10, <2>1, Zenon DEF Now
<1>12. Placed' = F
  BY <1>2 DEF Placed
<1>13. TypeOK'
  BY <1>1, <1>2, TypeNext
<1> QED BY <1>1, <1>2, <1>3, <1>11, <1>12, <1>13, InvariantNext

(* A step of a prefix is replayed.                                         *)
LEMMA ReplayStepStep == ASSUME IInv, ReplayStep PROVE IInv'
<1>1. /\ TypeOK /\ Now = StateAfter(Fresh(DICE, SIDES), Placed)
      /\ Exact(DICE, SIDES, MIRROR, Now) /\ FramesOk(DICE, SIDES, MIRROR, stack)
      /\ stack \in Seq(Frames) /\ DICE \in Nat /\ DICE \in DiceCounts /\ SIDES \in Nat
      /\ used \in 0 .. DICE
  BY Held
<1>2. mode = "replay" /\ UNCHANGED build
  BY DEF ReplayStep
<1> PICK step : step = prefixes[job][Len(stack) + 1]
  OBVIOUS
<1> PICK f : f = [end |-> step.end, todo |-> {}, owner |-> step.owner, used |-> used]
  OBVIOUS
<1>3. \/ /\ Replayable(step) /\ stack' = Append(stack, f) /\ PlaceOwner(step.owner, step.end)
         /\ mode' = mode
      \/ mode' = "back" /\ UNCHANGED <<state, stack>>
  BY DEF ReplayStep
<1>4. CASE mode' = "back" /\ UNCHANGED <<state, stack>>
  BY <1>2, <1>4, StayStep
<1>5. CASE /\ Replayable(step) /\ stack' = Append(stack, f) /\ PlaceOwner(step.owner, step.end)
           /\ mode' = mode
  <2>1. f.end = step.end /\ f.owner = step.owner /\ f.todo = {} /\ f.used = used
    OBVIOUS
  <2>2. step.end = Plan.end /\ step.owner \in Plan.owners
    BY <1>5 DEF Replayable
  <2>3. /\ f.end \in {"left", "right", "both"} /\ f.owner \in Owners
        /\ (f.end = "both") = MIRROR /\ CanMove(DICE, MIRROR, Now, f.owner, f.end)
    BY <1>1, <2>1, <2>2, PlanCanMove
  <2>4. f \in Frames
    BY <1>1, <2>1, <2>3 DEF Frames
  <2>5. Now' = Moved(Now, f)
    BY <1>5, <2>1, <2>3, PlacedIsMoved
  <2>6. Placed' = Append(stack, f) /\ Placed = stack
    BY <1>2, <1>5 DEF Placed
  <2> PICK s : s = Now
    OBVIOUS
  <2>7. s = StateAfter(Fresh(DICE, SIDES), stack) /\ Exact(DICE, SIDES, MIRROR, s)
    BY <1>1, <2>6
  <2>8. StateAfter(Fresh(DICE, SIDES), Append(stack, f)) = Moved(s, f)
    BY ONLY <1>1, <2>4, <2>7, StateAppend
  <2>9. Exact(DICE, SIDES, MIRROR, Moved(s, f))
    BY <1>1, <2>3, <2>7, MoveExact
  <2>10. FramesOk(DICE, SIDES, MIRROR, Append(stack, f))
    <3>1. f.used = s.used
      BY <2>1, NowIs
    <3>2. \A o \in f.todo : CanMove(DICE, MIRROR, s, o, f.end)
      BY <2>1
    <3>3. (f.end = "both") = MIRROR
      BY <2>3
    <3> QED BY ONLY <1>1, <2>4, <2>7, <3>1, <3>2, <3>3, FramesPush
  <2>11. TypeOK'
    <3>1. stack' \in Seq(Frames) /\ stack' # <<>>
      BY <1>1, <1>5, <2>4, AppendProperties
    <3> QED BY <1>1, <1>2, <3>1, TypeNext
  <2> QED BY <1>2, <1>5, <2>5, <2>6, <2>8, <2>9, <2>10, <2>11, InvariantNext
<1> QED BY <1>3, <1>4, <1>5

(* Every step keeps the invariant.                                         *)
LEMMA NextStep == ASSUME IInv, [Next]_vars PROVE IInv'
<1>1. CASE EnterNode
  BY <1>1, EnterNodeStep
<1>2. CASE TryOwner
  BY <1>2, TryOwnerStep
<1>3. CASE LeaveNode
  BY <1>3, LeaveNodeStep
<1>4. CASE UndoOwner
  BY <1>4, UndoOwnerStep
<1>5. CASE RecordConfiguration
  <2>1. UNCHANGED <<build, state, stack>> /\ mode # "try" /\ mode' # "try"
    BY <1>5 DEF RecordConfiguration
  <2> QED BY <2>1, StayStep
<1>6. CASE CollectPrefix
  <2>1. UNCHANGED <<build, state, stack>> /\ mode # "try" /\ mode' # "try"
    BY <1>6 DEF CollectPrefix
  <2> QED BY <2>1, StayStep
<1>7. CASE DeepenPrefixes
  <2>1. UNCHANGED <<build, state, stack>> /\ mode # "try" /\ mode' # "try"
    BY <1>7 DEF DeepenPrefixes
  <2> QED BY <2>1, StayStep
<1>8. CASE ReplayStep
  BY <1>8, ReplayStepStep
<1>9. CASE SearchPrefix
  <2>1. UNCHANGED <<build, state, stack>> /\ mode # "try" /\ mode' # "try"
    BY <1>9 DEF SearchPrefix
  <2> QED BY <2>1, StayStep
<1>10. CASE NextPrefix
  <2>1. UNCHANGED <<build, state, stack>> /\ mode # "try" /\ mode' # "try"
    BY <1>10 DEF NextPrefix
  <2> QED BY <2>1, StayStep
<1>11. CASE UNCHANGED vars
  <2>1. UNCHANGED <<build, state, stack, mode>>
    BY <1>11 DEF vars
  <2>2. /\ TypeOK /\ Now = StateAfter(Fresh(DICE, SIDES), Placed)
        /\ Exact(DICE, SIDES, MIRROR, Now) /\ FramesOk(DICE, SIDES, MIRROR, stack)
        /\ stack \in Seq(Frames) /\ (mode = "try" => stack # <<>>)
    BY Held
  <2>3. TypeOK'
    BY <2>1, <2>2, TypeNext
  <2>4. Now' = Now /\ Placed' = Placed
    BY <2>1, StateSame DEF Placed
  <2> QED BY <2>1, <2>2, <2>3, <2>4, InvariantNext
<1> QED BY <1>1, <1>2, <1>3, <1>4, <1>5, <1>6, <1>7, <1>8, <1>9, <1>10, <1>11 DEF Next

(* The search starts in it.                                                *)
LEMMA InitHolds == Init => IInv
<1> SUFFICES ASSUME Init PROVE IInv
  OBVIOUS
<1>1. PICK b \in Builds : DICE = b[1][1] /\ SIDES = b[1][2] /\ MIRROR = b[2] /\ COLUMN_GROUP = b[3]
  BY DEF Init
<1>2. /\ residual = Targets /\ remaining = [o \in Owners |-> SIDES]
      /\ left = <<>> /\ right = <<>> /\ used = 0 /\ stack = <<>>
      /\ mode = (IF Possible THEN "enter" ELSE "done")
  BY DEF Init
<1>3. mode # "try"
  BY <1>2
<1>4. TypeOK
  <2>1. b \in Sizes \X BOOLEAN \X BOOLEAN
    BY SearchAssumption
  <2>2. b = <<b[1], b[2], b[3]>> /\ b[1] \in Sizes
    BY <2>1
  <2>3. b[1] = <<b[1][1], b[1][2]>>
    BY <2>2, SizesAssumption
  <2>4. <<<<DICE, SIDES>>, MIRROR, COLUMN_GROUP>> = b
    BY <1>1, <2>2, <2>3
  <2>5. stack \in Seq(Frames)
    BY <1>2, EmptySeq
  <2> QED BY <1>3, <2>4, <2>5 DEF TypeOK
<1>5. Now = Fresh(DICE, SIDES)
  BY <1>2, Zenon DEF Now, Fresh, Targets, Owners
<1>6. Placed = <<>>
  BY <1>2, <1>3 DEF Placed
<1>7. StateAfter(Fresh(DICE, SIDES), <<>>) = Fresh(DICE, SIDES)
  <2>1. <<>> \in Seq({0}) /\ 0 \in {0}
    OBVIOUS
  <2> QED BY ONLY <2>1, StateAppend
<1>8. Exact(DICE, SIDES, MIRROR, Fresh(DICE, SIDES))
  BY <1>4, SizesOf, FreshExact
<1>9. FramesOk(DICE, SIDES, MIRROR, stack)
  BY <1>2, EmptySeq DEF FramesOk
<1>10. Parts
  BY <1>4, <1>5, <1>6, <1>7, <1>8, <1>9 DEF Parts
<1> QED BY <1>10, InvariantIs

(* The invariant holds throughout: the state is what the moves on the      *)
(* stack make of the fresh one, whatever was tried and undone before.      *)
THEOREM Invariance == Spec => []IInv
<1>1. IInv /\ [Next]_vars => IInv'
  BY NextStep
<1> QED BY InitHolds, <1>1, PTL DEF Spec

(* The build is one of those set up, and the stack holds frames.           *)
THEOREM TypeCorrect == Spec => []TypeOK
<1>1. IInv => TypeOK
  BY DEF IInv
<1> QED BY Invariance, <1>1, PTL

(* The invariant gives the property.                                       *)
LEMMA ExactNow == IInv => StateIsExact
<1> SUFFICES ASSUME IInv PROVE StateIsExact
  OBVIOUS
<1>1. Exact(DICE, SIDES, MIRROR, Now) /\ DICE \in Nat /\ used \in 0 .. DICE
  BY Held
<1>2. /\ residual \in [Tuples -> Nat]
      /\ \A q \in Tuples :
             Joined(WaysLeft(DICE, Now), residual, WaysRight(DICE, Now), q) = Targets[q]
      /\ MIRROR => \A q \in Tuples : residual[q] = residual[Reverse(q)]
      /\ \A o \in Owners : remaining[o] = SIDES - FacesOf(left, o) - FacesOf(right, o)
      /\ {left[i] : i \in 1 .. Len(left)} = 0 .. used - 1
  BY <1>1, NowIs DEF Exact, StateTyped, TargetsMade, Mirrored, FacesCounted, NamesSeen,
                     Tuples, Targets, Owners
<1>3. WaysLeft(DICE, Now) = CountWays(left) /\ WaysRight(DICE, Now) = CountWays(Reverse(right))
  BY NowIs, Zenon DEF WaysLeft, WaysRight, CountWays, Tuples
<1>4. Cardinality(0 .. used - 1) = used
  <2>1. PICK u \in Nat : u = used
    BY <1>1
  <2>2. Cardinality(0 .. u - 1) = u
    <3>1. Cardinality(0 .. u - 1) = IF 0 > u - 1 THEN 0 ELSE u - 1 - 0 + 1
      BY FS_Interval
    <3> QED BY <3>1
  <2> QED BY <2>1, <2>2
<1>5. \A q \in Tuples : residual[q] >= 0
  BY <1>2
<1> QED BY <1>2, <1>3, <1>4, <1>5 DEF StateIsExact

(* However moves at the two ends are mixed, undone and replayed, the       *)
(* counts in place are those of the word so far, and no count wraps.       *)
THEOREM StateExact == Spec => []StateIsExact
  BY Invariance, ExactNow, PTL
=============================================================================
