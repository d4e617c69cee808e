--------------------------- MODULE ResidualCounts ---------------------------
(***************************************************************************)
(* The arithmetic of modern_dice/residual_search.c.  A word lists the      *)
(* owners of the faces in increasing order.  For a tuple q of distinct     *)
(* dice, residual[q] is the number of q-shaped subsequences the unknown    *)
(* middle of a word must have; giving a face at one end of the middle to   *)
(* an owner deconcatenates the counts, in place.                           *)
(***************************************************************************)
EXTENDS Integers, Sequences, SequencesExt, FiniteSets, FiniteSetsExt

CONSTANTS Sizes     \* the settings of DICE and SIDES to build with
VARIABLES DICE, SIDES

ASSUME SizesAssumption == \A s \in Sizes : s \in Nat \X Nat /\ s[1] >= 2 /\ s[2] > 0

Owners    == 0 .. DICE - 1
FaceCount == DICE * SIDES

(* generate_states: every tuple of distinct owners, the empty one too. *)
TuplesOf == [dice \in {s[1] : s \in Sizes} |->
    UNION {{q \in [1 .. n -> 0 .. dice - 1] : \A i, j \in 1 .. n : q[i] = q[j] => i = j} :
           n \in 0 .. dice}]
Tuples == TuplesOf[DICE]

(* initialize_targets: SIDES^n of the rolls of n dice, shared by n! orders. *)
Product(factors)    == FoldLeft(LAMBDA p, factor : p * factor, 1, factors)
integer_power(n, e) == Product([i \in 1 .. e |-> n])
Factorial(n)        == Product([i \in 1 .. n |-> i])
Goal(sides, n)      == integer_power(sides, n) \div Factorial(n)
Possible  == \A n \in 1 .. DICE : integer_power(SIDES, n) % Factorial(n) = 0
TargetsOf == [s \in Sizes |-> [q \in TuplesOf[s[1]] |-> Goal(s[2], Len(q))]]
Targets   == TargetsOf[<<DICE, SIDES>>]

(* prepend[owner] and append[owner]: the edges q -> oq and q -> qo.  An    *)
(* edge's destination has the owner in it and no source has, so the loops  *)
(* over the edges update every destination from the old counts, which      *)
(* stand for all tuples of their DOMAIN.                                   *)
Begins(q, owner) == q # <<>> /\ Head(q) = owner
Ends(q, owner)   == q # <<>> /\ Last(q) = owner

SubtractPrefix(counts, owner) ==
    [q \in DOMAIN counts |-> IF Begins(q, owner) THEN counts[q] - counts[Tail(q)] ELSE counts[q]]
RestorePrefix(counts, owner) ==
    [q \in DOMAIN counts |-> IF Begins(q, owner) THEN counts[q] + counts[Tail(q)] ELSE counts[q]]
SubtractSuffix(counts, owner) ==
    [q \in DOMAIN counts |-> IF Ends(q, owner) THEN counts[q] - counts[Front(q)] ELSE counts[q]]
RestoreSuffix(counts, owner) ==
    [q \in DOMAIN counts |-> IF Ends(q, owner) THEN counts[q] + counts[Front(q)] ELSE counts[q]]

(* No subtraction of the move would go below zero. *)
PrefixFeasible(counts, owner) ==
    \A q \in DOMAIN counts : Begins(q, owner) => counts[q] >= counts[Tail(q)]
SuffixFeasible(counts, owner) ==
    \A q \in DOMAIN counts : Ends(q, owner) => counts[q] >= counts[Front(q)]

(* feasible_owner_mask at either end. *)
FeasibleOwners(counts, remaining, end, limit) ==
    {o \in 0 .. limit - 1 :
        /\ remaining[o] > 0
        /\ IF end = "right" THEN SuffixFeasible(counts, o) ELSE PrefixFeasible(counts, o)}

(* What verify_configuration recounts from the finished encoding. *)
NoWays(tuples) == [q \in tuples |-> IF q = <<>> THEN 1 ELSE 0]
WaysAmong(tuples, word) == FoldLeft(RestoreSuffix, NoWays(tuples), word)
CountWays(word) == WaysAmong(Tuples, word)

(* The counts of a fair word, by definition: the ways to pick one face per *)
(* die of q in the order of q.                                             *)
Occurrences(word, q) ==
    Cardinality({at \in [1 .. Len(q) -> 1 .. Len(word)] :
                    /\ \A i \in 1 .. Len(q) - 1 : at[i] < at[i + 1]
                    /\ \A i \in 1 .. Len(q) : word[at[i]] = q[i]})

(* A configuration in which every order of every subset of the dice is     *)
(* equally likely.                                                         *)
Fair(word) == CountWays(word) = Targets

(* Owners are named in the order of their first faces. *)
Canonical(word) ==
    \A i \in 1 .. Len(word) : word[i] = 0 \/ \E j \in 1 .. i - 1 : word[j] = word[i] - 1
=============================================================================
