----------------------------- MODULE ColumnGrid -----------------------------
(***************************************************************************)
(* The tables of modern_dice/column_search.c that depend on the build      *)
(* alone, and the tests it makes of finished grids.                        *)
(*                                                                         *)
(* The faces 0 .. DICE * SIDES - 1 come in columns of DICE consecutive     *)
(* labels, one for each die: face DICE * c + r is the label at offset r of *)
(* column c.  A build is a record of the compile-time settings of the      *)
(* program; every table is a function of the build.                        *)
(***************************************************************************)
EXTENDS Integers, Sequences, SequencesExt, FiniteSetsExt

CONSTANT Builds

(* f itself; TLC evaluates it once and keeps it as a table. *)
Table(f) == f @@ <<>>

Dice(b)  == 0 .. b.dice - 1
Sides(b) == 0 .. b.sides - 1
Faces(b) == 0 .. b.dice * b.sides - 1

SearchColumns(b) == b.sides - b.mirrored

Mirrored(b, column) == column < b.mirrored
MirrorColumn(b, column) == b.sides - column - 1
MirrorFace(b, face) == b.dice * b.sides - face - 1

(* The grid a search starts from when there is no template. *)
InitialOffset(b, die, column) ==
    IF column % 2 = 0 THEN die ELSE b.dice - die - 1
InitialGrid(b) ==
    [die \in Dice(b) |->
        [column \in Sides(b) |->
            IF column < SearchColumns(b)
            THEN column * b.dice + InitialOffset(b, die, column)
            ELSE LET source == MirrorColumn(b, column)
                 IN  MirrorFace(b, source * b.dice + InitialOffset(b, die, source))]]

(* physical_column: the column a depth stands for before any is planned. *)
PhysicalColumn(b, depth) ==
    IF b.mirrored > 0 \/ ~b.highFirst THEN depth ELSE b.sides - depth - 1

(* A row takes over the label of a later one, and the mirror of it.        *)
Swap(cells, r, candidate, c) ==
    [cells EXCEPT ![r][c] = cells[candidate][c], ![candidate][c] = cells[r][c]]
SwapFaces(b, g, r, candidate, c) ==
    IF Mirrored(b, c)
    THEN Swap(Swap(g, r, candidate, c), r, candidate, MirrorColumn(b, c))
    ELSE Swap(g, r, candidate, c)

(* Suffix bounds: the least and the greatest that the columns from each    *)
(* depth on can add, each column choosing on its own.                      *)
Suffix(value(_, _), order, masks) ==
    FoldRight(LAMBDA d, acc :
                  LET values == {value(candidate, order[d]) : candidate \in masks[d]}
                  IN  <<[low |-> Head(acc).low + Min(values), high |-> Head(acc).high + Max(values)]>>
                          \o acc,
              [d \in 1 .. Len(order) |-> d], <<[low |-> 0, high |-> 0]>>)

-----------------------------------------------------------------------------
(* The ways a face finishes in each place.  The faces of the others below  *)
(* it are known from its column and offset, whoever owns them.             *)

FacesBelow(column, offset, opponent) ==
    IF opponent < offset THEN column + 1 ELSE column

PlacePolynomial(b, face) ==
    LET Times(polynomial, opponent) ==
            LET below == FacesBelow(face \div b.dice, face % b.dice, opponent) IN
            [place \in Dice(b) |->
                polynomial[place] * below
                + (IF place = 0 THEN 0 ELSE polynomial[place - 1] * (b.sides - below))]
    IN  FoldLeft(Times, [place \in Dice(b) |-> IF place = 0 THEN 1 ELSE 0],
                 [i \in 1 .. b.dice - 1 |-> i - 1])

(* search.contribution, by face and place. *)
Contribution == [b \in Builds |-> [face \in Faces(b) |-> PlacePolynomial(b, face)]]

Power(base, exponent) == FoldLeft(LAMBDA p, i : p * base, 1, [i \in 1 .. exponent |-> i])
Factorial(n) == FoldLeft(LAMBDA p, i : p * i, 1, [i \in 1 .. n |-> i])

OutcomeCount(b, n) == Power(b.sides, n)
PlaceGoal == [b \in Builds |-> OutcomeCount(b, b.dice) \div b.dice]

(* The divisibility tests of main: no search when counts cannot be equal.  *)
PermutationFairnessPossible(b) ==
    /\ OutcomeCount(b, b.dice) % Factorial(b.dice) = 0
    /\ b.permOnly => \A n \in 3 .. b.dice - 1 : OutcomeCount(b, n) % Factorial(n) = 0
Possible(b) ==
    /\ OutcomeCount(b, b.dice) % b.dice = 0
    /\ b.sides % 2 = 0
    /\ b.permOnly => PermutationFairnessPossible(b)

-----------------------------------------------------------------------------
(* The permutation counter: how many rolls of some dice come out in an     *)
(* order, lowest first, by one scan of the owners of the faces.            *)

Orders(n) ==
    UNION {{q \in [1 .. k -> 0 .. n - 1] : \A i, j \in 1 .. k : q[i] = q[j] => i = j} :
              k \in 0 .. n}

(* perm_counter.state, for the first n dice *)
PermStates == [n \in UNION {0 .. b.dice : b \in Builds} |-> Orders(n)]

NoRolls(n) == [q \in PermStates[n] |-> IF q = <<>> THEN 1 ELSE 0]

(* The edges of an owner, from long orders to short ones: no roll is       *)
(* extended twice by the same face.                                        *)
AddOwner(ways, owner) ==
    [q \in {p \in DOMAIN ways : p # <<>> /\ Last(p) = owner} |-> ways[q] + ways[Front(q)]] @@ ways

OwnerOf(b, grid) ==
    [face \in Faces(b) |-> CHOOSE die \in Dice(b) : grid[die][face \div b.dice] = face]

FaceSeq(b) == [i \in 1 .. b.dice * b.sides |-> i - 1]

CountWays(b, owner) ==
    FoldLeft(LAMBDA ways, face : AddOwner(ways, owner[face]), NoRolls(b.dice), FaceSeq(b))

OrdersOf(b, subset) == {q \in PermStates[b.dice] : ToSet(q) = subset}

PermutationFair(b, ways) ==
    /\ PermutationFairnessPossible(b)
    /\ \A q \in OrdersOf(b, Dice(b)) :
           ways[q] = OutcomeCount(b, b.dice) \div Factorial(b.dice)

(* The subsets between the pairs and all the dice: sums of the counts of   *)
(* their orders tell in which place each die comes.                        *)
AllSubsetsPlaceFair(b, ways) ==
    \A subset \in {s \in SUBSET Dice(b) : Cardinality(s) \in 3 .. b.dice - 1} :
        LET size == Cardinality(subset) IN
        \A die \in subset : \A place \in 1 .. size :
            size * MapThenSumSet(LAMBDA q : IF q[place] = die THEN ways[q] ELSE 0,
                                 OrdersOf(b, subset))
                = OutcomeCount(b, size)

-----------------------------------------------------------------------------
(* configuration_is_place_fair: every die, every place. *)
RowTally(b, cells, place) ==
    MapThenSumSet(LAMBDA c : Contribution[b][cells[c]][place], Sides(b))
ConfigurationIsPlaceFair(b, grid) ==
    \A die \in Dice(b), place \in Dice(b) : RowTally(b, grid[die], place) = PlaceGoal[b]

(* completed_prefix_is_place_fair: the first dice, among themselves. *)
CompletedPrefixIsPlaceFair(b, grid, built) ==
    LET Below(die, face) == Cardinality({c \in Sides(b) : grid[die][c] < face})
        Ranks(die, face) ==
            FoldSet(LAMBDA opponent, polynomial :
                        LET below == Below(opponent, face) IN
                        [place \in 0 .. built - 1 |->
                            polynomial[place] * below
                            + (IF place = 0 THEN 0
                               ELSE polynomial[place - 1] * (b.sides - below))],
                    [place \in 0 .. built - 1 |-> IF place = 0 THEN 1 ELSE 0],
                    (0 .. built - 1) \ {die})
        Tally(die) ==
            FoldSet(LAMBDA c, sum : LET ranks == Ranks(die, grid[die][c]) IN
                                    [place \in 0 .. built - 1 |-> sum[place] + ranks[place]],
                    [place \in 0 .. built - 1 |-> 0], Sides(b))
    IN  built >= 3 =>
            \A die \in 0 .. built - 1 :
                LET tally == Tally(die)
                IN  \A place \in 0 .. built - 1 :
                        tally[place] * built = OutcomeCount(b, built)
=============================================================================
