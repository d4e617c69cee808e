---------------------------- MODULE ColumnSearch ----------------------------
(***************************************************************************)
(* The search of modern_dice/column_search.c as one worker runs it.  The   *)
(* grid gives every die one label of every column.  It is filled row by    *)
(* row, a row being a die: at each column of its planned order the row     *)
(* swaps a label with a later row, the tallies follow, and the suffix      *)
(* bounds of the row say whether the goals can still be met.  Everything   *)
(* is updated in place on the way down and undone on the way up.           *)
(*                                                                         *)
(* Jobs are prefixes of the first row that is searched (run_prefix).  The  *)
(* C stack is the variable stack, one frame per choice in place.           *)
(***************************************************************************)
EXTENDS ColumnGrid, ColumnCompletion

CONSTANTS
    Words,          \* for some <<dice, sides>>, all place-fair owner words of the faces
    Counts          \* for some builds, how many configurations are documented

VARIABLES
    build,          \* the settings this program was compiled with, its template and jobs
    logicalDie,     \* the die each row stands for
    fixed,          \* fixed_cell: the <<row, column>> that the template fixes
    search,         \* the grid and the tallies, updated in place
    plan,           \* for each row, its column order, candidates and suffix bounds
    row, column,    \* the node: the row being filled and the depth in it
    stack,          \* frames of the recursion
    startRow,       \* the first row the template leaves open
    prefix,         \* prefix_count, prefix_columns and the prefix being run
    mode,           \* prepare, split, prefix, enter, check, expand, try, back, accept, done
    found,          \* what record_solution is given, in order
    internalError

vars == <<build, logicalDie, fixed, search, plan, row, column, stack, startRow, prefix, mode,
          found, internalError>>

DICE  == build.dice
Depth == SearchColumns(build)
Rows  == Dice(build)
Top   == stack[Len(stack)]

TemplateActive == build.template # {}
AdditiveActive == build.permOnly /\ DICE >= 4

-----------------------------------------------------------------------------
(* configure_template. *)

(* The values the template gives a die in a column, its mirror included. *)
FixedValues_MirrorValueKept(die, c) ==
    {t[3] : t \in {u \in build.template : u[1] = die /\ u[2] = c}}
        \union (IF Mirrored(build, c)
                THEN {t[3] : t \in {u \in build.template :
                                      u[1] = die /\ u[2] = MirrorColumn(build, c)}}
                ELSE {})
FixedValues(die, c) ==
    {t[3] : t \in {u \in build.template : u[1] = die /\ u[2] = c}}
        \union (IF Mirrored(build, c)
                THEN {DICE - 1 - t[3] : t \in {u \in build.template :
                                                 u[1] = die /\ u[2] = MirrorColumn(build, c)}}
                ELSE {})

SearchedColumns == {PhysicalColumn(build, d) : d \in 0 .. Depth - 1}

Conflicting ==
    \E c \in SearchedColumns :
        \/ \E die \in Rows : Cardinality(FixedValues(die, c)) > 1
        \/ \E die, other \in Rows :
               die # other /\ FixedValues(die, c) \intersect FixedValues(other, c) # {}

FixedCount(die) == Cardinality({c \in SearchedColumns : FixedValues(die, c) # {}})

(* Stable: the most constrained dice become the first rows. *)
RowOrder ==
    SortSeq([i \in 1 .. DICE |-> i - 1],
            LAMBDA a, b : \/ FixedCount(a) > FixedCount(b)
                          \/ FixedCount(a) = FixedCount(b) /\ a < b)

Preferred(c, offset) == IF c % 2 = 0 THEN offset ELSE DICE - offset - 1

(* The cells left open take the unused values, in the order of the rows. *)
TemplateValue(order, r, c) ==
    LET values == FixedValues(order[r + 1], c)
        used   == UNION {FixedValues(die, c) : die \in Rows}
        open   == SelectSeq([i \in 1 .. DICE |-> Preferred(c, i - 1)], LAMBDA v : v \notin used)
        before == Cardinality({s \in 0 .. r - 1 : FixedValues(order[s + 1], c) = {}})
    IN  IF values # {} THEN CHOOSE v \in values : TRUE ELSE open[before + 1]

TemplateGrid(order) ==
    [r \in Rows |->
        [c \in Sides(build) |->
            IF c \in SearchedColumns THEN c * DICE + TemplateValue(order, r, c)
            ELSE LET source == MirrorColumn(build, c)
                 IN  MirrorFace(build, source * DICE + TemplateValue(order, r, source))]]

FixedColumnCount(c) == Cardinality({r \in Rows : <<r, c>> \in fixed})
RowFixed(r) == \A c \in SearchedColumns : <<r, c>> \in fixed

-----------------------------------------------------------------------------
(* What a choice adds to each tally of its row.                            *)

(* choice_contribution_at *)
Pairwise(value(_), g, candidate, c) ==
    value(g[candidate][c])
    + (IF Mirrored(build, c) THEN value(g[candidate][MirrorColumn(build, c)]) ELSE 0)

PlaceValue(g, candidate, c, place) ==
    Pairwise(LAMBDA face : Contribution[build][face][place], g, candidate, c)

(* pair_choice_win: mirrored columns always balance. *)
PairWin(g, candidate, previous, c) ==
    IF ~Mirrored(build, c) /\ g[candidate][c] > g[previous][c] THEN 1 ELSE 0

(* build_additive_perm_bounds: rolls of the rows before r below and above  *)
(* each face, multiplied for each order the row can complete.              *)
RowOrders(r) == {q \in PermStates[r + 1] : Len(q) = r + 1}
PositionOf(q, r) == CHOOSE i \in 1 .. Len(q) : q[i] = r

(* Scan accumulates the tables of AddOwner, one per face passed. *)
Scan(owner, r, faces) ==
    FoldLeft(LAMBDA seen, face :
                 Append(seen, IF owner[face] < r THEN AddOwner(Last(seen), owner[face])
                                                 ELSE Last(seen)),
             <<NoRolls(r)>>, faces)

AdditiveContribution(g, r) ==
    LET owner == OwnerOf(build, g)
        below == Scan(owner, r, FaceSeq(build))
        above == Scan(owner, r, Reverse(FaceSeq(build)))
        last  == DICE * build.sides
    IN  Table([face \in Faces(build) |->
            Table([q \in RowOrders(r) |->
                LET i == PositionOf(q, r)
                IN  below[face + 1][SubSeq(q, 1, i - 1)]
                    * above[last - face][Reverse(SubSeq(q, i + 1, Len(q)))]])])

AdditiveValue(contribution, g, candidate, c, q) ==
    Pairwise(LAMBDA face : contribution[face][q], g, candidate, c)

-----------------------------------------------------------------------------
(* apply_choice and undo_choice. *)

(* The contributions are read of the grid in which the row has its label;  *)
(* the pair increments were stored when the bounds were built.             *)
Counted(s, p, g, r, d, candidate, sign) ==
    LET c == p.order[d] IN
    [s EXCEPT
        !.tally[r] = [place \in Rows |-> @[place] + sign * PlaceValue(g, r, c, place)],
        !.wins[r]  = [previous \in 0 .. r - 1 |->
                         @[previous] + sign * p.increment[d][candidate][previous]],
        !.perms[r] = [q \in DOMAIN @ |->
                         @[q] + sign * AdditiveValue(p.contribution, g, r, c, q)]]

ApplyChoice(s, p, r, d, candidate) ==
    LET g == SwapFaces(build, s.grid, r, candidate, p.order[d])
    IN  [Counted(s, p, g, r, d, candidate, 1) EXCEPT !.grid = g]

UndoChoice_CountedAfterSwap(s, p, r, d, candidate) ==
    LET g == SwapFaces(build, s.grid, r, candidate, p.order[d])
    IN  [Counted(s, p, g, r, d, candidate, -1) EXCEPT !.grid = g]
UndoChoice(s, p, r, d, candidate) ==
    [Counted(s, p, s.grid, r, d, candidate, -1) EXCEPT
        !.grid = SwapFaces(build, s.grid, r, candidate, p.order[d])]

(* Choices at depths first, first + 1 ..., and back in the opposite order. *)
ApplyChoices(s, p, r, first, choices) ==
    FoldLeft(LAMBDA t, i : ApplyChoice(t, p, r, first + i - 1, choices[i]),
             s, [i \in 1 .. Len(choices) |-> i])
UndoChoices(s, p, r, first, choices) ==
    FoldRight(LAMBDA i, t : UndoChoice(t, p, r, first + i - 1, choices[i]),
              [i \in 1 .. Len(choices) |-> i], s)

-----------------------------------------------------------------------------
(* Suffix bounds (ColumnGrid!Suffix), built when a row is entered. *)

Allows(current, suffix, d, goal) ==
    current + suffix[d + 1].low <= goal /\ goal <= current + suffix[d + 1].high

(* Two tallies that must end equal: their difference must reach zero. *)
AscendingPairs(S) == {<<a, b>> \in S \X S : a < b}
OrderPairs(r) == {<<p, q>> \in RowOrders(r) \X RowOrders(r) :
                     \E i \in 1 .. r + 1 : p[i] < q[i] /\ \A j \in 1 .. i - 1 : p[j] = q[j]}

(* available_candidate_mask *)
CandidateMask(r, c, canonical) ==
    IF ~TemplateActive
    THEN IF canonical THEN {r} ELSE r .. DICE - 1
    ELSE IF <<r, c>> \in fixed THEN {r}
    ELSE {candidate \in r .. DICE - 1 : <<candidate, c>> \notin fixed}

Masks(r, order) ==
    Table([d \in 1 .. Depth |-> CandidateMask(r, order[d], ~TemplateActive /\ d = 1)])

(* reset_column_order: with a template the fixed cells of the row first,   *)
(* then the columns with the most fixed cells.                             *)
ResetColumnOrder(r) ==
    LET physical == Table([d \in 1 .. Depth |-> PhysicalColumn(build, d - 1)])
        Before(i, j) ==
            LET a == <<r, physical[i]>> \in fixed
                b == <<r, physical[j]>> \in fixed
            IN  \/ a /\ ~b
                \/ a = b /\ FixedColumnCount(physical[i]) > FixedColumnCount(physical[j])
                \/ a = b /\ FixedColumnCount(physical[i]) = FixedColumnCount(physical[j]) /\ i < j
    IN  IF ~TemplateActive THEN physical
        ELSE LET indices == SortSeq([d \in 1 .. Depth |-> d], Before)
             IN  [d \in 1 .. Depth |-> physical[indices[d]]]

PairGoal == (build.sides - 2 * build.mirrored) \div 2

(* build_bounds *)
BuildBounds(r, order, masks) ==
    LET g == search.grid IN
    [order |-> order, masks |-> masks,
     place |-> Table([place \in Rows |->
         Suffix(LAMBDA k, c : PlaceValue(g, k, c, place), order, masks)]),
     direction |-> Table([p \in AscendingPairs(Rows) |->
         Suffix(LAMBDA k, c : PlaceValue(g, k, c, p[1]) - PlaceValue(g, k, c, p[2]),
                order, masks)]),
     increment |-> Table([d \in 1 .. Depth |->
         [k \in masks[d] |-> [previous \in 0 .. r - 1 |-> PairWin(g, k, previous, order[d])]]]),
     pair |-> Table([previous \in 0 .. r - 1 |->
         Suffix(LAMBDA k, c : PairWin(g, k, previous, c), order, masks)]),
     contribution |-> <<>>, perm |-> <<>>, permDirection |-> <<>>]

(* plan_column_order: a choice is feasible if every goal lies within what  *)
(* the other columns can add to it; fewest feasible choices first.         *)
Feasible(b, r, d, k) ==
    LET c == b.order[d]
        Leaves(value, suffix, own, goal) ==
            /\ value + suffix[1].low - Min(own) <= goal
            /\ goal <= value + suffix[1].high - Max(own)
        PlaceOf(j, place) == PlaceValue(search.grid, j, c, place)
    IN  /\ \A place \in Rows :
               Leaves(PlaceOf(k, place), b.place[place], {PlaceOf(j, place) : j \in b.masks[d]},
                      PlaceGoal[build])
        /\ \A p \in AscendingPairs(Rows) :
               Leaves(PlaceOf(k, p[1]) - PlaceOf(k, p[2]), b.direction[p],
                      {PlaceOf(j, p[1]) - PlaceOf(j, p[2]) : j \in b.masks[d]}, 0)
        /\ \A previous \in 0 .. r - 1 :
               Leaves(b.increment[d][k][previous], b.pair[previous],
                      {b.increment[d][j][previous] : j \in b.masks[d]}, PairGoal)

RowBounds(r, order) == BuildBounds(r, order, Masks(r, order))

FeasibleChoices(b, r) ==
    Table([d \in 1 .. Depth |-> Cardinality({k \in b.masks[d] : Feasible(b, r, d, k)})])

SortColumns(order, choices) ==
    LET pinned == IF TemplateActive THEN {} ELSE {1}
        Before(i, j) ==
            \/ i \in pinned /\ j \notin pinned
            \/ j \notin pinned /\ choices[i] < choices[j]
            \/ j \notin pinned /\ choices[i] = choices[j] /\ i < j
        indices == SortSeq([d \in 1 .. Depth |-> d], Before)
    IN  Table([d \in 1 .. Depth |-> order[indices[d]]])

PlanColumnOrder(r, reset) == SortColumns(reset, FeasibleChoices(RowBounds(r, reset), r))
PlanRow(r) == RowBounds(r, PlanColumnOrder(r, ResetColumnOrder(r)))

(* build_additive_perm_bounds, for the rows that have permutation goals. *)
HasPermGoal(r) == AdditiveActive /\ r \in 2 .. DICE - 2
PermBounds(p, r, contribution) ==
    LET Value(k, c, q) == AdditiveValue(contribution, search.grid, k, c, q)
    IN  [p EXCEPT
             !.contribution = contribution,
             !.perm = Table([q \in RowOrders(r) |->
                 Suffix(LAMBDA k, c : Value(k, c, q), p.order, p.masks)]),
             !.permDirection = Table([pair \in OrderPairs(r) |->
                 Suffix(LAMBDA k, c : Value(k, c, pair[1]) - Value(k, c, pair[2]),
                        p.order, p.masks)])]
AddPermBounds(p, r) ==
    IF HasPermGoal(r) THEN PermBounds(p, r, AdditiveContribution(search.grid, r)) ELSE p
NoTally(r) == IF HasPermGoal(r) THEN [q \in RowOrders(r) |-> 0] ELSE <<>>

-----------------------------------------------------------------------------
(* Rows solved as a whole, without a template: the second (ROW1_MITM) and  *)
(* the last one chosen (ROW2_MITM).  The joins index one half of the       *)
(* columns by a fingerprint and check every hit on all coordinates: what   *)
(* they find is every selection that meets the goals.                      *)

TwoRowsLeft(r) == r = DICE - 2
Solved(r) == /\ ~TemplateActive
             /\ build.rowMitm
             /\ TwoRowsLeft(r) \/ (build.row1Mitm /\ r = 1)

(* prepare_mitm_columns *)
PrepareMitmColumns(r) ==
    LET order == ResetColumnOrder(r)
        masks == Masks(r, order)
        value == IF TwoRowsLeft(r) THEN AdditiveContribution(search.grid, r) ELSE <<>>
    IN  [order |-> order, masks |-> masks, contribution |-> value,
         increment |-> [d \in 1 .. Depth |->
                           [k \in masks[d] |-> [previous \in 0 .. r - 1 |-> 0]]]]

(* completion_actual_column_permutation_index: what a candidate makes of   *)
(* its column and of the mirror of it, for the bounds of ColumnCompletion. *)
OffsetsIn(r, candidate, c) ==
    [die \in Rows |->
        LET owner == IF die < r THEN die ELSE IF die = r THEN candidate
                     ELSE CHOOSE other \in r .. DICE - 1 : other # candidate
        IN  search.grid[owner][c] % DICE]
CompletionChoices(p, r) ==
    {LET c == p.order[d]
         settled == {c} \union (IF Mirrored(build, c) THEN {MirrorColumn(build, c)} ELSE {})
     IN  {[x \in settled |-> OffsetsIn(r, candidate, x)] : candidate \in p.masks[d]} :
        d \in 1 .. Depth}
ConditionedCompletionPossible(p, r) ==
    ConditionedPossible(DICE, build.sides, CompletionChoices(p, r))

(* row1_choice_vector and row2_choice_vector, and the goals: one order and *)
(* one place are implied by the rest.                                      *)
Coordinates(r) ==
    {<<"place", place>> : place \in 0 .. DICE - 2}
        \union (IF TwoRowsLeft(r)
                THEN {<<"order", q>> : q \in RowOrders(r) \ {[i \in 1 .. r + 1 |-> r + 1 - i]}}
                ELSE IF 2 * build.mirrored # build.sides THEN {<<"pair", 0>>} ELSE {})
Coordinate(r, candidate, d, which) ==
    LET c == plan[r].order[d] IN
    CASE which[1] = "place" -> PlaceValue(search.grid, candidate, c, which[2])
      [] which[1] = "order" -> AdditiveValue(plan[r].contribution, search.grid, candidate, c,
                                             which[2])
      [] which[1] = "pair"  -> PairWin(search.grid, candidate, which[2], c)
CoordinateGoal(r, which) ==
    CASE which[1] = "place" -> PlaceGoal[build]
      [] which[1] = "order" -> OutcomeCount(build, r + 1) \div Factorial(r + 1)
      [] which[1] = "pair"  -> PairGoal

(* The sums that the columns of an interval of depths can make, each with  *)
(* the selections that make it.                                            *)
HalfSums(r, from, to) ==
    LET coordinates == Coordinates(r)
        Value(d, k) == [w \in coordinates |-> Coordinate(r, k, d, w)]
        Extend(partial, d) ==
            UNION {LET value == Value(d, k) IN
                   {<<Append(p[1], k), [w \in coordinates |-> p[2][w] + value[w]]>> : p \in partial} :
                      k \in plan[r].masks[d]}
    IN  FoldLeft(Extend, {<<<<>>, [w \in coordinates |-> 0]>>},
                 [i \in 1 .. to - from + 1 |-> from + i - 1])
MeetInMiddle(r) ==
    LET left  == HalfSums(r, 1, Depth \div 2)
        right == HalfSums(r, Depth \div 2 + 1, Depth)
        Needed(p) == [w \in DOMAIN p[2] |-> CoordinateGoal(r, w) - p[2][w]]
        bySum == [sum \in {p[2] : p \in right} |-> {p[1] : p \in {h \in right : h[2] = sum}}]
    IN  UNION {LET needed == Needed(p) IN
               IF needed \in DOMAIN bySum THEN {p[1] \o q : q \in bySum[needed]} ELSE {} :
                  p \in left}

-----------------------------------------------------------------------------
(* The tests of a node, for row r of a search s at depth d. *)

BoundsAllowGoal(s, p, r, d) ==
    \A place \in Rows : Allows(s.tally[r][place], p.place[place], d, PlaceGoal[build])

LinearBoundStride == 2
DirectionBoundsAllowGoal(s, p, r, d) ==
    d # Depth /\ d % LinearBoundStride = 0 =>
        \A pair \in AscendingPairs(Rows) :
            Allows(s.tally[r][pair[1]] - s.tally[r][pair[2]], p.direction[pair], d, 0)

(* A fully mirrored pair of dice is always even: nothing to count. *)
PairBoundsAllowGoal(s, p, r, d) ==
    2 * build.mirrored # build.sides =>
        \A previous \in 0 .. r - 1 : Allows(s.wins[r][previous], p.pair[previous], d, PairGoal)

PermGoal(r) == OutcomeCount(build, r + 1) \div Factorial(r + 1)
AdditivePermBoundsAllowGoal(s, p, r, d) ==
    HasPermGoal(r) => \A q \in RowOrders(r) : Allows(s.perms[r][q], p.perm[q], d, PermGoal(r))

AdditivePermLinearBoundStride == 3
AdditivePermDirectionBoundsAllowGoal(s, p, r, d) ==
    HasPermGoal(r) /\ d # Depth /\ d % AdditivePermLinearBoundStride = 0 =>
        \A pair \in OrderPairs(r) :
            Allows(s.perms[r][pair[1]] - s.perms[r][pair[2]], p.permDirection[pair], d, 0)

CompletedRowIsFair(s, r) ==
    /\ \A place \in Rows : s.tally[r][place] = PlaceGoal[build]
    /\ ~build.permOnly => CompletedPrefixIsPlaceFair(build, s.grid, r + 1)

-----------------------------------------------------------------------------
(* initialize_search and prepare_template_search. *)

NoPlan == [order |-> <<>>, masks |-> <<>>]

Init ==
    /\ build \in Builds
    /\ logicalDie = (IF TemplateActive THEN [r \in Rows |-> RowOrder[r + 1]]
                                      ELSE [r \in Rows |-> r])
    /\ fixed = {cell \in Rows \X SearchedColumns : FixedValues(logicalDie[cell[1]], cell[2]) # {}}
    /\ search = [grid  |-> IF ~TemplateActive \/ Conflicting THEN InitialGrid(build)
                           ELSE TemplateGrid(RowOrder),
                 tally |-> [r \in Rows |-> [place \in Rows |-> 0]],
                 wins  |-> [r \in Rows |-> [previous \in 0 .. r - 1 |-> 0]],
                 perms |-> [r \in Rows |-> <<>>]]
    /\ plan = [r \in Rows |-> NoPlan]
    /\ row = 0 /\ column = 0 /\ stack = <<>> /\ startRow = 0
    /\ prefix = [count |-> 1, columns |-> 0, current |-> 0]
    /\ mode = (IF Conflicting THEN "refused" ELSE "prepare")
    /\ found = <<>> /\ internalError = FALSE

(* A row the template fixes is built, checked and never searched. *)
PrepareFixedRow ==
    /\ mode = "prepare" /\ TemplateActive
    /\ startRow + 1 < DICE /\ RowFixed(startRow)
    /\ \E p \in {AddPermBounds(PlanRow(startRow), startRow)} :
       \E s \in {ApplyChoices([search EXCEPT !.perms[startRow] = NoTally(startRow)], p, startRow,
                              1, [d \in 1 .. Depth |-> startRow])} :
           /\ plan' = [plan EXCEPT ![startRow] = p]
           /\ search' = s
           /\ IF /\ BoundsAllowGoal(s, p, startRow, Depth)
                 /\ PairBoundsAllowGoal(s, p, startRow, Depth)
                 /\ AdditivePermBoundsAllowGoal(s, p, startRow, Depth)
                 /\ CompletedRowIsFair(s, startRow)
              THEN startRow' = startRow + 1 /\ UNCHANGED mode
              ELSE mode' = "done" /\ UNCHANGED startRow
    /\ UNCHANGED <<build, logicalDie, fixed, row, column, stack, prefix, found, internalError>>

PrepareFirstRow ==
    /\ mode = "prepare" /\ ~(TemplateActive /\ startRow + 1 < DICE /\ RowFixed(startRow))
    /\ IF startRow + 1 < DICE
       THEN \E p \in {PlanRow(startRow)} :
            /\ plan' = [plan EXCEPT ![startRow] =
                            IF TemplateActive THEN AddPermBounds(p, startRow) ELSE p]
            /\ search' = [search EXCEPT !.perms[startRow] = NoTally(startRow)]
       ELSE UNCHANGED <<plan, search>>
    /\ mode' = "split"
    /\ UNCHANGED <<build, logicalDie, fixed, row, column, stack, startRow, prefix, found,
                   internalError>>

-----------------------------------------------------------------------------
(* Prefixes: main and run_prefix. *)

Radix(d) == Cardinality(plan[startRow].masks[d])
PrefixCount(columns) == FoldLeft(LAMBDA n, d : n * Radix(d), 1, [d \in 1 .. columns |-> d])

(* Columns with one candidate are fixed for free. *)
PrefixColumns ==
    IF startRow + 1 >= DICE THEN 0
    ELSE Min({n \in 0 .. Depth :
                 n = Depth \/ (Radix(n + 1) > 1 /\ PrefixCount(n) >= build.jobs)})

SplitPrefixes ==
    /\ mode = "split"
    /\ prefix' = [count |-> PrefixCount(PrefixColumns), columns |-> PrefixColumns, current |-> 0]
    /\ mode' = (IF Possible(build) THEN "prefix" ELSE "done")
    /\ UNCHANGED <<build, logicalDie, fixed, search, plan, row, column, stack, startRow, found,
                   internalError>>

(* The digits of the prefix, lowest first, choose among the candidates. *)
Digit_NotDivided(d) == prefix.current % Radix(d)
Digit(d) == (prefix.current \div PrefixCount(d - 1)) % Radix(d)
Selected(d) ==
    LET mask == plan[startRow].masks[d]
    IN  CHOOSE k \in mask : Cardinality({j \in mask : j < k}) = Digit(d)

RunPrefix ==
    /\ mode = "prefix"
    /\ row' = startRow /\ column' = prefix.columns
    /\ IF startRow + 1 >= DICE
       THEN mode' = "accept" /\ UNCHANGED <<search, stack>>
       ELSE /\ mode' = (IF prefix.columns = 0 THEN "plan" ELSE "check")
            /\ search' = ApplyChoices(search, plan[startRow], startRow, 1,
                                      [d \in 1 .. prefix.columns |-> Selected(d)])
            /\ stack' = [d \in 1 .. prefix.columns |->
                            [row |-> startRow, depth |-> d, todo |-> {},
                             chosen |-> <<Selected(d)>>]]
    /\ UNCHANGED <<build, logicalDie, fixed, plan, startRow, prefix, found, internalError>>

NextPrefix ==
    /\ mode = "back" /\ stack = <<>>
    /\ IF internalError \/ prefix.current + 1 = prefix.count
       THEN mode' = "done" /\ UNCHANGED prefix
       ELSE mode' = "prefix" /\ prefix' = [prefix EXCEPT !.current = @ + 1]
    /\ UNCHANGED <<build, logicalDie, fixed, search, plan, row, column, stack, startRow, found,
                   internalError>>

-----------------------------------------------------------------------------
(* search_row. *)

(* The first node of a row plans it: a solved row in the order of the      *)
(* columns, with the values of its choices and no bounds.                  *)
PlanNode ==
    /\ mode = "plan"
    /\ plan' = [plan EXCEPT ![row] = IF Solved(row) THEN PrepareMitmColumns(row) ELSE PlanRow(row)]
    /\ search' = [search EXCEPT !.wins[row]  = [previous \in 0 .. row - 1 |-> 0],
                                !.perms[row] = IF Solved(row) THEN NoTally(row) ELSE @]
    /\ mode' = (IF Solved(row) THEN "solve" ELSE "check")
    /\ UNCHANGED <<build, logicalDie, fixed, row, column, stack, startRow, prefix, found,
                   internalError>>

(* solve_row1_ and solve_row2_meet_in_middle. *)
SolveRow ==
    /\ mode = "solve"
    /\ \E matches \in {IF ~TwoRowsLeft(row) \/ ~build.completion
                        \/ ConditionedCompletionPossible(plan[row], row)
                      THEN MeetInMiddle(row) ELSE {}} :
           IF matches = {} THEN mode' = "back" /\ UNCHANGED stack
           ELSE /\ mode' = "try"
                /\ stack' = Append(stack, [row |-> row, depth |-> 1, todo |-> matches,
                                           chosen |-> <<>>])
    /\ UNCHANGED <<build, logicalDie, fixed, search, plan, row, column, startRow, prefix, found,
                   internalError>>

NodeAllowed ==
    /\ BoundsAllowGoal(search, plan[row], row, column)
    /\ DirectionBoundsAllowGoal(search, plan[row], row, column)
    /\ PairBoundsAllowGoal(search, plan[row], row, column)

PruneNode ==
    /\ mode = "check" /\ ~NodeAllowed
    /\ mode' = "back"
    /\ UNCHANGED <<build, logicalDie, fixed, search, plan, row, column, stack, startRow, prefix,
                   found, internalError>>

(* The permutation bounds are built once the other bounds let the row in. *)
PassNode ==
    /\ mode = "check" /\ NodeAllowed
    /\ \E p \in {IF column = 0 THEN AddPermBounds(plan[row], row) ELSE plan[row]} :
       \E s \in {IF column = 0 THEN [search EXCEPT !.perms[row] = NoTally(row)] ELSE search} :
           /\ plan' = [plan EXCEPT ![row] = p]
           /\ search' = s
           /\ IF ~(/\ AdditivePermBoundsAllowGoal(s, p, row, column)
                   /\ AdditivePermDirectionBoundsAllowGoal(s, p, row, column))
              THEN mode' = "back" /\ UNCHANGED stack
              ELSE IF column = Depth THEN mode' = "complete" /\ UNCHANGED stack
              ELSE /\ mode' = "try"
                   /\ stack' = Append(stack, [row |-> row, depth |-> column + 1,
                                              todo |-> {<<k>> : k \in p.masks[column + 1]},
                                              chosen |-> <<>>])
    /\ UNCHANGED <<build, logicalDie, fixed, row, column, startRow, prefix, found, internalError>>

(* The candidates of a node from the lowest on; a solved row comes whole.  *)
TryCandidate ==
    /\ mode = "try" /\ Top.todo # {}
    /\ LET choices == CHOOSE q \in Top.todo : \A other \in Top.todo : q[1] <= other[1] IN
       /\ search' = ApplyChoices(search, plan[Top.row], Top.row, Top.depth, choices)
       /\ stack' = [stack EXCEPT ![Len(stack)].todo = @ \ {choices},
                                 ![Len(stack)].chosen = choices]
       /\ column' = Top.depth + Len(choices) - 1
       /\ mode' = (IF Solved(Top.row) THEN "complete" ELSE "check")
    /\ row' = Top.row
    /\ UNCHANGED <<build, logicalDie, fixed, plan, startRow, prefix, found, internalError>>

(* The call returns: what it chose is undone, and the next is tried. *)
UndoCandidate ==
    /\ mode = "back" /\ stack # <<>>
    /\ search' = UndoChoices(search, plan[Top.row], Top.row, Top.depth, Top.chosen)
    /\ IF internalError \/ Top.todo = {}
       THEN stack' = Front(stack) /\ UNCHANGED mode
       ELSE mode' = "try" /\ UNCHANGED stack
    /\ UNCHANGED <<build, logicalDie, fixed, plan, row, column, startRow, prefix, found,
                   internalError>>

CompleteRow ==
    /\ mode = "complete"
    /\ IF ~CompletedRowIsFair(search, row)
       THEN mode' = "back" /\ UNCHANGED <<row, column>>
       ELSE IF row + 1 < DICE - 1
       THEN mode' = "plan" /\ row' = row + 1 /\ column' = 0
       ELSE mode' = "accept" /\ UNCHANGED <<row, column>>
    /\ UNCHANGED <<build, logicalDie, fixed, search, plan, stack, startRow, prefix, found,
                   internalError>>

(* accept_configuration: the last die is what is left.  Its fairness is    *)
(* implied, and an internal error if it does not hold.                     *)
AcceptConfiguration ==
    /\ mode = "accept"
    /\ mode' = "back"
    /\ LET owner == OwnerOf(build, search.grid)
           ways  == CountWays(build, owner)
           fair  == PermutationFair(build, ways)
           kind  == IF fair THEN "permutation" ELSE "place"
       IN  IF ~ConfigurationIsPlaceFair(build, search.grid)
           THEN internalError' = TRUE /\ UNCHANGED found
           ELSE /\ UNCHANGED internalError
                /\ found' = IF IF build.permOnly THEN fair ELSE AllSubsetsPlaceFair(build, ways)
                            THEN Append(found, [kind  |-> kind,
                                                owner |-> [face \in Faces(build) |->
                                                              logicalDie[owner[face]]]])
                            ELSE found
    /\ UNCHANGED <<build, logicalDie, fixed, search, plan, row, column, stack, startRow, prefix>>

Next ==
    \/ PrepareFixedRow \/ PrepareFirstRow \/ SplitPrefixes \/ RunPrefix \/ NextPrefix
    \/ PlanNode \/ SolveRow \/ PruneNode \/ PassNode \/ TryCandidate \/ UndoCandidate
    \/ CompleteRow \/ AcceptConfiguration

Spec == Init /\ [][Next]_vars

-----------------------------------------------------------------------------
(* Properties. *)

Stopped == mode \in {"done", "refused"}

(* The owner of each face in the user's names of the dice. *)
FoundWords == {found[i].owner : i \in 1 .. Len(found)}

(* A row that is filled, after any number of choices made and undone in    *)
(* its own order of columns, has the tallies that counting its grid gives: *)
(* the rolls in which it comes in each place, those in which it beats each *)
(* row before it, and those in which the rows so far come in each order    *)
(* (apply_choice, undo_choice, build_additive_perm_bounds).  Columns of    *)
(* different heights and mirrored ones account for a constant number of    *)
(* wins.                                                                   *)
TalliesAreCounts ==
    mode = "complete" =>
        LET ways == CountWays(build, OwnerOf(build, search.grid)) IN
        /\ \A place \in Rows :
               search.tally[row][place]
                   = MapThenSumSet(LAMBDA q : IF q[DICE - place] = row THEN ways[q] ELSE 0,
                                   OrdersOf(build, Rows))
        /\ ~Solved(row) => \A previous \in 0 .. row - 1 :
               search.wins[row][previous] + build.mirrored
                       + Choose(build.sides, 2)
                   = ways[<<previous, row>>]
        /\ HasPermGoal(row) => \A q \in RowOrders(row) : search.perms[row][q] = ways[q]

(* The template and the forced mirrors, as the user reads them. *)
Respects(word) ==
    /\ \A t \in build.template : word[DICE * t[2] + t[3]] = t[1]
    /\ \A c \in 0 .. build.mirrored - 1 : \A offset \in Rows :
           word[MirrorFace(build, DICE * c + offset)] = word[DICE * c + offset]
    /\ build.template = {} =>
           LET c == PhysicalColumn(build, 0) IN
           \A die \in Rows : word[InitialGrid(build)[die][c]] = die
Fair(word) ==
    LET ways == CountWays(build, word) IN
    /\ \A a, b \in Rows : a # b => 2 * ways[<<a, b>>] = OutcomeCount(build, 2)
    /\ AllSubsetsPlaceFair(build, ways)
    /\ \A place \in 1 .. DICE, die \in Rows :
           DICE * MapThenSumSet(LAMBDA q : IF q[place] = die THEN ways[q] ELSE 0,
                                OrdersOf(build, Rows))
               = OutcomeCount(build, DICE)
    /\ build.permOnly => \A p, q \in OrdersOf(build, Rows) : ways[p] = ways[q]

(* What is recorded is fair by the definition of fairness, in all pairs    *)
(* and larger sets although the last die was never searched, keeps to the  *)
(* template and to the mirrors in the names the user gave the dice, and is *)
(* recorded once over all prefixes; and the fairness of the last die       *)
(* follows from that of the others (accept_configuration).                 *)
FoundAreFair ==
    /\ ~internalError
    /\ mode = "done" =>
           /\ Cardinality(FoundWords) = Len(found)
           /\ \A word \in FoundWords : Respects(word) /\ Fair(word)

(* No fair configuration is lost to the symmetry of names, the bounds, the *)
(* order of the columns, the rows solved as a whole or the splitting into  *)
(* prefixes, and none to a template that is refused.                       *)
SearchIsExhaustive ==
    Stopped =>
        /\ <<DICE, build.sides>> \in DOMAIN Words =>
               \A word \in Words[<<DICE, build.sides>>] :
                   Respects(word) /\ Fair(word) => word \in FoundWords
        /\ build \in DOMAIN Counts => Len(found) = Counts[build]
=============================================================================
