------------------------------ MODULE ForkRows ------------------------------
(***************************************************************************)
(* The enumerations of old_dice, as one process runs them: sum_find and    *)
(* sum_find_row of dicemdeep.c, and the sum_find_row of other programs:     *)
(* dicesmarter.c has one table of bounds for all rows, dicedeep.c one for   *)
(* each, dicendeep.c tests the first dice among themselves, and dicepldeep.c *)
(* adds symmetries and the tallies of the first few dice.  They visit a    *)
(* tree depth first; here one level of it after the other, each level in   *)
(* the order in which the recursion reaches it.                            *)
(*                                                                         *)
(* A grid has the values of each die by column; columns, dice and places   *)
(* are numbered from 0, and a value is column * dice + residue.            *)
(***************************************************************************)
EXTENDS Integers, Sequences, SequencesExt, FiniteSetsExt

CONSTANT Builds     \* the macros of a build and the enumeration main calls

(* In the place of 2^64: all sums but those of what memory happens to hold  *)
(* are far below it.                                                       *)
Word == 2 ^ 24

ASSUME ForkRowsAssumption ==
    \A b \in Builds :
        /\ b.program \in {"sum_find", "sum_find_row", "smarter", "deep", "weak", "subsets",
                          "perm", "unmirror", "distribute"}
        /\ b.dice \in Nat \ {0, 1} /\ b.sides \in Nat \ {0} /\ b.mirror \in 0 .. b.sides \div 2
        /\ b.pair => b.mirror = 0 /\ b.sides % 2 = 0
        /\ b.program # "subsets" => ~b.pair
        /\ b.program \notin {"weak", "subsets"} => b.mirror = 0 \/ 2 * b.mirror = b.sides
        /\ b.mutations # <<>> => b.program \in {"deep", "weak", "subsets"}
        /\ \A m \in ToSet(b.mutations) :
               /\ m.c \in 1 .. (IF b.mirror = 0 THEN b.sides ELSE b.sides \div 2) - 1
               /\ m.r1 \in 0 .. b.dice - 1 /\ m.r2 \in 0 .. b.dice - 1
        /\ b.program = "subsets" => b.dice <= 3     \* larger ones overflow 64 bits, see Choose
        /\ 2 * b.sides * b.sides ^ b.dice < Word
        /\ b.program = "subsets" =>
               /\ b.stack # <<>>
               /\ \A found \in ToSet(b.stack) :
                      {found.min, found.max} \subseteq -(Word \div 2) .. Word \div 2 - 1

Table(f) == f @@ <<>>
Each(nodes, f(_)) == Table([i \in DOMAIN nodes |-> f(nodes[i])])
GridsOf(leaves)   == Each(leaves, LAMBDA leaf : leaf.g)
(* The children of all nodes of a level, each node having the same number. *)
Spread(nodes, fanout, child(_, _)) ==
    Table([i \in 1 .. Len(nodes) * fanout |->
              child(nodes[((i - 1) \div fanout) + 1], ((i - 1) % fanout) + 1)])
Power(n, e) == IF e = 0 THEN 1 ELSE n ^ e
Factorial(n) == LET f[i \in 0 .. n] == IF i = 0 THEN 1 ELSE i * f[i - 1] IN f[n]

DiceOf(b)    == 0 .. b.dice - 1
SidesOf(b)   == 0 .. b.sides - 1
Top(b)       == b.dice * b.sides - 1
GOALTALLY(b) == Power(b.sides, b.dice) \div b.dice
PERMGOAL(b)  == Power(b.sides, b.dice) \div Factorial(b.dice)

(* The columns whose value a row chooses, first to last; the others follow  *)
(* by symmetry.                                                            *)
Steps(b)         == IF b.pair THEN b.sides \div 2 ELSE b.sides - b.mirror
Column(b, i)     == IF b.pair THEN 2 * i ELSE i
ChosenFrom(b, s) == {c \in {Column(b, i) : i \in 0 .. Steps(b) - 1} : c >= s}
Partner(b, v, s) == (s + 1) * b.dice + (b.dice - 1 - (v % b.dice))

OrderedGrid(b) ==
    Table([d \in DiceOf(b) |-> Table([s \in SidesOf(b) |->
        IF s < b.sides - b.mirror THEN s * b.dice + d
        ELSE Top(b) - ((b.sides - 1 - s) * b.dice + d)])])

(* Two dice exchange their values in a column, never the first one, and in *)
(* its mirror column.                                                      *)
mutate(b, g, m) ==
    LET exchange(h, s) == [h EXCEPT ![m.r1][s] = h[m.r2][s], ![m.r2][s] = h[m.r1][s]] IN
    IF b.mirror = 0 THEN exchange(g, m.c) ELSE exchange(exchange(g, m.c), b.sides - 1 - m.c)

(* Some programs start from a random grid.                                 *)
InitialGrid(b) == FoldLeft(LAMBDA g, m : mutate(b, g, m), OrderedGrid(b), b.mutations)

-----------------------------------------------------------------------------
(* Tallies. *)

(* n may be -1, for more dice in front than there are: uint64_t makes it   *)
(* the largest number, and the products wrap to (-1)^r for r up to 2.      *)
Choose(n, r) ==
    IF n = -1 THEN (IF r % 2 = 0 THEN 1 ELSE -1)
    ELSE IF r > n THEN 0
    ELSE Factorial(n) \div (Factorial(r) * Factorial(n - r))

(* (uint64_t)pow(n, e): fractions become 0.  1 / 0 has no uint64_t value;  *)
(* the conversion of baseline x86-64 makes it 0.                           *)
Pow(n, e) == IF e >= 0 THEN Power(n, e) ELSE IF n = 1 THEN 1 ELSE 0

(* In how many rolls of n other dice, of which `above' have the larger     *)
(* value in this column, a value of column s has p larger ones.            *)
Places(b, n, above, s, p) ==
    LET term(ab) == Choose(above, ab) * Pow(b.sides - s - 1, ab)
                    * Choose(n - above, p - ab) * Pow(b.sides - s, p - ab)
                    * Pow(s + 1, above - ab) * Pow(s, n - above - (p - ab))
        upTo[ab \in 0 .. p] == term(ab) + (IF ab = 0 THEN 0 ELSE upTo[ab - 1])
    IN  upTo[IF p < above THEN p ELSE above]

tallie_cache ==
    Table([b \in Builds |-> Table([v \in 0 .. Top(b) |-> Table([p \in DiceOf(b) |->
        Places(b, b.dice - 1, v % b.dice, v \div b.dice, p)])])])

(* What choosing value v of column s adds, with those that follow from it. *)
Gain_MirrorForgotten(b, v, s, p) ==
    tallie_cache[b][v][p] + (IF b.pair THEN tallie_cache[b][Partner(b, v, s)][p] ELSE 0)
Gain(b, v, s, p) ==
    tallie_cache[b][v][p]
    + (IF s < b.mirror THEN tallie_cache[b][Top(b) - v][p] ELSE 0)
    + (IF b.pair THEN tallie_cache[b][Partner(b, v, s)][p] ELSE 0)

(* The least and the greatest that the columns from s on can add to a row. *)
GainsOf(b, g, row, s, p) == {Gain(b, g[d][s], s, p) : d \in row .. b.dice - 1}
Start_min(b) == Power(b.sides, IF b.program \in {"smarter", "deep", "perm"} THEN b.dice - 1 ELSE b.dice)
build_tallies_left(b, g, row) ==
    Table([p \in DiceOf(b) |-> Table([s \in ChosenFrom(b, 0) |->
        [min |-> MapThenSumSet(LAMBDA c : Min({Start_min(b)} \cup GainsOf(b, g, row, c, p)),
                               ChosenFrom(b, s)),
         max |-> MapThenSumSet(LAMBDA c : Max(GainsOf(b, g, row, c, p)), ChosenFrom(b, s))]])])

check_pair_fair(b, g, d1, d2) ==
    Cardinality({s \in SidesOf(b) : g[d1][s] > g[d2][s]}) = b.sides \div 2

-----------------------------------------------------------------------------
(* Tallies of the dice up to row n among themselves (dicepldeep.c). *)

subset_goal(b, n) == Power(b.sides, n + 1) \div (n + 1)
Subsets(b, row) == b.program = "subsets" /\ row >= b.subsetMin - 1

(* The places of residue d in column s if row n took residue pd there: -1  *)
(* if an earlier row has that one.                                         *)
subset_tallie_cache(b, g, n, d, s, pd, p) ==
    LET earlier == {g[i][s] % b.dice : i \in 0 .. n - 1} IN
    IF pd \in earlier THEN -1
    ELSE Places(b, n, Cardinality({r \in earlier \cup {pd} : r < d}), s, p)

(* With what the value that follows by symmetry adds. *)
SubsetGain(b, g, n, d, s, pd, p) ==
    LET follows(c) == subset_tallie_cache(b, g, n, b.dice - 1 - d, c, b.dice - 1 - pd, p) IN
    subset_tallie_cache(b, g, n, d, s, pd, p)
    + (IF s < b.mirror THEN follows(b.sides - 1 - s) ELSE 0)
    + (IF b.pair THEN follows(s + 1) ELSE 0)

(* What row rnum may yet get in column s; for the row being filled, all    *)
(* the remaining values are combined with all the remaining choices.       *)
SubsetGains(b, g, row, rnum, s, p) ==
    {SubsetGain(b, g, row, g[c[1]][s] % b.dice, s, c[2], p) :
        c \in {d \in (IF rnum < row THEN {rnum} ELSE row .. b.dice - 1) \X DiceOf(b) :
                  subset_tallie_cache(b, g, row, g[d[1]][s] % b.dice, s, d[2], p) # -1}}

(* min[rows] and max[rows] are never reset: they run on over the columns,   *)
(* last one first, and from place to place.  Nor are they set at first: a  *)
(* call finds in them what its stack holds, any two numbers.               *)
RunningGains(b, g, row, s, p) ==
    UNION {SubsetGains(b, g, row, row, x[2], x[1]) :
              x \in {y \in (0 .. p) \X ChosenFrom(b, 0) : y[1] = p => y[2] >= s}}
SubsetLeast(b, g, row, found, rnum, s, p) ==
    IF rnum < row THEN Min(SubsetGains(b, g, row, rnum, s, p))
    ELSE Min(RunningGains(b, g, row, s, p) \cup {found.min})
SubsetGreatest(b, g, row, found, rnum, s, p) ==
    IF rnum < row THEN Max(SubsetGains(b, g, row, rnum, s, p))
    ELSE Max(RunningGains(b, g, row, s, p) \cup {found.max})

build_subset_tallies_left(b, g, row, found) ==
    Table([rnum \in 0 .. row |-> Table([p \in 0 .. row |->
        LET sides == ChosenFrom(b, 0)
            least == Table([s \in sides |-> SubsetLeast(b, g, row, found, rnum, s, p)])
            greatest == Table([s \in sides |-> SubsetGreatest(b, g, row, found, rnum, s, p)])
        IN  Table([s \in sides |->
                [min |-> MapThenSumSet(LAMBDA c : least[c], ChosenFrom(b, s)),
                 max |-> MapThenSumSet(LAMBDA c : greatest[c], ChosenFrom(b, s))]])])])

subset_n_places_fair(b, g, n) ==
    LET splaces(d, p) ==
            MapThenSumSet(LAMBDA s :
                Places(b, n - 1, Cardinality({i \in 0 .. n - 1 : g[i][s] < g[d][s]}), s, p),
                SidesOf(b))
    IN  \A d, p \in 0 .. n - 1 : splaces(d, p) = splaces(0, 0)

-----------------------------------------------------------------------------
(* sum_find_row: a node is a grid whose rows before the current one are    *)
(* complete, with the tallies of the current row and what it can still get. *)

Node(b, g) ==
    [g |-> g, t |-> Table([p \in DiceOf(b) |-> 0]),
     st |-> Table([r \in DiceOf(b) |-> Table([p \in DiceOf(b) |-> 0])]),
     left |-> <<>>, subsetLeft |-> <<>>]

(* The n-th node of a row in a process finds the n-th values of the stack,  *)
(* over and over.                                                          *)
EnterRow(b, row, node, n) ==
    [node EXCEPT
        !.left = build_tallies_left(b, node.g, IF b.program = "smarter" THEN 0 ELSE row),
        !.subsetLeft =
            IF Subsets(b, row)
            THEN build_subset_tallies_left(b, node.g, row, b.stack[((n - 1) % Len(b.stack)) + 1])
            ELSE <<>>]

(* Tallies are uint64_t: a sum below zero is a very large one. *)
Under(x, goal) == x % Word < goal
Over(x, goal)  == x % Word > goal

WithinPlaces(b, node, depth) ==
    \A p \in DiceOf(b) :
        /\ ~Under(node.t[p] + node.left[p][depth].max, GOALTALLY(b))
        /\ ~Over(node.t[p] + node.left[p][depth].min, GOALTALLY(b))
WithinSubset(b, node, row, depth) ==
    \A rnum, p \in 0 .. row :
        /\ ~Under(node.st[rnum][p] + node.subsetLeft[rnum][p][depth].max, subset_goal(b, row))
        /\ ~Over(node.st[rnum][p] + node.subsetLeft[rnum][p][depth].min, subset_goal(b, row))

TestedAmongThemselves(b, row) == Subsets(b, row) \/ (b.program = "weak" /\ row >= 3)
Enter(b, row, depth, nodes) ==
    LET entered == IF depth > 0 THEN nodes
                   ELSE Table([n \in DOMAIN nodes |-> EnterRow(b, row, nodes[n], n)])
    IN  SelectSeq(entered, LAMBDA node :
            /\ depth = 0 /\ TestedAmongThemselves(b, row) => subset_n_places_fair(b, node.g, row)
            /\ WithinPlaces(b, node, depth)
            /\ Subsets(b, row) => WithinSubset(b, node, row, depth))

(* The row takes the value of die d in this column, and those that follow; *)
(* die d gets the row's.                                                   *)
Follow(b, values, s) ==
    [values EXCEPT ![b.sides - 1 - s] = IF s < b.mirror THEN Top(b) - values[s] ELSE @,
                   ![IF b.pair THEN s + 1 ELSE s] =
                       IF b.pair THEN Partner(b, values[s], s) ELSE @]
Swap(b, g, row, d, depth) ==
    [g EXCEPT ![row] = Follow(b, [@ EXCEPT ![depth] = g[d][depth]], depth),
              ![d] = IF d = row THEN @ ELSE [@ EXCEPT ![depth] = g[row][depth]]]
AddTally(b, node, g, row, depth) ==
    [node EXCEPT
        !.g = g,
        !.t = Table([p \in DiceOf(b) |-> node.t[p] + Gain(b, g[row][depth], depth, p)]),
        !.st = IF ~Subsets(b, row) THEN node.st
               ELSE Table([r \in DiceOf(b) |-> Table([p \in DiceOf(b) |->
                        node.st[r][p] +
                            (IF r > row \/ p > row THEN 0
                             ELSE SubsetGain(b, g, row, g[r][depth] % b.dice, depth,
                                             g[row][depth] % b.dice, p))])])]

(* Every value of the rows from this one on; none but its own in the first *)
(* column.                                                                 *)
RowChoices(b, row, depth) ==
    IF depth = 0 THEN <<row>> ELSE [i \in 1 .. b.dice - row |-> row + i - 1]

Descend(b, row, depth, nodes) ==
    LET choices == RowChoices(b, row, depth) IN
    Spread(nodes, Len(choices), LAMBDA node, n :
        AddTally(b, node, Swap(b, node.g, row, choices[n], depth), row, depth))

(* A complete row goes on to the next if it is place-fair and even with    *)
(* every row before it.                                                    *)
RowIsFair(b, row, node) ==
    /\ \A p \in DiceOf(b) : node.t[p] = GOALTALLY(b)
    /\ \A i \in 0 .. row - 1 : check_pair_fair(b, node.g, i, row)
FinishRow(b, row, nodes) ==
    Each(SelectSeq(nodes, LAMBDA node : RowIsFair(b, row, node)), LAMBDA node : Node(b, node.g))

(* Levels are numbered over all rows; the root is entered on level 0.      *)
RowOf(b, level)   == level \div Steps(b)
DepthOf(b, level) == Column(b, level % Steps(b))
EnterLevel(b, level, nodes) == Enter(b, RowOf(b, level), DepthOf(b, level), nodes)
LeaveLevel(b, level, nodes) ==
    LET finished(below) ==
            IF level % Steps(b) = Steps(b) - 1 THEN FinishRow(b, RowOf(b, level), below) ELSE below
    IN  finished(Descend(b, RowOf(b, level), DepthOf(b, level), nodes))

(* The nodes entered on a level, and the grids below a node entered there. *)
NodesAt(b, level) ==
    FoldLeft(LAMBDA nodes, l : EnterLevel(b, l, LeaveLevel(b, l - 1, nodes)),
             EnterLevel(b, 0, <<Node(b, InitialGrid(b))>>), [i \in 1 .. level |-> i])
GridsBelow(b, level, node) ==
    GridsOf(FoldLeft(LAMBDA nodes, l : LeaveLevel(b, l, EnterLevel(b, l, nodes)),
                     LeaveLevel(b, level, <<node>>),
                     [i \in 1 .. b.dice * Steps(b) - 1 - level |-> level + i]))

-----------------------------------------------------------------------------
(* sum_find: column by column, all rows at once.                           *)

(* The permutations of a column in the order next_perm brings them: p[k]   *)
(* counts down how often position k still has to be exchanged.             *)
next_perm(state) ==
    LET p == [state.p EXCEPT ![state.k] = @ - 1]
        j == (state.k % 2) * p[state.k]
        k == Min({i \in 1 .. Len(p) : p[i] # 0})
    IN  [order |-> [state.order EXCEPT ![j] = state.order[state.k], ![state.k] = state.order[j]],
         p |-> [i \in DOMAIN p |-> IF i < k THEN i ELSE p[i]],
         k |-> k]
ColumnOrders(b) ==
    LET first == [order |-> [d \in DiceOf(b) |-> d], p |-> [i \in 1 .. b.dice |-> i], k |-> 1]
    IN  Each(FoldLeft(LAMBDA states, i : Append(states, next_perm(Last(states))),
                      <<first>>, [i \in 1 .. Factorial(b.dice) - 1 |-> i]),
             LAMBDA state : state.order)

ColumnNode(b) ==
    [g |-> InitialGrid(b), t |-> [d \in DiceOf(b) |-> [p \in DiceOf(b) |-> 0]],
     left |-> build_tallies_left(b, InitialGrid(b), 0)]

EnterColumn(b, depth, nodes) ==
    SelectSeq(nodes, LAMBDA node :
        \A d \in DiceOf(b) : WithinPlaces(b, [node EXCEPT !.t = @[d]], depth))

PermutedColumn(b, g, depth, order) ==
    Table([d \in DiceOf(b) |-> Follow(b, [g[d] EXCEPT ![depth] = g[order[d]][depth]], depth)])
PermuteColumn(b, node, depth, order) ==
    LET g == PermutedColumn(b, node.g, depth, order) IN
    [node EXCEPT !.g = g,
                 !.t = Table([d \in DiceOf(b) |-> Table([p \in DiceOf(b) |->
                           node.t[d][p] + Gain(b, g[d][depth], depth, p)])])]

(* The orders tried in a column: one only in the first.                    *)
Fanout(orders, depth) == IF depth > 0 THEN Len(orders) ELSE 1
LeaveColumn(b, orders, depth, nodes) ==
    Spread(nodes, Fanout(orders, depth),
           LAMBDA node, n : PermuteColumn(b, node, depth, orders[n]))

ColumnNodesAt(b, level) ==
    FoldLeft(LAMBDA nodes, l : EnterColumn(b, l, LeaveColumn(b, ColumnOrders(b), l - 1, nodes)),
             EnterColumn(b, 0, <<ColumnNode(b)>>), [i \in 1 .. level |-> i])
ColumnGridsBelow(b, level, node) ==
    GridsOf(FoldLeft(LAMBDA nodes, l : LeaveColumn(b, ColumnOrders(b), l, EnterColumn(b, l, nodes)),
                     LeaveColumn(b, ColumnOrders(b), level, <<node>>),
                     [i \in 1 .. Steps(b) - 1 - level |-> level + i]))

-----------------------------------------------------------------------------
(* fast_count_perms: the orders of some of the dice, by the values so far. *)
(* A tree that grows while it is traversed: what is new contains the die   *)
(* at hand, and is passed by.                                              *)
Owners(b, g) ==
    [i \in 1 .. b.dice * b.sides |->
        CHOOSE d \in DiceOf(b) : g[d][(i - 1) \div b.dice] = i - 1]
fast_count_perms(b, g) ==
    FoldLeft(LAMBDA perms, d :
                 LET keys == {Append(p, d) : p \in {q \in DOMAIN perms : d \notin ToSet(q)}}
                 IN  [q \in keys |-> perms[Front(q)] + (IF q \in DOMAIN perms THEN perms[q] ELSE 0)]
                         @@ perms,
             <<>> :> 1, Owners(b, g))
Distance(x, y) == IF x < y THEN y - x ELSE x - y
score_perms(b, perms) ==
    MapThenSumSet(LAMBDA q : Distance(PERMGOAL(b), perms[q]),
                  {q \in DOMAIN perms : Len(q) = b.dice})
=============================================================================
