----------------------------- MODULE Distribute -----------------------------
(***************************************************************************)
(* dice.c: one process that tries every mirrored grid, column by column, as *)
(* long as the rows stay balanced, and prints those that are fair.         *)
(***************************************************************************)
EXTENDS ForkRows

(* No sum of the first d values of a row is further than v from the middle. *)
check_rows(b, g, d, v) ==
    LET middle == (d * (d * b.dice - 1)) \div 2 IN
    \A j \in DiceOf(b) :
        MapThenSumSet(LAMBDA s : g[j][s], 0 .. d - 1) \in middle - v .. middle + v

(* The rolls of the first n dice with die i on side s in which p others are *)
(* above it, the others taken in turn.                                     *)
RollsBySide(b, g, n, i, s) ==
    LET above == Table([j \in 0 .. n - 1 |-> Cardinality({x \in SidesOf(b) : g[i][s] < g[j][x]})])
        joined(rolls, j) ==
            Table([p \in 0 .. n - 1 |->
                rolls[p] * (b.sides - above[j]) + (IF p = 0 THEN 0 ELSE rolls[p - 1] * above[j])])
    IN  FoldLeft(joined, Table([p \in 0 .. n - 1 |-> IF p = 0 THEN 1 ELSE 0]),
                 SelectSeq([j \in 1 .. n |-> j - 1], LAMBDA j : j # i))
(* In how many rolls of the first n dice p others are above die i.         *)
count_perms(b, g, n, i) ==
    FoldLeft(LAMBDA t, s : LET rolls == RollsBySide(b, g, n, i, s - 1)
                           IN  Table([p \in 0 .. n - 1 |-> t[p] + rolls[p]]),
             Table([p \in 0 .. n - 1 |-> 0]), [s \in 1 .. b.sides |-> s])

(* The number of places, first ones first, that all n dice are equally     *)
(* often in.                                                               *)
check_tallies(b, g, n) ==
    LET tallies == Table([i \in 0 .. n - 1 |-> count_perms(b, g, n, i)])
        equal(p) == \A i \in 0 .. n - 1 : tallies[i][p] = tallies[0][p]
    IN  Cardinality({p \in 0 .. n - 1 : \A q \in 0 .. p : equal(q)})

(* What is tested of a complete grid before its places are counted.        *)
IsPreliminarilyFair(b, g) ==
    /\ check_rows(b, g, b.sides, 0)
    /\ \A d, e \in 0 .. 2 : d < e => check_pair_fair(b, g, d, e)
    /\ \A n \in {3, 4} : n < b.dice => check_tallies(b, g, n) = n

EnterBalanced(b, depth, grids) ==
    SelectSeq(grids, LAMBDA g : depth % 2 = 0 => check_rows(b, g, depth, 2))
LeaveBalanced(b, orders, depth, grids) ==
    Spread(grids, Fanout(orders, depth), LAMBDA g, n : PermutedColumn(b, g, depth, orders[n]))

(* Halfway the grid is complete, each column having set its mirror column; *)
(* what is not fair for the first place is dropped.                        *)
DistributedGrids(b) ==
    LET leaves == FoldLeft(LAMBDA grids, l :
                      EnterBalanced(b, l, LeaveBalanced(b, ColumnOrders(b), l - 1, grids)),
                      EnterBalanced(b, 0, <<InitialGrid(b)>>), [i \in 1 .. Steps(b) |-> i])
    IN  SelectSeq(leaves, LAMBDA g : IsPreliminarilyFair(b, g)
                                     /\ check_tallies(b, g, b.dice) > 0)
=============================================================================
