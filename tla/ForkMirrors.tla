---------------------------- MODULE ForkMirrors -----------------------------
(***************************************************************************)
(* sum_find_row_mir of dicemdeep.c: rows as in sum_find_row, mirrored but   *)
(* for MAXUNMIRROR columns in all, whose mirror column is then chosen too.  *)
(* Here a row takes its values from the rows below it on both sides, and    *)
(* gives them its own.                                                     *)
(***************************************************************************)
EXTENDS ForkRows

ASSUME ForkMirrorsAssumption ==
    \A b \in Builds : b.program = "unmirror" => b.mirror > 0 /\ b.maxUnmirror \in Nat

Half(b)      == b.sides \div 2
Mirror(b, s) == b.sides - 1 - s

(* What a value of column s adds to a row in which u are unmirrored, while *)
(* it counts for its mirror value too: that adds nothing in its turn.      *)
MirGain(b, u, v, s, p) ==
    IF s \in u THEN tallie_cache[b][v][p]
    ELSE IF s >= Half(b) THEN 0
    ELSE tallie_cache[b][v][p] + tallie_cache[b][Top(b) - v][p]
MirGainsOf(b, g, row, u, s, p) == {MirGain(b, u, g[d][s], s, p) : d \in row .. b.dice - 1}
mir_tallies_left(b, g, row, u) ==
    Table([p \in DiceOf(b) |->
        LET least == Table([s \in SidesOf(b) |-> Min(MirGainsOf(b, g, row, u, s, p))])
            greatest == Table([s \in SidesOf(b) |-> Max(MirGainsOf(b, g, row, u, s, p))])
            left[s \in 0 .. b.sides] ==
                IF s = b.sides THEN [min |-> 0, max |-> 0]
                ELSE LET rest == left[s + 1] IN
                     [min |-> least[s] + rest.min, max |-> greatest[s] + rest.max]
        IN  Table([s \in SidesOf(b) |-> left[s]])])

(* A node: u are the unmirrored columns of the current row, c is how many   *)
(* pairs of columns have been unmirrored in all rows.                      *)
MirNode(b, g, c) ==
    [g |-> g, t |-> Table([p \in DiceOf(b) |-> 0]), u |-> {}, c |-> c, left |-> <<>>]

EnterMir(b, row, depth, nodes) ==
    LET enter(node) == [node EXCEPT !.left = mir_tallies_left(b, node.g, row, {})]
        entered == IF depth = 0 THEN Each(nodes, enter) ELSE nodes
    IN  SelectSeq(entered, LAMBDA node : WithinPlaces(b, node, depth))

Exchange(g, row, d, s) == [g EXCEPT ![row][s] = g[d][s], ![d][s] = g[row][s]]
WithTally(b, node, v) ==
    [node EXCEPT !.t = Table([p \in DiceOf(b) |-> node.t[p] + tallie_cache[b][v][p]])]

(* The row takes the value of die d in this column.                        *)
Taken(b, row, depth, node, d) ==
    WithTally(b, [node EXCEPT !.g = Exchange(@, row, d, depth)], node.g[d][depth])

(* In the first half the mirror column may be left to be chosen ...        *)
Unmirrored(b, row, depth, node) ==
    IF depth >= Half(b) \/ node.c >= b.maxUnmirror THEN <<>>
    ELSE LET u == node.u \cup {depth, Mirror(b, depth)} IN
         <<[node EXCEPT !.u = u, !.c = @ + 1, !.left = mir_tallies_left(b, node.g, row, u)]>>

(* ... or gets the mirror value, unless a row above has that; an unmirrored *)
(* column of the second half must not get it.                              *)
Mirrored(b, row, depth, node) ==
    LET v == Top(b) - node.g[row][depth]
        holders == {d \in row .. b.dice - 1 : node.g[d][Mirror(b, depth)] = v}
    IN  IF depth >= Half(b)
        THEN IF node.g[row][Mirror(b, depth)] = v THEN <<>> ELSE <<node>>
        ELSE IF holders = {} THEN <<>>
        ELSE <<WithTally(b, [node EXCEPT !.g = Exchange(@, row, Min(holders), Mirror(b, depth))], v)>>

(* The two of each value in turn.  The first column is not permuted: its    *)
(* choices end with the first value that has its mirror.                   *)
MirChild(b, row, depth, node, n) ==
    LET d == row + (n - 1) \div 2
        taken(e) == Taken(b, row, depth, node, e)
    IN  IF depth >= Half(b) /\ depth \notin node.u THEN IF n = 1 THEN <<node>> ELSE <<>>
        ELSE IF depth = 0 /\ \E e \in row .. d - 1 : Mirrored(b, row, depth, taken(e)) # <<>>
        THEN <<>>
        ELSE IF n % 2 = 1 THEN Unmirrored(b, row, depth, taken(d))
                          ELSE Mirrored(b, row, depth, taken(d))

LeaveMir(b, row, depth, nodes) ==
    LET children == SelectSeq(Spread(nodes, 2 * (b.dice - row),
                                     LAMBDA node, n : MirChild(b, row, depth, node, n)),
                              LAMBDA child : child # <<>>)
        finished(below) ==
            IF depth < b.sides - 1 THEN below
            ELSE Each(SelectSeq(below, LAMBDA node : RowIsFair(b, row, node)),
                      LAMBDA node : MirNode(b, node.g, node.c))
    IN  finished(Each(children, Head))

(* The fork level is in the first row. *)
MirNodesAt(b, level) ==
    FoldLeft(LAMBDA nodes, l : EnterMir(b, 0, l, LeaveMir(b, 0, l - 1, nodes)),
             EnterMir(b, 0, 0, <<MirNode(b, InitialGrid(b), 0)>>), [i \in 1 .. level |-> i])
FillRow(b, row, from, nodes) ==
    IF nodes = <<>> THEN <<>>
    ELSE FoldLeft(LAMBDA ns, l : LeaveMir(b, row, l, EnterMir(b, row, l, ns)), nodes,
                  [i \in 1 .. b.sides - from |-> from + i - 1])
MirGridsBelow(b, level, node) ==
    GridsOf(FoldLeft(LAMBDA nodes, row : FillRow(b, row, 0, nodes),
                     FillRow(b, 0, level + 1, LeaveMir(b, 0, level, <<node>>)),
                     [row \in 1 .. b.dice - 1 |-> row]))
=============================================================================
