----------------------------- MODULE ForkPerms ------------------------------
(***************************************************************************)
(* sum_find_perm of old_dice: column by column like sum_find, but from a   *)
(* depth on every node also has, for each order of some of the dice, the   *)
(* number of rolls that show rising values in it, and is abandoned when one *)
(* of these numbers must become too large.                                 *)
(***************************************************************************)
EXTENDS ForkRows

ASSUME ForkPermsAssumption ==   \* MINPERMDEPTH; beyond SIDES no order would be counted
    \A b \in Builds : b.program = "perm" => b.minPermDepth \in 1 .. b.sides

(* The tree that build_perm_stuff fills: the orders of some dice, by length. *)
Orders(b, n) == {q \in [1 .. n -> DiceOf(b)] : IsInjective(q)}
AllOrders(b) == UNION {Orders(b, n) : n \in 0 .. b.dice}
npr(n, r)    == Factorial(n) \div Factorial(n - r)

NoOrders(b) == [q \in AllOrders(b) |-> IF q = <<>> THEN 1 ELSE 0]

(* By the values of the column, least first: the die that has the value is *)
(* put after every order without it.                                       *)
count_all_perms_re(b, g, orders, c) ==
    FoldLeft(LAMBDA p, k :
                 LET d == CHOOSE d \in DiceOf(b) : g[d][c] = c * b.dice + k - 1 IN
                 Table([q \in DOMAIN p |->
                     IF q # <<>> /\ Last(q) = d THEN p[q] + p[Front(q)] ELSE p[q]]),
             orders, [k \in 1 .. b.dice |-> k])

(* The least numbers that can be reached: in each column that is left, each *)
(* order at least follows all that its front has.                          *)
min_all_perms(b, orders, depth) ==
    FoldLeft(LAMBDA m, c :
                 Table([q \in DOMAIN m |-> IF q = <<>> THEN 1 ELSE m[q] + m[Front(q)]]),
             orders, [c \in 1 .. b.sides - depth |-> c])

pgoal(b, n) == Power(b.sides, n) \div npr(n, n)
WithinOrders(b, node, depth) ==
    LET least == min_all_perms(b, node.orders, depth) IN
    \A n \in 2 .. b.dice : \A q \in Orders(b, n) : least[q] <= pgoal(b, n)

-----------------------------------------------------------------------------
PermNode(b) == ColumnNode(b) @@ [orders |-> NoOrders(b)]

CatchUp(b, node, depth) ==
    [node EXCEPT !.orders =
        FoldLeft(LAMBDA p, c : count_all_perms_re(b, node.g, p, c - 1), NoOrders(b),
                 [c \in 1 .. depth |-> c])]

(* The tallies of a node are tested before its orders; those of columns     *)
(* that follow by symmetry are in already.                                 *)
EnterPerm(b, depth, nodes) ==
    LET within == IF depth < Steps(b) THEN EnterColumn(b, depth, nodes) ELSE nodes
        counted == IF depth = b.minPermDepth
                   THEN Each(within, LAMBDA node : CatchUp(b, node, depth))
                   ELSE within
    IN  SelectSeq(counted, LAMBDA node : depth >= b.minPermDepth => WithinOrders(b, node, depth))

CountColumn(b, node, depth) ==
    IF depth >= b.minPermDepth
    THEN [node EXCEPT !.orders = count_all_perms_re(b, node.g, @, depth)] ELSE node

LeavePerm(b, orders, depth, nodes) ==
    Each(IF depth >= Steps(b) THEN nodes ELSE LeaveColumn(b, orders, depth, nodes),
         LAMBDA node : CountColumn(b, node, depth))

PermNodesAt(b, level) ==
    FoldLeft(LAMBDA nodes, l : EnterPerm(b, l, LeavePerm(b, ColumnOrders(b), l - 1, nodes)),
             EnterPerm(b, 0, <<PermNode(b)>>), [i \in 1 .. level |-> i])
PermLeavesBelow(b, level, node) ==
    FoldLeft(LAMBDA nodes, l : EnterPerm(b, l, LeavePerm(b, ColumnOrders(b), l - 1, nodes)),
             <<node>>, [i \in 1 .. b.sides - level |-> level + i])

(* A leaf already has its orders: every length counts, short ones more.    *)
score_all_perms(b, orders) ==
    MapThenSumSet(LAMBDA q : Distance(pgoal(b, Len(q)), orders[q]) * Power(4, b.dice - Len(q)),
                  DOMAIN orders)
=============================================================================
