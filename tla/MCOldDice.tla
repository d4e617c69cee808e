----------------------------- MODULE MCOldDice ------------------------------
(* Small builds of the programs of old_dice. *)
EXTENDS OldDiceInvariant, TLC

CONSTANTS low, mid, high

Base == [program |-> "sum_find_row", dice |-> 3, sides |-> 6, mirror |-> 0, pair |-> FALSE,
         subsetMin |-> 2, minPermDepth |-> 2, maxUnmirror |-> 4,
         mutations |-> <<>>, stack |-> <<[min |-> 0, max |-> 0]>>,
         forkLevel |-> 2, MAXTHREADS |-> 3, SEMSKIP |-> 2]
(* dicepldeep.c as it is set up, but smaller, and with pairs of columns;    *)
(* what a call may find on its stack.                                      *)
Harmless == <<[min |-> 0, max |-> 0], [min |-> 1, max |-> -1], [min |-> 40, max |-> 100],
              [min |-> Word \div 2 - 1, max |-> -(Word \div 2)], [min |-> 3, max |-> Word \div 64]>>
Negative == <<[min |-> 0, max |-> 0], [min |-> -1, max |-> 0]>>
Huge     == <<[min |-> 0, max |-> Word \div 2 - 1], [min |-> 5, max |-> -3]>>
Unpaired == [Base EXCEPT !.program = "subsets"]
Paired == [Unpaired EXCEPT !.pair = TRUE]
Alone == [Base EXCEPT !.forkLevel = 0, !.SEMSKIP = 3]
Mutations == <<[c |-> 1, r1 |-> 0, r2 |-> 2], [c |-> 3, r1 |-> 1, r2 |-> 0],
               [c |-> 1, r1 |-> 1, r2 |-> 2], [c |-> 4, r1 |-> 2, r2 |-> 1]>>
MCBuilds == {
    Base,
    Alone,
    [Alone EXCEPT !.program = "smarter"],
    [Base EXCEPT !.program = "deep", !.MAXTHREADS = 2, !.mutations = Mutations],
    [Alone EXCEPT !.program = "weak", !.dice = 4, !.sides = 12, !.mirror = 6,
           !.mutations = Mutations],
    [Alone EXCEPT !.program = "perm"],
    [Alone EXCEPT !.program = "perm", !.sides = 12, !.mirror = 6, !.minPermDepth = 4],
    [Alone EXCEPT !.program = "unmirror", !.sides = 12, !.mirror = 6],
    [Alone EXCEPT !.program = "distribute", !.sides = 12, !.mirror = 6],
    [Base EXCEPT !.program = "sum_find", !.MAXTHREADS = 2],
    [Base EXCEPT !.sides = 12, !.mirror = 6],
    Paired, [Paired EXCEPT !.stack = Harmless, !.mutations = Mutations],
    [Paired EXCEPT !.stack = Negative], [Paired EXCEPT !.stack = Huge],
    Unpaired, [Unpaired EXCEPT !.stack = Negative],
    [Alone EXCEPT !.program = "subsets", !.sides = 12, !.mirror = 6, !.stack = Harmless]}

MCGrids == {low, mid, high}
MCScoreOf == (low :> 0) @@ (mid :> 1) @@ (high :> 2)
MCSwaps == (low :> <<mid>>) @@ (mid :> <<high, low>>) @@ (high :> <<mid>>)
MCOwnScoreOf == <<4, 3, 2, 2, 1, 0, 0>>
MCOwnGrids == 1 .. 7
MCStartGrids == (0 :> high) @@ (1 :> mid)
=============================================================================
