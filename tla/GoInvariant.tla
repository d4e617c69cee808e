---------------------------- MODULE GoInvariant -----------------------------
(***************************************************************************)
(* The inductive invariant of GoSearch: what a goroutine holds in the      *)
(* cells it may still read, and how main counts the goroutines.            *)
(***************************************************************************)
EXTENDS GoSearch

DiceSetsOf(b) == [0 .. b.dice - 1 -> [0 .. b.sides - 1 -> 0 .. b.dice * b.sides - 1]]
DiceSets == DiceSetsOf(build)
Bounds   == [Dice -> [1 .. build.sides -> [min : Nat, max : Nat]]]

AtWork == {"enter", "choose", "return", "count", "print", "classify", "release", "leave"}
Goroutines ==
    [pc : AtWork, row : Dice, side : 0 .. build.sides, kind : Kinds \union {"none"},
     choice : [Cells -> Nat],
     dsetcache : [Cells -> DiceSets \union {<<>>}],
     curtallycache : [Cells -> [Dice -> Nat]],
     left : [Dice -> Bounds \union {<<>>}]]

(* The type invariant: a dice set assigns a value of the dice to each side *)
(* of each die, a tally and a bound are natural numbers.                   *)
TypeOK ==
    /\ build \in Builds
    /\ mainPc \in {"permute", "done"}
    /\ threadcount \in Nat /\ threadwait \in Nat /\ waitgroup \in Nat
    /\ goroutine \in Seq(Goroutines \union {Gone})
    /\ count \in [Kinds -> Nat]

-----------------------------------------------------------------------------
(* Main has created one goroutine for each number below threadcount.       *)
CreatedInv ==
    /\ threadcount = Len(goroutine) + 1
    /\ threadcount <= JobCount(build) + 1
    /\ mainPc = "done" => threadcount = JobCount(build) + 1

Searching == {t \in DOMAIN goroutine : goroutine[t].pc \notin {"leave", "gone"}}
Present   == {t \in DOMAIN goroutine : goroutine[t].pc # "gone"}

(* The channel and the wait group count them, before main has ended.       *)
CountedInv ==
    /\ threadwait = Cardinality(Searching) /\ threadwait <= build.threads
    /\ waitgroup = Cardinality(Present)
    /\ mainPc = "done" => waitgroup = 0

(* The cells on the path to the one at work hold dice sets, and the bounds *)
(* of its rows have been computed.                                         *)
Before(cell, g) ==
    /\ cell[2] < build.sides
    /\ cell[1] < g.row \/ (cell[1] = g.row /\ cell[2] < g.side)
PathInv(g) ==
    /\ g.dsetcache[<<0, 0>>] \in DiceSets
    /\ \A cell \in Cells : Before(cell, g) => g.dsetcache[cell] \in DiceSets
    /\ \A r \in Dice : r < g.row \/ (r = g.row /\ (g.side > 0 \/ g.pc = "choose"))
           => g.left[r] \in Bounds
    /\ g.pc = "choose" => g.side < build.sides
    /\ g.pc \in {"count", "print", "classify"} => g.kind \in Kinds
PathsInv == \A t \in DOMAIN goroutine : goroutine[t].pc # "gone" => PathInv(goroutine[t])

IInv == TypeOK /\ CreatedInv /\ CountedInv /\ PathsInv
=============================================================================
