------------------------------ MODULE GoSearch ------------------------------
(***************************************************************************)
(* gofirstdice.go: main permutes the first COLMASK columns of the dice and *)
(* starts a goroutine for each result, as far as a channel of THREADS      *)
(* places admits; a goroutine permutes the other columns, row by row, and  *)
(* counts and prints the fair sets.  Goroutines share the tables, which    *)
(* nobody changes any more, and three counters under a mutex.              *)
(*                                                                         *)
(* A recursive search that keeps its dice sets and tallies in two arrays,  *)
(* one cell for each row and side, and passes on pointers into them: the   *)
(* cells are explicit here.  Dice, sides and places are numbered from 0.   *)
(***************************************************************************)
EXTENDS Integers, Sequences, SequencesExt, FiniteSetsExt, ColumnWords

CONSTANT Builds     \* the constants DICE, SIDES, COLMASK and THREADS of a build

ASSUME GoAssumption ==
    \A b \in Builds :
        /\ b.dice \in Nat \ {0, 1} /\ b.sides \in Nat \ {0}
        /\ b.colmask \in 1 .. b.sides /\ b.threads \in Nat \ {0}

VARIABLES
    build,
    mainPc,         \* where main is in threaded_fill_table_by_row
    threadcount,
    threadwait,     \* messages in the channel
    waitgroup,
    goroutine,      \* by tnum
    count,          \* placefaircount, allsubsetplacefaircount and permfaircount
    printed         \* what was printed of each kind

vars == <<build, mainPc, threadcount, threadwait, waitgroup, goroutine, count, printed>>

Kinds == {"placefair", "allsubsetplacefair", "permfair"}

Dice  == 0 .. build.dice - 1
Sides == 0 .. build.sides - 1
Cells == Dice \X (0 .. build.sides)

-----------------------------------------------------------------------------
(* The tables. *)

product(factors) == FoldLeft(LAMBDA p, factor : p * factor, 1, factors)
Total(terms, S) == MapThenSumSet(LAMBDA i : terms[i], S)

intpow(n, e)  == product([i \in 1 .. e |-> n])
factorial(n)  == product([i \in 1 .. n |-> i])
TallyGoal(b)  == intpow(b.sides, b.dice) \div b.dice
PathSize(b)   == intpow(b.sides, b.dice) \div b.dice + 1

(* Multiplied out down to the larger of r and n - r, then divided. *)
binomial(n, r) ==
    IF r > n THEN 0
    ELSE LET l1 == IF n - r > r THEN r ELSE n - r
             l2 == n - l1
         IN  FoldLeft(LAMBDA c, i : c \div i,
                      product([i \in 1 .. n - l1 |-> n + 1 - i]), [i \in 1 .. l2 |-> l2 + 1 - i])

(* How often a value comes in a place.  Where p - abv exceeds the dice     *)
(* behind d the binomial is 0, and the exponent that wraps has no effect.  *)
build_tally_table ==
    [b \in Builds |->
        [v \in 0 .. b.dice * b.sides - 1 |-> [p \in 0 .. b.dice - 1 |->
            LET s == v \div b.dice
                d == v % b.dice
                behind == b.dice - 1 - d
                ways == [abv \in 0 .. Min({p, d}) |->
                            IF p - abv > behind THEN 0
                            ELSE binomial(d, abv) * intpow(b.sides - s - 1, abv)
                                 * binomial(behind, p - abv) * intpow(b.sides - s, p - abv)
                                 * intpow(s + 1, d - abv) * intpow(s, behind - (p - abv))]
            IN  Total(ways, 0 .. Min({p, d}))]]]
Tally(v, p) == build_tally_table[build][v][p]

(* Even columns ascend and odd ones descend. *)
InitialSet(b) ==
    [d \in 0 .. b.dice - 1 |-> [s \in 0 .. b.sides - 1 |->
        s * b.dice + (IF s % 2 = 0 THEN d ELSE b.dice - 1 - d)]]

(* path_table: from each column on, the running tallies that some choice   *)
(* of one value in each column brings to the goal.                         *)
PathTable_LastDieOmitted(b, s, p, next) ==
    {n - build_tally_table[b][InitialSet(b)[d][s]][p] : d \in 0 .. b.dice - 2, n \in next} \cap Nat
PathTable(b, s, p, next) ==
    {n - build_tally_table[b][InitialSet(b)[d][s]][p] : d \in 0 .. b.dice - 1, n \in next} \cap Nat
find_tally_path ==
    [b \in Builds |-> [p \in 0 .. b.dice - 1 |->
        FoldRight(LAMBDA s, paths : <<PathTable(b, s, p, Head(paths))>> \o paths,
                  [i \in 1 .. b.sides |-> i - 1], <<{TallyGoal(b)}>>)]]

(* The least and the greatest that the columns from each side on can add.  *)
TalliesAt(dset, row, s, p) == {Tally(dset[d][s], p) : d \in row .. build.dice - 1}
find_tally_left(dset, row) ==
    [p \in Dice |->
        LET least    == [s \in Sides |-> Min(TalliesAt(dset, row, s, p))]
            greatest == [s \in Sides |-> Max(TalliesAt(dset, row, s, p))]
        IN  [i \in 1 .. build.sides |->
                [min |-> Total(least, i - 1 .. build.sides - 1),
                 max |-> Total(greatest, i - 1 .. build.sides - 1)]]]

-----------------------------------------------------------------------------
(* The tests of finished rows. *)

(* setstring: the dice of the values in ascending order, of the first few. *)
setstring(dset, dcount) ==
    SelectSeq([i \in 1 .. build.dice * build.sides |->
                  LET v == i - 1
                      owners == {d \in 0 .. dcount - 1 : dset[d][v \div build.dice] = v}
                  IN  IF owners = {} THEN -1 ELSE Min(owners)],
              LAMBDA d : d >= 0)

(* The orders in which values of some of the dice can be drawn, and how    *)
(* often.  A map that grows while it is ranged over: entries that are new  *)
(* contain the letter at hand and are passed by, whether visited or not.   *)
findperms(dstr) ==
    FoldLeft(LAMBDA perms, l :
                 LET longer == {p \in DOMAIN perms : l \notin ToSet(p)}
                     keys == {Append(p, l) : p \in longer}
                 IN  [q \in keys |-> perms[Front(q)] + (IF q \in DOMAIN perms THEN perms[q] ELSE 0)]
                         @@ perms,
             <<>> :> 1, dstr)

ispermfair(perms, dcount) ==
    \A p \in DOMAIN perms :
        Len(p) >= 2 => perms[p] = intpow(build.sides, Len(p)) \div factorial(Len(p))

isallsubsetplacefair(perms, dcount) ==
    LET subsets == {ToSet(p) : p \in {q \in DOMAIN perms : Len(q) > 1}} IN
    \A subset \in subsets : LET l == Cardinality(subset) IN
        \A a \in subset, i \in 1 .. l :
            MapThenSumSet(LAMBDA p : perms[p],
                          {p \in DOMAIN perms : ToSet(p) = subset /\ p[i] = a})
                = intpow(build.sides, l) \div l

checkpairsfair(dset, d1, d2) ==
    Cardinality({s \in Sides : dset[d1][s] > dset[d2][s]}) = build.sides \div 2

-----------------------------------------------------------------------------
(* permute: the masked columns of one row after the other, the first one   *)
(* as it is.  The result that comes n-th, by its choices: the digits of n. *)

Position(b, i) == <<(i - 1) \div (b.colmask - 1), 1 + ((i - 1) % (b.colmask - 1))>>
Positions(b) == [i \in 1 .. b.dice * (b.colmask - 1) |-> Position(b, i)]
Widths(b) == [i \in DOMAIN Positions(b) |-> b.dice - Position(b, i)[1]]
JobCount(b) == product(Widths(b))

Swapped(dset, row, d, side) ==
    [dset EXCEPT ![row][side] = dset[d][side], ![d][side] = dset[row][side]]

permute(b, n) ==
    LET widths   == Widths(b)
        below(i) == product(SubSeq(widths, i + 1, Len(widths)))
        swaps    == [i \in DOMAIN widths |->
                        [row |-> Position(b, i)[1], side |-> Position(b, i)[2],
                         d |-> Position(b, i)[1] + ((n \div below(i)) % widths[i])]]
    IN  FoldLeft(LAMBDA dset, swap : Swapped(dset, swap.row, swap.d, swap.side),
                 InitialSet(b), swaps)

-----------------------------------------------------------------------------
(* fill_table_by_row.  A goroutine that enters search(dset, curtally, row, *)
(* side) finds the arguments in the cell of the caller; those of the first *)
(* call are in the cell it will write to itself.                           *)

DsetCell(row, side) ==
    IF side > 0 THEN <<row, side - 1>>
    ELSE IF row > 0 THEN <<row - 1, build.sides - 1>> ELSE <<0, 0>>
TallyCell(row, side) ==
    IF side > 0 THEN <<row, side - 1>>
    ELSE IF row > 0 THEN <<row - 1, build.sides>> ELSE <<0, 0>>

Init ==
    /\ build \in Builds
    /\ mainPc = "permute" /\ threadcount = 1 /\ threadwait = 0 /\ waitgroup = 0
    /\ goroutine = <<>>
    /\ count = [kind \in Kinds |-> 0] /\ printed = {}

Gone == [pc |-> "gone"]
Zero == [p \in Dice |-> 0]

Started(n) ==
    [pc |-> "enter", row |-> 0, side |-> 0, kind |-> "none",
     choice |-> [cell \in Cells |-> 0],
     dsetcache |-> [cell \in Cells |-> IF cell = <<0, 0>> THEN permute(build, n) ELSE <<>>],
     curtallycache |-> [cell \in Cells |-> Zero],
     left |-> [row \in Dice |-> <<>>]]

(* threadwait <- true, waitgroup.Add(1), go: one step, since what main does *)
(* between them nobody waits for; only main reads the wait group, later.    *)
AddWaiter_InGoroutine == UNCHANGED waitgroup
AddWaiter == waitgroup' = waitgroup + 1

SpawnGoroutine ==
    /\ mainPc = "permute" /\ threadcount <= JobCount(build) /\ threadwait < build.threads
    /\ threadwait' = threadwait + 1
    /\ AddWaiter
    /\ goroutine' = Append(goroutine, Started(threadcount - 1))
    /\ threadcount' = threadcount + 1
    /\ UNCHANGED <<build, mainPc, count, printed>>

(* waitgroup.Wait(), and the totals that main prints as it ends.           *)
WaitForAll ==
    /\ mainPc = "permute" /\ threadcount > JobCount(build) /\ waitgroup = 0
    /\ mainPc' = "done"
    /\ UNCHANGED <<build, threadcount, threadwait, waitgroup, goroutine, count, printed>>

(* Goroutines end with main. *)
Running(t, pc) == mainPc # "done" /\ goroutine[t].pc = pc
Becomes(t, g) == goroutine' = [goroutine EXCEPT ![t] = g]
Search(t, g) ==
    /\ Becomes(t, g)
    /\ UNCHANGED <<build, mainPc, threadcount, threadwait, waitgroup, count, printed>>

(* The pruning tests, one place after the other. *)
Unreachable(t, max) == t + max < TallyGoal(build)
Overrun_Untested(t, min) == FALSE
Overrun(t, min) == t + min > TallyGoal(build)
NoPath(side, p, t) == t \notin find_tally_path[build][p][side + 1]

Curtally(g) == g.curtallycache[TallyCell(g.row, g.side)]
Dset(g) == g.dsetcache[DsetCell(g.row, g.side)]
Bounded(g, p) ==
    /\ ~Unreachable(Curtally(g)[p], g.left[g.row][p][g.side + 1].max)
    /\ ~Overrun(Curtally(g)[p], g.left[g.row][p][g.side + 1].min)
Admitted(g, p) == Bounded(g, p) /\ ~NoPath(g.side, p, Curtally(g)[p])

(* Each time a row starts the bounds are computed from the rows before it. *)
WithBounds(g) ==
    IF g.side = 0 THEN [g EXCEPT !.left[g.row] = find_tally_left(Dset(g), g.row)] ELSE g

EnterNode(t) ==
    /\ Running(t, "enter") /\ goroutine[t].side < build.sides
    /\ \E g \in {WithBounds(goroutine[t])} :
       Search(t, IF \A p \in Dice : Admitted(g, p)
                 THEN [g EXCEPT !.pc = "choose", !.choice[<<g.row, g.side>>] = g.row]
                 ELSE [g EXCEPT !.pc = "return"])

(* The dice set of the caller with two values swapped; a masked column is  *)
(* taken as it is.                                                         *)
LastChoice(g) == IF g.side < build.colmask THEN g.row ELSE build.dice - 1

SwapIn(g, d) ==
    LET cell   == <<g.row, g.side>>
        copied == [g EXCEPT !.dsetcache[cell] = Dset(g)]
        placed == [copied EXCEPT !.dsetcache[cell][g.row][g.side] = Dset(copied)[d][g.side]]
    IN  [placed EXCEPT !.dsetcache[cell][d][g.side] = Dset(placed)[g.row][g.side]]
AddTally(g) ==
    LET cell == <<g.row, g.side>> IN
    [g EXCEPT !.curtallycache[cell] =
        [p \in Dice |-> Curtally(g)[p] + Tally(g.dsetcache[cell][g.row][g.side], p)]]

TryValue(t) ==
    /\ Running(t, "choose")
    /\ goroutine[t].choice[<<goroutine[t].row, goroutine[t].side>>] <= LastChoice(goroutine[t])
    /\ \E g \in {SwapIn(goroutine[t], goroutine[t].choice[<<goroutine[t].row, goroutine[t].side>>])} :
       Search(t, [AddTally(g) EXCEPT !.pc = "enter", !.side = g.side + 1])
(* The call returns: its caller, or the one that went on to the next row,  *)
(* tries its next value.                                                   *)
Returned(g) ==
    IF g.row = 0 /\ g.side = 0 THEN [g EXCEPT !.pc = "release"]
    ELSE LET caller == DsetCell(g.row, g.side)
         IN  [g EXCEPT !.pc = "choose", !.row = caller[1], !.side = caller[2],
                       !.choice[caller] = @ + 1]

Return(t) ==
    /\ \/ Running(t, "return")
       \/ /\ Running(t, "choose")
          /\ LET g == goroutine[t] IN g.choice[<<g.row, g.side>>] > LastChoice(g)
    /\ Search(t, Returned(goroutine[t]))

RowIsFair(g) ==
    /\ \A p \in Dice : Curtally(g)[p] = TallyGoal(build)
    /\ \A d \in 0 .. g.row - 1 : checkpairsfair(Dset(g), d, g.row)
    /\ g.row > 1 /\ g.row < build.dice - 1 =>
           isallsubsetplacefair(findperms(setstring(Dset(g), g.row + 1)), g.row + 1)

(* The last die has what the others leave, and is not looked at.           *)
RestartTally(g) == [g EXCEPT !.curtallycache[<<g.row, build.sides>>] = Zero]

FinishRow(t) ==
    /\ Running(t, "enter") /\ goroutine[t].side = build.sides
    /\ LET g == goroutine[t] IN
       Search(t, IF ~RowIsFair(g) THEN [g EXCEPT !.pc = "return"]
                 ELSE IF g.row < build.dice - 2
                      THEN [RestartTally(g) EXCEPT !.row = g.row + 1, !.side = 0]
                      ELSE [g EXCEPT !.pc = "count", !.kind = "placefair"])

(* One of the counters under countermutex, then a line under iomutex.      *)
CountSet(t) ==
    /\ Running(t, "count")
    /\ count' = [count EXCEPT ![goroutine[t].kind] = @ + 1]
    /\ Becomes(t, [goroutine[t] EXCEPT !.pc = "print"])
    /\ UNCHANGED <<build, mainPc, threadcount, threadwait, waitgroup, printed>>

Word(g) == setstring(Dset(g), build.dice)

PrintSet(t) ==
    /\ Running(t, "print")
    /\ LET g == goroutine[t] IN
       /\ printed' = printed \union {<<g.kind, Word(g)>>}
       /\ Becomes(t, [g EXCEPT !.pc = IF g.kind = "placefair" THEN "classify" ELSE "return"])
    /\ UNCHANGED <<build, mainPc, threadcount, threadwait, waitgroup, count>>

ClassifySet(t) ==
    /\ Running(t, "classify")
    /\ LET g == goroutine[t]
           perms == findperms(Word(g))
       IN  Search(t, IF ispermfair(perms, build.dice)
                     THEN [g EXCEPT !.pc = "count", !.kind = "permfair"]
                     ELSE IF isallsubsetplacefair(perms, build.dice)
                          THEN [g EXCEPT !.pc = "count", !.kind = "allsubsetplacefair"]
                          ELSE [g EXCEPT !.pc = "return"])

(* Behind the search: <-threadwait, then waitgroup.Done().                 *)
Release == threadwait' = threadwait - 1

ReleasePlace(t) ==
    /\ Running(t, "release")
    /\ Release
    /\ Becomes(t, [goroutine[t] EXCEPT !.pc = "leave"])
    /\ UNCHANGED <<build, mainPc, threadcount, waitgroup, count, printed>>

LeaveGroup(t) ==
    /\ Running(t, "leave")
    /\ waitgroup' = waitgroup - 1
    /\ Becomes(t, Gone)
    /\ UNCHANGED <<build, mainPc, threadcount, threadwait, count, printed>>

Worker(t) ==
    \/ EnterNode(t) \/ TryValue(t) \/ Return(t) \/ FinishRow(t)
    \/ CountSet(t) \/ PrintSet(t) \/ ClassifySet(t)
    \/ ReleasePlace(t) \/ LeaveGroup(t)

Ended == mainPc = "done" /\ UNCHANGED vars
Next == SpawnGoroutine \/ WaitForAll \/ Ended \/ \E t \in DOMAIN goroutine : Worker(t)

Spec == Init /\ [][Next]_vars

-----------------------------------------------------------------------------
(* Properties. *)

(* The sets a search that leaves nothing out reports: the grids of even    *)
(* dice, with the first column as it is, whose dice come in every place    *)
(* equally often, the first three or more of them among themselves, too.   *)
Places(columns, b, dcount) ==
    LET Face(d, s) == b.dice * s + columns[s + 1][d + 1]
        Rank(roll, a) == Cardinality({d \in DOMAIN roll : Face(d, roll[d]) < Face(a, roll[a])})
        rolls == [0 .. dcount - 1 -> 0 .. b.sides - 1]
    IN  \A a \in 0 .. dcount - 1, p \in 0 .. dcount - 1 :
            Cardinality({roll \in rolls : Rank(roll, a) = p}) = intpow(b.sides, dcount) \div dcount
Expected ==
    [b \in Builds |->
        {columns \in Grids(b.dice, b.sides) :
            /\ \A d \in 1 .. b.dice : columns[1][d] = d - 1
            /\ \A dcount \in {b.dice} \union 3 .. b.dice - 1 : Places(columns, b, dcount)}]
AsPrinted(columns, b) ==
    [i \in 1 .. b.dice * b.sides |-> OwnerWord(columns, b.dice, b.sides)[i - 1]]
KindsOf(word) ==
    LET perms == findperms(word)
        even == \A p \in DOMAIN perms :
                    Len(p) >= 2 => perms[p] * factorial(Len(p)) = intpow(build.sides, Len(p))
    IN  {"placefair",
         IF even THEN "permfair" ELSE "none",
         IF ~even /\ isallsubsetplacefair(perms, build.dice) THEN "allsubsetplacefair" ELSE "none"}
        \ {"none"}

(* When main prints the totals, though goroutines end in any order, every  *)
(* set that is to be reported was found in one job, counted and printed    *)
(* once, and nothing else was.                                             *)
SearchIsExhaustive ==
    mainPc = "done" =>
        LET words == {AsPrinted(columns, build) : columns \in Expected[build]} IN
        /\ printed = UNION {KindsOf(word) \X {word} : word \in words}
        /\ \A kind \in Kinds : count[kind] = Cardinality({x \in printed : x[1] = kind})

(* The channel holds a message for each goroutine that searches, no more   *)
(* of which run than it has places, and the wait group counts those that   *)
(* have not left: main ends after the last of them, and is never left      *)
(* waiting with nobody to make place.                                      *)
PlacesAreHeld ==
    /\ threadwait = Cardinality({t \in DOMAIN goroutine : goroutine[t].pc \notin {"leave", "gone"}})
    /\ threadwait <= build.threads
    /\ waitgroup = Cardinality({t \in DOMAIN goroutine : goroutine[t].pc # "gone"})
    /\ mainPc = "done" => goroutine = [n \in 1 .. JobCount(build) |-> Gone]

(* The tables are indexed within their bounds: a running tally that is     *)
(* looked up in path_table has passed the test before it, and stays below  *)
(* PATHSIZE.                                                               *)
IndexInBounds ==
    \A t \in DOMAIN goroutine : Running(t, "enter") /\ goroutine[t].side < build.sides =>
        LET g == WithBounds(goroutine[t]) IN
        \A p \in Dice :
            (Bounded(g, p) /\ \A q \in 0 .. p - 1 : Admitted(g, q))
                => Curtally(g)[p] < PathSize(build)
=============================================================================
