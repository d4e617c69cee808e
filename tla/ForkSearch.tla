----------------------------- MODULE ForkSearch -----------------------------
(***************************************************************************)
(* The processes of the enumerations of old_dice.  main walks the tree down *)
(* to the fork level and forks a child for every node it reaches there; a  *)
(* child enumerates what is below its node, adds to the shared totals under *)
(* semaphore 0, and exits.  A section under that semaphore is one action.  *)
(*                                                                         *)
(* A job is what one child enumerates: its grids and their scores in the   *)
(* order in which the recursion reaches them.                              *)
(***************************************************************************)
EXTENDS ForkPerms, ForkMirrors, Distribute

CONSTANT MaxFailures    \* how many calls of fork() may fail

ASSUME ForkSearchAssumption ==
    /\ MaxFailures \in Nat
    /\ \A b \in Builds :
           /\ b.forkLevel \in 0 .. Steps(b) - 1     \* 0: DOFORK is 0
           /\ b.MAXTHREADS \in Nat \ {0} /\ b.SEMSKIP \in Nat \ {0}

VARIABLES
    build,      \* the macros of the binary that runs
    jobs,       \* by fork point, the sequence of its grids and their scores
    next,       \* the fork point main reaches next
    children,   \* main's count of its children
    child,      \* the child of each fork point, with its t_ globals
    shm,        \* *shmdata
    lost,       \* the fork points whose fork() failed
    listed,     \* the grids printed before they are known to be fair
    printed,    \* the fair grids printed, both as <<fork point, number>>
    reported    \* main has printed the totals

searchVars == <<build, jobs, next, children, child, shm, lost, listed, printed, reported>>

Forking == build.forkLevel > 0

(* The nodes of the fork level, and what the enumeration reaches below one. *)
ForkPoints(b) ==
    CASE b.program = "sum_find"   -> ColumnNodesAt(b, b.forkLevel)
      [] b.program = "perm"       -> PermNodesAt(b, b.forkLevel)
      [] b.program = "unmirror"   -> MirNodesAt(b, b.forkLevel)
      [] b.program = "distribute" -> <<ColumnNode(b)>>
      [] OTHER                    -> NodesAt(b, b.forkLevel)
Leaves(b, node) ==
    LET scored(grids) == Each(grids, LAMBDA g :
            [grid |-> g, score |-> score_perms(b, fast_count_perms(b, g))])
    IN  CASE b.program = "sum_find" -> scored(ColumnGridsBelow(b, b.forkLevel, node))
          [] b.program = "perm" ->
                 Each(PermLeavesBelow(b, b.forkLevel, node), LAMBDA leaf :
                     [grid |-> leaf.g, score |-> score_all_perms(b, leaf.orders)])
          [] b.program = "unmirror" -> scored(MirGridsBelow(b, b.forkLevel, node))
          [] b.program = "distribute" ->
                 Each(DistributedGrids(b), LAMBDA g :
                     [grid |-> g, score |-> b.dice - check_tallies(b, g, b.dice)])
          [] OTHER -> scored(GridsBelow(b, b.forkLevel, node))

Jobs(b) == Each(ForkPoints(b), LAMBDA node : Leaves(b, node))
StartingBest(b) == PERMGOAL(b) * Factorial(b.dice) + 1

AreJobs(js) ==
    /\ Len(js) \in Nat /\ DOMAIN js = 1 .. Len(js)
    /\ \A i \in DOMAIN js :
           /\ Len(js[i]) \in Nat /\ DOMAIN js[i] = 1 .. Len(js[i])
           /\ \A j \in DOMAIN js[i] : js[i][j].score \in Nat

ASSUME JobsAssumption ==    \* an enumeration ends, and its numbers are numbers
    \A b \in Builds : AreJobs(Jobs(b)) /\ StartingBest(b) \in Nat

NotForked == [pc |-> "none", at |-> 1, t_count_pl_fair |-> 0, t_best_pr_score |-> 0]

SearchInit ==
    \E b \in Builds : \E js \in {Jobs(b)} :
        /\ build = b /\ jobs = js
        /\ next = 1 /\ children = 0 /\ lost = {} /\ listed = {} /\ printed = {} /\ reported = FALSE
        /\ child = [i \in DOMAIN js |-> NotForked]
        /\ shm = [count_pl_fair |-> 0, count_pr_fair |-> 0, goal_count |-> 1,
                  best_pr_score |-> StartingBest(b)]

-----------------------------------------------------------------------------
(* The process that walks down to the fork points. *)

(* At the fork level; without DOFORK the walk simply goes on below it.     *)
Fork ==
    /\ next <= Len(jobs)
    /\ Forking => children < build.MAXTHREADS
    /\ next' = next + 1
    /\ children' = IF Forking THEN children + 1 ELSE children
    /\ child' = [child EXCEPT ![next].pc = IF Forking THEN "start" ELSE "leaf"]
    /\ UNCHANGED <<build, jobs, shm, lost, listed, printed, reported>>

(* -1 is not 0: taken for the parent's return, with the child counted.     *)
ForkFails ==
    /\ Forking /\ next <= Len(jobs) /\ children < build.MAXTHREADS
    /\ Cardinality(lost) < MaxFailures
    /\ next' = next + 1
    /\ children' = children + 1
    /\ lost' = lost \cup {next}
    /\ UNCHANGED <<build, jobs, child, shm, listed, printed, reported>>

(* wait() after a fork as long as there are MAXTHREADS children, and at the *)
(* root until there is none; with no child left it fails at once.          *)
Unreaped == {i \in DOMAIN jobs : child[i].pc \notin {"none", "reaped"}}
Wait ==
    /\ children >= build.MAXTHREADS \/ (next > Len(jobs) /\ children > 0)
    /\ children' = children - 1
    /\ \/ Unreaped = {} /\ UNCHANGED child
       \/ \E i \in Unreaped : child[i].pc = "exited" /\ child' = [child EXCEPT ![i].pc = "reaped"]
    /\ UNCHANGED <<build, jobs, next, shm, lost, listed, printed, reported>>

Drained_Assumed == TRUE
Drained == children = 0
Report ==
    /\ ~reported /\ next > Len(jobs) /\ Drained
    /\ Forking \/ \A i \in DOMAIN jobs : child[i].pc = "exited"
    /\ reported' = TRUE
    /\ UNCHANGED <<build, jobs, next, children, child, shm, lost, listed, printed>>

-----------------------------------------------------------------------------
(* A child. *)

Score(i) == jobs[i][child[i].at].score

(* What is left to do about the grid at hand, given t_best_pr_score.       *)
OnToFair(i, c) ==
    IF Score(i) = 0 THEN [c EXCEPT !.pc = "fair"] ELSE [c EXCEPT !.pc = "leaf", !.at = @ + 1]
OnToBest(i, c) ==
    IF Score(i) < c.t_best_pr_score THEN [c EXCEPT !.pc = "best"] ELSE OnToFair(i, c)

AddCount(count) ==
    [shm EXCEPT !.count_pl_fair = @ + count,
                !.goal_count = IF shm.count_pl_fair + count >= @ THEN @ * 2 ELSE @]

Start(i) ==
    /\ child[i].pc = "start"
    /\ child' = [child EXCEPT
           ![i].pc = "leaf",
           ![i].t_best_pr_score = IF build.program = "subsets" THEN shm.best_pr_score ELSE @]
    /\ UNCHANGED <<build, jobs, next, children, shm, lost, listed, printed, reported>>

(* dicendeep.c prints every grid that passed the tests. *)
ListLeaf(i) ==
    /\ build.program = "weak" /\ child[i].pc = "leaf" /\ child[i].at <= Len(jobs[i])
    /\ listed' = listed \cup {<<i, child[i].at>>}
    /\ child' = [child EXCEPT ![i].pc = "listed"]
    /\ UNCHANGED <<build, jobs, next, children, shm, lost, printed, reported>>

(* dice.c counts nothing: it prints a grid that is fair for the first place *)
(* at least, and again one that is fair for all.                           *)
PrintPlaces(i) ==
    /\ build.program = "distribute" /\ child[i].pc = "leaf" /\ child[i].at <= Len(jobs[i])
    /\ listed' = listed \cup {<<i, child[i].at>>}
    /\ printed' = IF Score(i) = 0 THEN printed \cup {<<i, child[i].at>>} ELSE printed
    /\ child' = [child EXCEPT ![i].at = @ + 1]
    /\ UNCHANGED <<build, jobs, next, children, shm, lost, reported>>

(* A grid that passed every test: counted, and every SEMSKIP grids the      *)
(* count is added to the shared one.                                       *)
CountLeaf(i) ==
    LET c == child[i]
        count == c.t_count_pl_fair + 1
    IN  /\ build.program # "distribute"
        /\ c.pc = (IF build.program = "weak" THEN "listed" ELSE "leaf") /\ c.at <= Len(jobs[i])
        /\ IF count >= build.SEMSKIP
           THEN /\ shm' = AddCount(count)
                /\ child' = [child EXCEPT ![i] = OnToBest(i,
                       [c EXCEPT !.t_count_pl_fair = 0, !.t_best_pr_score = shm.best_pr_score])]
           ELSE /\ child' = [child EXCEPT ![i] = OnToBest(i, [c EXCEPT !.t_count_pl_fair = count])]
                /\ UNCHANGED shm
        /\ UNCHANGED <<build, jobs, next, children, lost, listed, printed, reported>>

(* A score below t_best_pr_score is compared again, under the semaphore.   *)
BestNow_NotComparedAgain(i) == Score(i)
BestNow(i) == IF Score(i) < shm.best_pr_score THEN Score(i) ELSE shm.best_pr_score
BestScore(i) ==
    /\ child[i].pc = "best"
    /\ shm' = [shm EXCEPT !.best_pr_score = BestNow(i)]
    /\ child' = [child EXCEPT ![i] = OnToFair(i, [@ EXCEPT !.t_best_pr_score = BestNow(i)])]
    /\ UNCHANGED <<build, jobs, next, children, lost, listed, printed, reported>>

PrintFair(i) ==
    /\ child[i].pc = "fair"
    /\ shm' = [shm EXCEPT !.count_pr_fair = @ + 1]
    /\ printed' = printed \cup {<<i, child[i].at>>}
    /\ child' = [child EXCEPT ![i].pc = "leaf", ![i].at = @ + 1]
    /\ UNCHANGED <<build, jobs, next, children, lost, listed, reported>>

(* Back at the fork level the child adds what it has not added yet, but in  *)
(* dicesmarter.c and dicedeep.c; without DOFORK nobody does.               *)
AddsRest == Forking /\ build.program \notin {"smarter", "deep"}
Exit(i) ==
    /\ child[i].pc = "leaf" /\ child[i].at > Len(jobs[i])
    /\ shm' = IF AddsRest THEN AddCount(child[i].t_count_pl_fair) ELSE shm
    /\ child' = [child EXCEPT ![i].pc = "exited"]
    /\ UNCHANGED <<build, jobs, next, children, lost, listed, printed, reported>>

(* The totals are printed: nothing happens any more. *)
Ended == reported /\ UNCHANGED searchVars

SearchNext ==
    \/ Fork \/ ForkFails \/ Wait \/ Report \/ Ended
    \/ \E i \in DOMAIN jobs : Start(i) \/ ListLeaf(i) \/ PrintPlaces(i) \/ CountLeaf(i)
                           \/ BestScore(i) \/ PrintFair(i) \/ Exit(i)

-----------------------------------------------------------------------------
(* What the grids of an enumeration are, said without it: by counting wins. *)

SymmetricGrids(b) ==     \* that have the symmetry of the build and an ordered first column
    LET orders == {q \in [DiceOf(b) -> DiceOf(b)] : \A d, e \in DiceOf(b) : q[d] = q[e] => d = e}
        columns == [{Column(b, i) : i \in 1 .. Steps(b) - 1} -> orders]
        value(cs, d, s) ==
            IF s = 0 THEN d ELSE s * b.dice + cs[s][d]
        complete(cs, d) ==
            [s \in SidesOf(b) |->
                IF s \in DOMAIN cs \cup {0} THEN value(cs, d, s)
                ELSE IF b.pair THEN Partner(b, value(cs, d, s - 1), s - 1)
                ELSE Top(b) - value(cs, d, b.sides - 1 - s)]
    IN  {[d \in DiceOf(b) |-> complete(cs, d)] : cs \in columns}

Even(b, g) == \A d, e \in DiceOf(b) : d < e =>
    2 * Cardinality({roll \in SidesOf(b) \X SidesOf(b) : g[e][roll[2]] < g[d][roll[1]]})
        = b.sides * b.sides

(* In how many rolls the dice show rising values in the order of q. *)
Rising(b, g, q) ==
    LET ways[k \in 1 .. Len(q)] ==
            [s \in SidesOf(b) |->
                IF k = 1 THEN 1
                ELSE MapThenSumSet(LAMBDA x : ways[k - 1][x],
                                   {x \in SidesOf(b) : g[q[k - 1]][x] < g[q[k]][s]})]
    IN  MapThenSumSet(LAMBDA s : ways[Len(q)][s], SidesOf(b))
DiceOrders(n) == {q \in [1 .. n -> 0 .. n - 1] : ToSet(q) = 0 .. n - 1}
PlaceFairAmong(b, g, n) == \A d \in 0 .. n - 1, p \in 1 .. n :
    n * MapThenSumSet(LAMBDA q : Rising(b, g, q), {q \in DiceOrders(n) : q[p] = d})
        = Power(b.sides, n)
FirstPlaceFair(b, g) == \A d \in DiceOf(b) :
    b.dice * MapThenSumSet(LAMBDA q : Rising(b, g, q), {q \in DiceOrders(b.dice) : q[b.dice] = d})
        = Power(b.sides, b.dice)
PlaceFair(b, g) == PlaceFairAmong(b, g, b.dice)
PermFair(b, g) == \A q \in DiceOrders(b.dice) : Factorial(b.dice) * Rising(b, g, q) = Power(b.sides, b.dice)

(* With more than six sides that is too much to count: the rows whose       *)
(* values are in each place equally often, and the grids they make up.      *)
FairRows(b, d) ==
    LET values(r) == [s \in SidesOf(b) |->
            IF s < b.sides - b.mirror THEN s * b.dice + r[s]
            ELSE Top(b) - ((b.sides - 1 - s) * b.dice + r[b.sides - 1 - s])]
        choices == {r \in [0 .. b.sides - b.mirror - 1 -> DiceOf(b)] : r[0] = d}
    IN  {row \in {values(r) : r \in choices} : \A p \in DiceOf(b) :
            MapThenSumSet(LAMBDA s : tallie_cache[b][row[s]][p], SidesOf(b)) = GOALTALLY(b)}
FairGridsOfRows(b) ==
    FoldLeft(LAMBDA grids, d :
                 {Append(x[1], x[2]) : x \in {y \in grids \X FairRows(b, d - 1) :
                     \A i \in DOMAIN y[1] : \A s \in SidesOf(b) : y[1][i][s] # y[2][s]}},
             {<<>>}, [d \in 1 .. b.dice |-> d])
FairGrids(b) ==
    IF b.sides <= 6 THEN {g \in SymmetricGrids(b) : Even(b, g) /\ PlaceFair(b, g)}
    ELSE {g \in {[d \in DiceOf(b) |-> rows[d + 1]] : rows \in FairGridsOfRows(b)} : Even(b, g)}

(* What dicendeep.c asks more, and how far rows may be off in dice.c.      *)
Wanted(b, g) ==
    /\ b.program = "weak" => \A n \in 3 .. b.dice - 1 : PlaceFairAmong(b, g, n)
    /\ b.program = "distribute" =>
           \A half \in 0 .. b.sides \div 4, d \in DiceOf(b) :
               MapThenSumSet(LAMBDA s : 2 * g[d][s] - (2 * half * b.dice - 1), 0 .. 2 * half - 1)
                   \in -4 .. 4

(* dicepldeep.c may lose fair grids.  Its bounds on the first few dice are *)
(* only right in builds with pairs of columns, and there only when what a   *)
(* call finds on its stack (min[rows], max[rows]) is neither a negative     *)
(* minimum nor a maximum whose sums over the columns wrap.                 *)
KeepsFairGrids(b) ==
    b.program = "subsets" =>
        b.pair /\ \A found \in ToSet(b.stack) : found.min >= 0 /\ 2 * Steps(b) * found.max < Word

(* The program being at its start, the jobs hold every grid that has the   *)
(* symmetry of the build and is even and place-fair, once; those the score *)
(* makes fair are fair.  So neither the bounds nor the swaps of the rows   *)
(* cut off or repeat anything.  Of dicepldeep.c that is only said where    *)
(* KeepsFairGrids; elsewhere, whatever it finds on its stack, only that    *)
(* what it holds is even and place-fair and comes once.  sum_find has no    *)
(* test after its last bound: of what it holds, only the fair grids are     *)
(* known; sum_find_perm holds nothing but these.  Columns that are left     *)
(* unmirrored only add to what is found; what dice.c holds is fair for the *)
(* first place at least, and what is fair for all is among it.             *)
EnumerationIsExact ==
    next = 1 /\ children = 0 =>
        LET all == UNION {{<<i, j>> : j \in DOMAIN jobs[i]} : i \in DOMAIN jobs}
            grids == {jobs[x[1]][x[2]].grid : x \in all}
            zero == {jobs[x[1]][x[2]].grid : x \in {y \in all : jobs[y[1]][y[2]].score = 0}}
            wanted == {g \in FairGrids(build) : Wanted(build, g)}
            program == build.program
            judged == CASE program = "unmirror" -> wanted \cup grids
                        [] program = "subsets"  -> grids
                        [] OTHER                -> wanted
        IN  /\ Cardinality(all) = Cardinality(grids)
            /\ zero = IF program = "distribute" THEN wanted
                      ELSE {g \in judged : PermFair(build, g)}
            /\ program \notin {"sum_find", "perm", "unmirror", "distribute"} =>
                   /\ grids \subseteq wanted
                   /\ KeepsFairGrids(build) => wanted \subseteq grids
            /\ program = "perm" => grids = zero
            /\ program = "distribute" => \A g \in grids : FirstPlaceFair(build, g)
            /\ program = "unmirror" =>
                   /\ wanted \subseteq grids
                   /\ \A g \in grids : Even(build, g) /\ PlaceFair(build, g)

(* When main prints the totals every child is gone, and they count each    *)
(* grid below the nodes that were forked for, and each fair one, which was *)
(* printed, exactly once: no count of a child is lost or added twice,      *)
(* however children and main interleave and whichever fork() fails.        *)
(* Where a child does not add its rest, as without DOFORK, its last grids,  *)
(* fewer than SEMSKIP, are not in the total; dice.c has none.  dicendeep.c  *)
(* and dice.c list every grid, the others none.                            *)
TotalsAreExact ==
    reported =>
        LET searched == DOMAIN jobs \ lost
            grids == UNION {{<<i, j>> : j \in DOMAIN jobs[i]} : i \in searched}
            scored(scores) == {x \in grids : jobs[x[1]][x[2]].score \in scores}
            share == [i \in searched |->
                IF AddsRest THEN Len(jobs[i]) ELSE Len(jobs[i]) - (Len(jobs[i]) % build.SEMSKIP)]
        IN  /\ Unreaped = {} \/ ~Forking
            /\ printed = scored({0})
            /\ listed = IF build.program \in {"weak", "distribute"} THEN grids ELSE {}
            /\ build.program # "distribute" =>
                   /\ shm.count_pr_fair = Cardinality(printed)
                   /\ shm.count_pl_fair = MapThenSumSet(LAMBDA i : share[i], searched)

(* No child ever replaces the best score by a worse one, though it decides *)
(* by a copy of its own that may be older than what others have found.     *)
BestOnlyImproves == [][shm'.best_pr_score <= shm.best_pr_score]_searchVars
=============================================================================
