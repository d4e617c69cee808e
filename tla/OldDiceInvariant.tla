------------------------- MODULE OldDiceInvariant --------------------------
(***************************************************************************)
(* The inductive invariants of the programs of old_dice, in named parts:   *)
(* of the populations of the hill climbers (of the shared one and its      *)
(* lock, and of the one that a single process has for itself), and of the  *)
(* forked enumerations (how far each child is with its grids, and what of  *)
(* them is in the shared totals, on the list and in print).                *)
(***************************************************************************)
EXTENDS OldDice

ClimberSteps == {"none", "choose", "read", "copied", "offer", "release"} \cup Writing

Climber == [pc : ClimberSteps, then : ClimberSteps, phase : {"random", "brute"},
            rp : -1 .. POP_SIZE - 1, cand : Grids,
            d : [grid : Grids, score : Nat, brute : {0, 1}], local_worst : Nat,
            k : Nat \ {0}, held : -1 .. MAXTHREADS]
Population == [population : [Entries -> [grid : Grids, score : Nat, brute : {0, 1}]],
               worst_idx : Entries, worst_score : Nat, best_score : Nat]

ClimbTypeOK ==
    /\ pool \in Population
    /\ sem \in [1 .. 2 -> Nat]
    /\ threadid \in 0 .. MaxThreadid + 1
    /\ climber \in [Climbers -> Climber]
    /\ added \subseteq Entries

(* Semaphore 0 is with one writer, or free; of the places of semaphore 1   *)
(* some are free, one is with each reader, and the others with the writer. *)
Holders == {c \in Climbers : climber[c].held >= 0}
Reading == {c \in Climbers : Readers(c)}
PlacesOf(c) == sem[2] + Cardinality(Reading) + climber[c].held = MAXTHREADS
LockInv ==
    /\ \A c, e \in Holders : c = e
    /\ sem[1] = IF Holders = {} THEN 1 ELSE 0
    /\ Holders = {} => sem[2] + Cardinality(Reading) = MAXTHREADS
    /\ \A c \in Holders : PlacesOf(c)

(* Where a child is between two accesses.                                  *)
Position(c) ==
    /\ climber[c].held >= 0 => climber[c].pc \in Writing \cup {"release"}
    /\ climber[c].pc = "release" => climber[c].held >= 0
    /\ climber[c].pc = "release" => climber[c].then \in {"add", "offer"}
    /\ climber[c].pc = "rank" => climber[c].held = MAXTHREADS
    /\ climber[c].pc \notin {"none", "choose"} => climber[c].rp \in Entries
    /\ climber[c].pc = "mark" => climber[c].d.grid \in bruted
    /\ c >= threadid => climber[c] = Fresh
StepInv == \A c \in Climbers : Position(c)

Ranking == {c \in Climbers : climber[c].pc = "rank"}
(* While a writer has replaced the worst entry and not yet looked for the  *)
(* next, that entry may be better than the best and is not the worst.      *)
PoolInv ==
    LET entry == pool.population IN
    /\ Ranking = {} => entry[pool.worst_idx].score = pool.worst_score
    /\ \A i \in Entries : entry[i].score <= pool.worst_score
    /\ \A i \in Entries :
           entry[i].score >= pool.best_score \/ (Ranking # {} /\ i = pool.worst_idx)
    /\ \A c \in Ranking : entry[pool.worst_idx].score = ScoreOf[climber[c].cand]
    /\ \A i \in added : /\ entry[i].score = ScoreOf[entry[i].grid]
                        /\ \A j \in Entries \ {i} : entry[j].grid # entry[i].grid
    /\ \A i \in Entries : entry[i].brute = 1 => entry[i].grid \in bruted

SharedInv == ClimbTypeOK /\ LockInv /\ StepInv /\ PoolInv

-----------------------------------------------------------------------------
(* The process that climbs alone. *)

OwnPopulation ==
    [population : [OwnEntries -> OwnGrids], score : [OwnEntries -> Nat], worst_idx : OwnEntries,
     worst_score : Nat, best_score : Nat, pop_tree : SUBSET OwnGrids, am_close : BOOLEAN,
     replaced : SUBSET OwnEntries, found : SUBSET OwnGrids]

(* What is not replaced yet is the start, which is worse than all that has *)
(* replaced it, so that no grid of the population comes again.             *)
OwnInv ==
    LET grids == {own.population[i] : i \in own.replaced} IN
    /\ own \in OwnPopulation
    /\ \A i \in OwnEntries : /\ own.score[i] = OwnScoreOf[own.population[i]]
                             /\ own.best_score <= own.score[i] /\ own.score[i] <= own.worst_score
    /\ own.score[own.worst_idx] = own.worst_score
    /\ own.worst_score <= OwnScoreOf[OwnStart]
    /\ \A i \in OwnEntries \ own.replaced : own.population[i] = OwnStart
    /\ \A i \in own.replaced : OwnScoreOf[own.population[i]] < OwnScoreOf[OwnStart]
    /\ \A i, j \in own.replaced : own.population[i] = own.population[j] => i = j
    /\ own.pop_tree = IF own.replaced = {} THEN {OwnStart} ELSE grids
    /\ own.am_close => own.worst_score < CLOSESCORE
    /\ \A g \in own.found : OwnScoreOf[g] = 0
    /\ own.worst_score > 0 => own.found \subseteq grids

IInv == SharedInv /\ (own # <<>> => OwnInv)

-----------------------------------------------------------------------------

Finished == {"exited", "reaped"}
AtGrid   == {"listed", "best", "fair"}      \* at work on a grid
Child == [pc : {"none", "start", "leaf"} \cup AtGrid \cup Finished,
          at : Nat \ {0}, t_count_pl_fair : Nat, t_best_pr_score : Nat]
Shared == [count_pl_fair : Nat, count_pr_fair : Nat, goal_count : Nat, best_pr_score : Nat]

ForkTypeOK ==
    /\ build \in Builds /\ AreJobs(jobs)
    /\ next \in 1 .. Len(jobs) + 1 /\ children \in Nat /\ lost \subseteq DOMAIN jobs
    /\ child \in [DOMAIN jobs -> Child] /\ shm \in Shared

(* Who was forked; main does not count fewer children than there are.      *)
Forked(i) ==
    /\ child[i].pc = "none" <=> i >= next \/ i \in lost
    /\ i \in lost => i < next
    /\ child[i].pc \in {"start", "reaped"} => Forking
ForkedInv ==
    /\ \A i \in DOMAIN jobs : Forked(i)
    /\ IF Forking THEN Cardinality(Unreaped) <= children ELSE children = 0

(* How many of its grids a child has counted, listed and done with.        *)
Counted(c) == IF c.pc \in {"best", "fair"} THEN c.at ELSE c.at - 1
Listed(c)  == IF c.pc \in AtGrid THEN c.at ELSE c.at - 1
Through(c) == c.at - 1

Progress(c, job) ==
    /\ c.at <= Len(job) + 1
    /\ c.pc \in {"none", "start"} => c.at = 1
    /\ c.pc \in AtGrid => c.at <= Len(job)
    /\ c.pc \in Finished => c.at = Len(job) + 1
    /\ c.pc = "fair" => job[c.at].score = 0
    /\ c.pc = "listed" => build.program = "weak"
    /\ build.program = "distribute" => c.pc \notin AtGrid
    /\ build.program # "distribute" => c.t_count_pl_fair = Counted(c) % build.SEMSKIP
ProgressInv == \A i \in DOMAIN jobs : Progress(child[i], jobs[i])

(* What a child has added to the total: at its end the rest, too.          *)
AddedBy(c) ==
    IF c.pc \in Finished /\ AddsRest THEN Counted(c) ELSE Counted(c) - c.t_count_pl_fair

Sites == UNION {{i} \X DOMAIN jobs[i] : i \in DOMAIN jobs}
PrintedInv ==
    printed = {x \in Sites : x[2] <= Through(child[x[1]]) /\ jobs[x[1]][x[2]].score = 0}
ListedInv ==
    listed = {x \in Sites : build.program \in {"weak", "distribute"}
                            /\ x[2] <= Listed(child[x[1]])}
CountsInv == build.program # "distribute" =>
    LET share == [i \in DOMAIN jobs |-> AddedBy(child[i])] IN
    /\ IsFiniteSet(printed) /\ shm.count_pr_fair = Cardinality(printed)
    /\ shm.count_pl_fair = MapThenSumSet(LAMBDA i : share[i], DOMAIN jobs \ lost)

ReportedInv ==
    /\ reported \in BOOLEAN
    /\ reported => /\ next = Len(jobs) + 1 /\ children = 0
                   /\ \A i \in DOMAIN jobs \ lost :
                          child[i].pc = IF Forking THEN "reaped" ELSE "exited"

EnumerationInv == ForkTypeOK /\ ForkedInv /\ ProgressInv /\ PrintedInv /\ ListedInv /\ CountsInv
                  /\ ReportedInv
(* A hill climber has no enumeration.                                      *)
ForkInv == (build = <<>> /\ ~ reported) \/ EnumerationInv
=============================================================================
