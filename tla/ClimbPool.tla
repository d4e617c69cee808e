------------------------------ MODULE ClimbPool ------------------------------
(***************************************************************************)
(* The hill climber of old_dice (climb of dicemdeep.c): children improve a *)
(* population in shared memory.  Semaphore 1 has MAXTHREADS places, one    *)
(* for each reader; a writer takes semaphore 0 and then these places one   *)
(* by one.                                                                 *)
(*                                                                         *)
(* A grid is a model value with its score; a mutation may produce any.     *)
(***************************************************************************)
EXTENDS Integers, Sequences, FiniteSets

CONSTANTS
    Grids,          \* the grids that mutations reach
    ScoreOf,        \* their scores
    StartGrids,     \* what main's mutations make of the entries
    StartScore,     \* score_tallies of the grid main starts from
    Swaps,          \* by grid, those of the systematic mutations in order
    POP_SIZE, MAXTHREADS,
    MaxThreadid     \* how far failing calls of fork() use up thread ids

ASSUME ClimbPoolAssumption ==
    /\ ScoreOf \in [Grids -> Nat] /\ Swaps \in [Grids -> Seq(Grids)]
    /\ StartGrids \in [0 .. POP_SIZE - 1 -> Grids] /\ StartScore \in Nat
    /\ POP_SIZE \in Nat \ {0} /\ MAXTHREADS \in Nat \ {0}
    /\ MaxThreadid \in Nat /\ MAXTHREADS <= MaxThreadid + 1

VARIABLES
    pool,       \* population, worst_idx, worst_score, best_score of *shmdata
    sem,        \* the values of the two semaphores
    threadid,   \* how often main has forked: the id of the next child
    climber,    \* by threadid, the state of a child
    bruted,     \* (history) grids whose systematic mutations have been tried
    added       \* (history) the entries that have been replaced

climbVars == <<pool, sem, threadid, climber, bruted, added>>

Entries  == 0 .. POP_SIZE - 1
Climbers == 0 .. MaxThreadid

Fresh ==
    LET none == CHOOSE g \in Grids : TRUE IN
    [pc |-> "none", then |-> "none", phase |-> "random", rp |-> -1, cand |-> none,
     d |-> [grid |-> none, score |-> 0, brute |-> 0], local_worst |-> 0, k |-> 1, held |-> -1]

(* Whatever it was mutated to, an entry starts with the score of the grid   *)
(* main has, by score_tallies, which is not the score that climb compares. *)
ClimbInit ==
    /\ pool = [population |-> [i \in Entries |->
                   [grid |-> StartGrids[i], score |-> StartScore, brute |-> 0]],
               worst_idx |-> 0, worst_score |-> StartScore, best_score |-> StartScore]
    /\ sem = <<1, MAXTHREADS>>
    /\ threadid = 0
    /\ climber = [c \in Climbers |-> Fresh]
    /\ bruted = {} /\ added = {}

(* main forks until it has counted MAXTHREADS children, and waits.  They   *)
(* never end: it goes on only if none is there, when wait() fails at once.  *)
Alive == {c \in Climbers : climber[c].pc # "none"}
MayFork == threadid \in Climbers /\ (threadid < MAXTHREADS \/ Alive = {})
Spawn ==
    /\ MayFork
    /\ climber' = [climber EXCEPT ![threadid].pc = "choose"]
    /\ threadid' = threadid + 1
    /\ UNCHANGED <<pool, sem, bruted, added>>

(* -1 is not 0: taken for the parent's return, with the child counted.     *)
SpawnFails ==
    /\ MayFork /\ threadid < MaxThreadid
    /\ threadid' = threadid + 1
    /\ UNCHANGED <<pool, sem, climber, bruted, added>>

-----------------------------------------------------------------------------
(* Reading an entry: the first child takes them in turn. *)

ChooseEntry(c) ==
    /\ climber[c].pc = "choose" /\ sem[2] > 0
    /\ sem' = [sem EXCEPT ![2] = @ - 1]
    /\ \E rp \in Entries :
           /\ c = 0 => rp = (climber[c].rp + 1) % POP_SIZE
           /\ climber' = [climber EXCEPT ![c].pc = "read", ![c].rp = rp]
    /\ UNCHANGED <<pool, threadid, bruted, added>>

CopyEntry(c) ==
    /\ climber[c].pc = "read"
    /\ climber' = [climber EXCEPT ![c].pc = "copied",
                                  ![c].d = pool.population[climber[c].rp]]
    /\ UNCHANGED <<pool, sem, threadid, bruted, added>>

CopyWorst(c) ==
    /\ climber[c].pc = "copied"
    /\ climber' = [climber EXCEPT
           ![c].pc = "offer", ![c].local_worst = pool.worst_score, ![c].k = 1,
           ![c].phase = IF climber[c].d.brute = 0 THEN "brute" ELSE "random"]
    /\ sem' = [sem EXCEPT ![2] = @ + 1]
    /\ UNCHANGED <<pool, threadid, bruted, added>>

-----------------------------------------------------------------------------
(* Trying grids. *)

AfterPrint(state) ==
    IF ScoreOf[state.cand] < state.local_worst THEN [state EXCEPT !.pc = "add"]
                                               ELSE [state EXCEPT !.pc = "offer"]
Offer(g, state) ==
    IF ScoreOf[g] = 0 THEN [state EXCEPT !.cand = g, !.pc = "print"]
    ELSE AfterPrint([state EXCEPT !.cand = g])

(* The systematic mutations first, if the entry was copied unmarked.       *)
TryBrute(c) ==
    LET state == climber[c] IN
    /\ state.pc = "offer" /\ state.phase = "brute"
    /\ IF state.k <= Len(Swaps[state.d.grid])
       THEN /\ climber' = [climber EXCEPT
                   ![c] = Offer(Swaps[state.d.grid][state.k], [state EXCEPT !.k = @ + 1])]
            /\ UNCHANGED bruted
       ELSE /\ climber' = [climber EXCEPT ![c].pc = "mark"]
            /\ bruted' = bruted \cup {state.d.grid}
    /\ UNCHANGED <<pool, sem, threadid, added>>

(* Then random ones, some number of them.                                  *)
TryRandom(c) ==
    LET state == climber[c] IN
    /\ state.pc = "offer" /\ state.phase = "random"
    /\ \/ \E g \in Grids : climber' = [climber EXCEPT ![c] = Offer(g, state)]
       \/ climber' = [climber EXCEPT ![c] = [Fresh EXCEPT !.pc = "choose", !.rp = state.rp]]
    /\ UNCHANGED <<pool, sem, threadid, bruted, added>>

-----------------------------------------------------------------------------
(* Writing. *)

Writing == {"print", "add", "rank", "mark"}
Readers(c) == climber[c].pc \in {"read", "copied"}

(* acquire_write_lock: semaphore 0, then every place of semaphore 1.       *)
Claim(c) ==
    LET n == IF climber[c].held = -1 THEN 1 ELSE 2 IN
    /\ climber[c].pc \in Writing /\ climber[c].held < MAXTHREADS
    /\ sem[n] > 0
    /\ sem' = [sem EXCEPT ![n] = @ - 1]
    /\ climber' = [climber EXCEPT ![c].held = @ + 1]
    /\ UNCHANGED <<pool, threadid, bruted, added>>

At(c, pc) == climber[c].pc = pc /\ climber[c].held = MAXTHREADS

(* release_write_lock. *)
Release(c) ==
    LET last == climber[c].held = 0 IN
    /\ climber[c].pc = "release"
    /\ sem' = [sem EXCEPT ![IF last THEN 1 ELSE 2] = @ + 1]
    /\ climber' = [climber EXCEPT ![c].held = @ - 1, ![c].pc = IF last THEN climber[c].then ELSE @]
    /\ UNCHANGED <<pool, threadid, bruted, added>>

PrintGrid(c) ==
    /\ At(c, "print")
    /\ climber' = [climber EXCEPT ![c].pc = "release", ![c].then = AfterPrint(climber[c]).pc]
    /\ UNCHANGED <<pool, sem, threadid, bruted, added>>

(* climb_try_add compares again, and add_pop with every entry: the worst   *)
(* one is replaced by a grid that is better and not there.                 *)
NotBetter_Untested(g) == FALSE
NotBetter(g) == ScoreOf[g] >= pool.worst_score
Known(g) == \E i \in Entries : pool.population[i].grid = g
TryAdd(c) ==
    LET g == climber[c].cand IN
    /\ At(c, "add")
    /\ IF NotBetter(g) \/ Known(g)
       THEN /\ climber' = [climber EXCEPT ![c].pc = "release", ![c].then = "offer",
                                          ![c].local_worst = pool.worst_score]
            /\ UNCHANGED <<pool, added>>
       ELSE /\ pool' = [pool EXCEPT !.population[pool.worst_idx] =
                            [grid |-> g, score |-> ScoreOf[g], brute |-> 0]]
            /\ added' = added \cup {pool.worst_idx}
            /\ climber' = [climber EXCEPT ![c].pc = "rank"]
    /\ UNCHANGED <<sem, threadid, bruted>>

(* worst_pop_score: the first entry with the largest score, if that is not *)
(* 0; the worst score is lowered only.                                     *)
Rank(c) ==
    LET scores == {pool.population[i].score : i \in Entries}
        worst == CHOOSE s \in scores : \A t \in scores : t <= s
        idx == CHOOSE i \in Entries :
                   /\ pool.population[i].score = worst
                   /\ \A j \in Entries : pool.population[j].score = worst => i <= j
        score == ScoreOf[climber[c].cand]
        lowered == IF worst < pool.worst_score THEN worst ELSE pool.worst_score
    IN  /\ At(c, "rank")
        /\ pool' = [pool EXCEPT !.worst_idx = IF worst > 0 THEN idx ELSE @,
                                !.worst_score = lowered,
                                !.best_score = IF score < @ THEN score ELSE @]
        /\ climber' = [climber EXCEPT ![c].pc = "release", ![c].then = "offer",
                                      ![c].local_worst = lowered]
        /\ UNCHANGED <<sem, threadid, bruted, added>>

(* The entry is marked if it still is the grid that was copied. *)
Mark(c) ==
    LET rp == climber[c].rp IN
    /\ At(c, "mark")
    /\ pool' = IF pool.population[rp].grid = climber[c].d.grid
               THEN [pool EXCEPT !.population[rp].brute = 1] ELSE pool
    /\ climber' = [climber EXCEPT ![c].pc = "release", ![c].then = "offer", ![c].phase = "random"]
    /\ UNCHANGED <<sem, threadid, bruted, added>>

ClimbNext ==
    \/ Spawn \/ SpawnFails
    \/ \E c \in Climbers :
           \/ ChooseEntry(c) \/ CopyEntry(c) \/ CopyWorst(c) \/ TryBrute(c) \/ TryRandom(c)
           \/ Claim(c) \/ PrintGrid(c) \/ TryAdd(c) \/ Rank(c) \/ Mark(c) \/ Release(c)

-----------------------------------------------------------------------------
(* A writer in its section is alone: no other is in one, nobody reads, and *)
(* outside of every section the population agrees with what is said of it: *)
(* the worst index has the worst score and nothing is better than the best. *)
(* An entry that was replaced has the score of its grid and a grid no other *)
(* entry has; a marked one has really been through its systematic          *)
(* mutations.                                                              *)
InSection(c) == climber[c].pc \in Writing \cup {"release"} /\ climber[c].held = MAXTHREADS
SharedPopulationIsSound ==
    LET entry == pool.population IN
    /\ \A c, e \in Climbers : InSection(c) /\ e # c => ~InSection(e) /\ ~Readers(e)
    /\ (\A c \in Climbers : climber[c].pc # "rank") =>
           /\ entry[pool.worst_idx].score = pool.worst_score
           /\ \A i \in Entries : entry[i].score \in pool.best_score .. pool.worst_score
    /\ \A i \in added : /\ entry[i].score = ScoreOf[entry[i].grid]
                        /\ \A j \in Entries \ {i} : entry[j].grid # entry[i].grid
    /\ \A i \in Entries : entry[i].brute = 1 => entry[i].grid \in bruted
=============================================================================
