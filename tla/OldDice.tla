------------------------------ MODULE OldDice -------------------------------
(***************************************************************************)
(* A program of old_dice: main prepares the grid, the tables, the shared    *)
(* memory and its population, and calls an enumeration or the hill climber, *)
(* which in diceclimber.c runs alone; the calls it does not make are        *)
(* commented out.                                                          *)
(***************************************************************************)
EXTENDS ForkSearch, ClimbPool, ClimbAlone

vars == <<searchVars, climbVars, own>>

Climbs ==       \* no enumeration: its variables do not matter
    /\ build = <<>> /\ jobs = <<>> /\ next = 0 /\ children = 0 /\ child = <<>>
    /\ shm = [count_pl_fair |-> 0, count_pr_fair |-> 0, goal_count |-> 0, best_pr_score |-> 0]
    /\ lost = {} /\ listed = {} /\ printed = {} /\ reported = FALSE

Init ==
    /\ ClimbInit
    /\ \/ SearchInit /\ own = <<>>
       \/ Climbs /\ own = <<>>
       \/ Climbs /\ OwnInit
Next ==
    \/ build # <<>> /\ SearchNext /\ UNCHANGED <<climbVars, own>>
    \/ build = <<>> /\ own = <<>> /\ ClimbNext /\ UNCHANGED <<searchVars, own>>
    \/ own # <<>> /\ OwnNext /\ UNCHANGED <<searchVars, climbVars>>
Spec == Init /\ [][Next]_vars

(* Every entry of the population is what is said of it, whether children    *)
(* share the population under the lock of two semaphores or one process has *)
(* it for itself.                                                          *)
PopulationIsSound == SharedPopulationIsSound /\ (own # <<>> => OwnPopulationIsSound)
=============================================================================
