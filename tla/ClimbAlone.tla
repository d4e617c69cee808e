----------------------------- MODULE ClimbAlone -----------------------------
(***************************************************************************)
(* diceclimber.c: the hill climber as one process, which knows the grids it *)
(* has added by a search tree.  A grid is what is known of it: its score,  *)
(* whether its rows are balanced, and whether its pairs are even.          *)
(***************************************************************************)
EXTENDS Integers, FiniteSets

CONSTANTS
    OwnGrids, OwnScoreOf,
    Unbalanced,     \* grids that check_rows refuses
    Uneven,         \* grids with a pair that check_pair_fair refuses
    OwnStart,       \* the grid main starts from
    OWN_POP_SIZE, CLOSESCORE

ASSUME ClimbAloneAssumption ==
    /\ OwnScoreOf \in [OwnGrids -> Nat] /\ OwnStart \in OwnGrids /\ OwnScoreOf[OwnStart] > 0
    /\ OWN_POP_SIZE \in Nat \ {0} /\ CLOSESCORE \in Nat

VARIABLE own    \* its globals, and (history) what it replaced and printed

OwnEntries == 0 .. OWN_POP_SIZE - 1

OwnInit ==
    own = [population |-> [i \in OwnEntries |-> OwnStart], score |-> [i \in OwnEntries |-> OwnScoreOf[OwnStart]],
           worst_idx |-> 0, worst_score |-> OwnScoreOf[OwnStart], best_score |-> OwnScoreOf[OwnStart],
           pop_tree |-> {OwnStart}, am_close |-> FALSE, replaced |-> {}, found |-> {}]

(* The first entry with the largest score that is not 0; if there is none, *)
(* the index stays.                                                        *)
worst_pop_score(state) ==
    LET worst == CHOOSE s \in {state.score[i] : i \in OwnEntries} :
                     \A i \in OwnEntries : state.score[i] <= s
        first == CHOOSE i \in OwnEntries :
                     state.score[i] = worst /\ \A j \in 0 .. i - 1 : state.score[j] < worst
    IN  [state EXCEPT !.worst_idx = IF worst > 0 THEN first ELSE @,
                      !.worst_score = IF worst < @ THEN worst ELSE @]

(* The grid of the replaced entry leaves the tree, if it is in. *)
add_pop(g, state) ==
    LET i == state.worst_idx IN
    [state EXCEPT !.pop_tree = (@ \cup {g}) \ {state.population[i]},
                  !.population[i] = g, !.score[i] = OwnScoreOf[g],
                  !.replaced = @ \cup {i}]

Close(state) == state.am_close \/ state.worst_score < CLOSESCORE

(* A mutation made grid g of what was copied or mutated before.            *)
Mutate(g) ==
    LET score == OwnScoreOf[g]
        printed == [own EXCEPT !.found = IF score = 0 THEN @ \cup {g} ELSE @]
    IN  /\ g \notin Unbalanced /\ ~(own.am_close /\ g \in Uneven)
        /\ own' = IF score >= own.worst_score \/ g \in own.pop_tree THEN printed
                  ELSE [worst_pop_score(add_pop(g, printed)) EXCEPT
                           !.am_close = Close(own),
                           !.best_score = IF score < @ THEN score ELSE @]

OwnNext == \E g \in OwnGrids : Mutate(g)

(* Nothing is better than the best and worse than the worst score, which   *)
(* is that of the entry to be replaced next.  From the first replacement on *)
(* the tree holds the grids of the replaced entries, which all differ,     *)
(* though it never held the copies main filled the population with; uneven *)
(* grids are refused only when all entries are close.  A fair grid that was *)
(* printed stays in the population.                                        *)
OwnPopulationIsSound ==
    LET grids == {own.population[i] : i \in own.replaced} IN
    /\ own.score[own.worst_idx] = own.worst_score
    /\ \A i \in OwnEntries : /\ own.score[i] = OwnScoreOf[own.population[i]]
                             /\ own.score[i] \in own.best_score .. own.worst_score
    /\ own.replaced # {} => own.pop_tree = grids
    /\ Cardinality(grids) = Cardinality(own.replaced)
    /\ own.am_close => own.worst_score < CLOSESCORE
    /\ own.worst_score > 0 => own.found \subseteq grids
=============================================================================
