---------------------------- MODULE OldDiceProofs ----------------------------
(***************************************************************************)
(* The programs of old_dice.  The populations of the hill climbers are     *)
(* sound: the lock of two semaphores, the shared population, and the one   *)
(* of a single process.  The totals of the forked enumerations are exact.  *)
(***************************************************************************)
EXTENDS OldDiceInvariant, FiniteSetTheorems, WellFoundedInduction, TLAPS

-----------------------------------------------------------------------------
(* Choices among numbers. *)

LEMMA LessWellFounded == IsWellFoundedOn({ss \in Nat \X Nat : ss[1] < ss[2]}, Nat)
  BY NatLessThanWellFounded, Zenon DEF OpToRel

LEMMA LeastNatural ==
    ASSUME NEW T \in SUBSET Nat, T # {}
    PROVE  \E x \in T : \A y \in T : x <= y
<1> DEFINE R == {ss \in Nat \X Nat : ss[1] < ss[2]}
<1>1. IsWellFoundedOn(R, Nat)
  BY LessWellFounded
<1> HIDE DEF R
<1>2. PICK x \in T : \A y \in T : ~ (<<y, x>> \in R)
  BY <1>1, WFMin
<1>3. x \in Nat /\ \A y \in T : y \in Nat
  OBVIOUS
<1>4. \A y \in T : y < x => <<y, x>> \in R
  BY <1>3 DEF R
<1>5. \A y \in T : ~ (y < x)
  BY <1>2, <1>4
<1>6. \A y \in T : x <= y
  BY <1>3, <1>5
<1> QED BY <1>6

LEMMA GreatestUpTo ==
    ASSUME NEW T \in SUBSET Nat, T # {}, NEW n \in Nat, \A y \in T : y <= n
    PROVE  \E x \in T : \A y \in T : y <= x
<1> DEFINE U == {n - y : y \in T}
<1>0. \A y \in T : n - y \in Nat
  <2>1. \A y \in T : y \in Nat /\ y <= n
    OBVIOUS
  <2> QED BY <2>1
<1>1. U \in SUBSET Nat /\ U # {}
  <2>1. U # {}
    OBVIOUS
  <2>2. \A v \in U : v \in Nat
    BY <1>0
  <2> QED BY <2>1, <2>2
<1>2. PICK u \in U : \A v \in U : u <= v
  BY <1>1, LeastNatural
<1>3. PICK x \in T : u = n - x
  BY <1>2
<1>4. \A y \in T : n - x <= n - y
  BY <1>2, <1>3
<1>5. \A y \in T : x \in Nat /\ y \in Nat
  OBVIOUS
<1>6. \A y \in T : y <= x
  BY <1>4, <1>5
<1> QED BY <1>6

-----------------------------------------------------------------------------
(* The shared population: what an action leaves alone. *)

LEMMA Sizes == /\ POP_SIZE \in Nat /\ POP_SIZE > 0 /\ MAXTHREADS \in Nat /\ MAXTHREADS > 0
               /\ StartScore \in Nat /\ MaxThreadid \in Nat
  BY ClimbPoolAssumption

LEMMA ScoreTyped == ASSUME NEW g \in Grids PROVE ScoreOf[g] \in Nat
  BY ClimbPoolAssumption

LEMMA GridExists == (CHOOSE g \in Grids : TRUE) \in Grids
<1>1. StartGrids[0] \in Grids
  BY ClimbPoolAssumption
<1> QED BY <1>1

LEMMA FreshTyped == Fresh \in Climber
  BY GridExists, Sizes DEF Fresh, Climber, ClimberSteps

LEMMA ReadersFinite == IsFiniteSet(Reading) /\ Cardinality(Reading) \in Nat
<1>1. IsFiniteSet(Climbers)
  BY FS_Interval, Sizes DEF Climbers
<1>2. Reading \subseteq Climbers
  BY DEF Reading
<1> QED BY <1>1, <1>2, FS_Subset, FS_CardinalityType

(* Only climber c moves.                                                   *)
Only(c) == \A e \in Climbers \ {c} : climber'[e] = climber[e]

(* The lock is as it was when no climber begins or ends to read or write.  *)
LEMMA LockFrame ==
    ASSUME LockInv, sem' = sem,
           \A c \in Climbers : Readers(c)' <=> Readers(c),
           \A c \in Climbers : climber'[c].held = climber[c].held
    PROVE  LockInv'
<1>1. Reading' = Reading
  BY DEF Reading
<1>2. Holders' = Holders
  BY DEF Holders
<1> QED BY <1>1, <1>2 DEF LockInv, PlacesOf, Holders

-----------------------------------------------------------------------------
(* Types. *)

LEMMA OfferMoves ==
    ASSUME NEW g \in Grids, NEW state \in Climber
    PROVE  \E p \in {"print", "add", "offer"} :
              Offer(g, state) = [state EXCEPT !.cand = g, !.pc = p]
  BY DEF Offer, AfterPrint, Climber

(* The next systematic mutation of a child is a grid.                      *)
LEMMA NextSwap ==
    ASSUME NEW state \in Climber, state.k <= Len(Swaps[state.d.grid])
    PROVE  Swaps[state.d.grid][state.k] \in Grids /\ [state EXCEPT !.k = @ + 1] \in Climber
<1>1. state.d.grid \in Grids /\ state.k \in Nat \ {0}
  BY DEF Climber
<1>2. Swaps[state.d.grid] \in Seq(Grids)
  BY <1>1, ClimbPoolAssumption
<1>3. state.k \in 1 .. Len(Swaps[state.d.grid])
  BY <1>1, <1>2
<1>4. [state EXCEPT !.k = @ + 1] \in Climber
  BY DEF Climber
<1> QED BY <1>2, <1>3, <1>4

LEMMA AfterPrintPc ==
    ASSUME NEW state \in Climber
    PROVE  AfterPrint(state).pc \in {"add", "offer"}
  BY DEF AfterPrint, Climber

(* There is a largest score and a first entry that has it.                 *)
LEMMA WorstExists ==
    ASSUME NEW E \in SUBSET Nat, E # {}, NEW score \in [E -> Nat], NEW n \in Nat,
           \A i \in E : score[i] <= n
    PROVE  \E i \in E : /\ score[i] <= n
                        /\ \A j \in E : /\ score[j] <= score[i]
                                        /\ score[j] = score[i] => i <= j
<1> DEFINE T == {score[i] : i \in E}
<1>2. T \in SUBSET Nat /\ T # {} /\ \A t \in T : t <= n
  OBVIOUS
<1>3. PICK s \in T : \A t \in T : t <= s
  BY <1>2, GreatestUpTo
<1> DEFINE First == {i \in E : score[i] = s}
<1>4. First \in SUBSET Nat /\ First # {}
  BY <1>3
<1>5. PICK i \in First : \A j \in First : i <= j
  BY <1>4, LeastNatural
<1>6. i \in E /\ score[i] = s /\ score[i] <= n
  BY <1>5
<1>7. \A j \in E : score[j] <= score[i]
  BY <1>3, <1>6
<1>8. \A j \in E : score[j] = score[i] => i <= j
  BY <1>5, <1>6
<1> QED BY <1>6, <1>7, <1>8

(* What Rank does to the population.                                       *)
LEMMA Ranks ==
    ASSUME ClimbTypeOK, PoolInv, NEW c \in Climbers, Rank(c)
    PROVE  \E worst \in Nat, idx \in Entries :
               /\ \A i \in Entries : pool.population[i].score <= worst
               /\ worst <= pool.worst_score
               /\ pool.population[idx].score = worst
               /\ pool' = [pool EXCEPT
                      !.worst_idx = IF worst > 0 THEN idx ELSE @,
                      !.worst_score = worst,
                      !.best_score = IF ScoreOf[climber[c].cand] < @
                                     THEN ScoreOf[climber[c].cand] ELSE @]
               /\ climber' = [climber EXCEPT ![c].pc = "release", ![c].then = "offer",
                                             ![c].local_worst = worst]
<1> DEFINE scores == {pool.population[i].score : i \in Entries}
           worst == CHOOSE s \in scores : \A t \in scores : t <= s
           idx == CHOOSE i \in Entries :
                      /\ pool.population[i].score = worst
                      /\ \A j \in Entries : pool.population[j].score = worst => i <= j
           score == [i \in Entries |-> pool.population[i].score]
           lowered == IF worst < pool.worst_score THEN worst ELSE pool.worst_score
<1>1. score \in [Entries -> Nat] /\ pool.worst_score \in Nat
  BY DEF ClimbTypeOK, Population
<1>2. \A i \in Entries : score[i] <= pool.worst_score
  BY DEF PoolInv
<1>3. \A i \in Entries : score[i] = pool.population[i].score
  OBVIOUS
<1> HIDE DEF score
<1>e. Entries # {} /\ Entries \in SUBSET Nat
  <2>1. 0 \in Entries
    BY Sizes DEF Entries
  <2> QED BY <2>1 DEF Entries
<1>4. PICK w \in Entries : /\ score[w] <= pool.worst_score
                           /\ \A j \in Entries : /\ score[j] <= score[w]
                                                 /\ score[j] = score[w] => w <= j
  BY <1>1, <1>2, <1>e, WorstExists
<1>5. \E s \in scores : \A t \in scores : t <= s
  BY <1>3, <1>4
<1>6. worst \in scores /\ \A t \in scores : t <= worst
  BY <1>5
<1> HIDE DEF worst
<1>7. worst \in Nat /\ worst = score[w] /\ \A i \in Entries : score[i] <= worst
  <2>1. score[w] \in scores /\ score[w] \in Nat /\ \A t \in scores : t \in Nat
    BY <1>1, <1>3
  <2>2. \A t \in scores : t <= score[w]
    BY <1>3, <1>4
  <2>3. worst \in Nat /\ worst <= score[w] /\ score[w] <= worst
    BY <1>6, <2>1, <2>2
  <2>4. worst = score[w]
    BY <2>1, <2>3
  <2> QED BY <1>4, <2>3, <2>4
<1>8. \E i \in Entries : /\ pool.population[i].score = worst
                         /\ \A j \in Entries : pool.population[j].score = worst => i <= j
  BY <1>3, <1>4, <1>7
<1>9. idx \in Entries /\ pool.population[idx].score = worst
  BY <1>8
<1>10. lowered = worst
  BY <1>1, <1>4, <1>7
<1>11. /\ pool' = [pool EXCEPT !.worst_idx = IF worst > 0 THEN idx ELSE @,
                               !.worst_score = lowered,
                               !.best_score = IF ScoreOf[climber[c].cand] < @
                                              THEN ScoreOf[climber[c].cand] ELSE @]
       /\ climber' = [climber EXCEPT ![c].pc = "release", ![c].then = "offer",
                                     ![c].local_worst = lowered]
  BY DEF Rank, worst
<1> HIDE DEF idx, lowered, scores
<1> QED BY <1>3, <1>4, <1>7, <1>9, <1>10, <1>11

ActionOf(c) ==
    \/ ChooseEntry(c) \/ CopyEntry(c) \/ CopyWorst(c) \/ TryBrute(c) \/ TryRandom(c)
    \/ Claim(c) \/ PrintGrid(c) \/ TryAdd(c) \/ Rank(c) \/ Mark(c) \/ Release(c)

(* A child that moves is there, and moves alone.                           *)
LEMMA OnlyMover ==
    ASSUME ClimbTypeOK, NEW c \in Climbers, ActionOf(c)
    PROVE  /\ Only(c) /\ threadid' = threadid
           /\ climber[c].pc # "none"
<1> USE DEF Only, ClimbTypeOK
<1>1. CASE ChooseEntry(c)
  BY <1>1 DEF ChooseEntry
<1>2. CASE CopyEntry(c)
  BY <1>2 DEF CopyEntry
<1>3. CASE CopyWorst(c)
  BY <1>3 DEF CopyWorst
<1>4. CASE TryBrute(c)
  BY <1>4 DEF TryBrute
<1>5. CASE TryRandom(c)
  BY <1>5 DEF TryRandom
<1>6. CASE Claim(c)
  BY <1>6 DEF Claim, Writing
<1>7. CASE PrintGrid(c)
  BY <1>7 DEF PrintGrid, At
<1>8. CASE TryAdd(c)
  BY <1>8 DEF TryAdd, At
<1>9. CASE Rank(c)
  BY <1>9 DEF Rank, At
<1>10. CASE Mark(c)
  BY <1>10 DEF Mark, At
<1>11. CASE Release(c)
  BY <1>11 DEF Release
<1> QED BY <1>1, <1>2, <1>3, <1>4, <1>5, <1>6, <1>7, <1>8, <1>9, <1>10, <1>11 DEF ActionOf


LEMMA TypeStep ==
    ASSUME ClimbTypeOK, StepInv, PoolInv, NEW c \in Climbers, ActionOf(c)
    PROVE  ClimbTypeOK'
<1>0. /\ climber \in [Climbers -> Climber] /\ climber[c] \in Climber /\ sem \in [1 .. 2 -> Nat]
      /\ pool \in Population /\ added \subseteq Entries
      /\ \A i \in Entries : pool.population[i] \in [grid : Grids, score : Nat, brute : {0, 1}]
  BY DEF ClimbTypeOK, Population
<1>a. Position(c)
  BY DEF StepInv
<1>b. /\ threadid' = threadid /\ threadid \in 0 .. MaxThreadid + 1
      /\ MaxThreadid \in Nat /\ MAXTHREADS \in Nat /\ MAXTHREADS > 0
  BY OnlyMover, Sizes DEF ClimbTypeOK
<1>1. CASE ChooseEntry(c)
  <2>1. PICK rp \in Entries : climber' = [climber EXCEPT ![c].pc = "read", ![c].rp = rp]
    BY <1>1 DEF ChooseEntry
  <2>2. climber' \in [Climbers -> Climber]
    <3>1. rp \in -1 .. POP_SIZE - 1 /\ "read" \in ClimberSteps
      BY Sizes DEF Entries, ClimberSteps
    <3> QED BY <1>0, <2>1, <3>1 DEF Climber
  <2>3. sem' \in [1 .. 2 -> Nat]
    BY <1>0, <1>1 DEF ChooseEntry
  <2> QED BY <1>0, <1>b, <1>1, <2>2, <2>3 DEF ClimbTypeOK, ChooseEntry
<1>2. CASE CopyEntry(c)
  <2>1. pool.population[climber[c].rp] \in [grid : Grids, score : Nat, brute : {0, 1}]
    BY <1>0, <1>a, <1>2 DEF Position, CopyEntry
  <2>2. climber' \in [Climbers -> Climber]
    BY <1>0, <1>2, <2>1 DEF Climber, ClimberSteps, CopyEntry
  <2> QED BY <1>0, <1>b, <1>2, <2>2 DEF ClimbTypeOK, CopyEntry
<1>3. CASE CopyWorst(c)
  <2>1. pool.worst_score \in Nat
    BY <1>0 DEF Population
  <2>2. climber' \in [Climbers -> Climber]
    <3>1. PICK ph \in {"random", "brute"} :
              climber' = [climber EXCEPT ![c] =
                  [@ EXCEPT !.pc = "offer", !.local_worst = pool.worst_score, !.k = 1,
                            !.phase = ph]]
      BY <1>3 DEF CopyWorst
    <3>2. "offer" \in ClimberSteps
      BY DEF ClimberSteps
    <3> DEFINE half == [climber[c] EXCEPT !.pc = "offer", !.phase = ph]
               most == [half EXCEPT !.local_worst = pool.worst_score]
    <3>3. half \in Climber
      BY <1>0, <3>2 DEF Climber
    <3>4. climber' = [climber EXCEPT ![c] = [most EXCEPT !.k = 1]]
      BY <1>0, <3>1 DEF Climber
    <3> HIDE DEF half
    <3>5. most \in Climber
      BY <2>1, <3>3 DEF Climber
    <3> HIDE DEF most
    <3>6. [most EXCEPT !.k = 1] \in Climber
      BY <3>5 DEF Climber
    <3> QED BY <1>0, <3>4, <3>6
  <2>3. sem' \in [1 .. 2 -> Nat]
    BY <1>0, <1>3 DEF CopyWorst
  <2> QED BY <1>0, <1>b, <1>3, <2>2, <2>3 DEF ClimbTypeOK, CopyWorst
<1>4. CASE TryBrute(c)
  <2>1. climber' \in [Climbers -> Climber]
    <3>1. CASE climber[c].k <= Len(Swaps[climber[c].d.grid])
      <4> DEFINE g == Swaps[climber[c].d.grid][climber[c].k]
                 state == [climber[c] EXCEPT !.k = @ + 1]
      <4>1. g \in Grids
        BY <1>0, <3>1, NextSwap
      <4>2. state \in Climber
        BY <1>0, <3>1, NextSwap
      <4>3. climber' = [climber EXCEPT ![c] = Offer(g, state)]
        BY <1>4, <3>1 DEF TryBrute
      <4> HIDE DEF g, state
      <4>4. PICK p \in {"print", "add", "offer"} :
                 Offer(g, state) = [state EXCEPT !.cand = g, !.pc = p]
        BY <4>1, <4>2, OfferMoves
      <4>5. Offer(g, state) \in Climber
        BY <4>1, <4>2, <4>4 DEF Climber, ClimberSteps, Writing
      <4> QED BY <1>0, <4>3, <4>5
    <3>2. CASE ~ (climber[c].k <= Len(Swaps[climber[c].d.grid]))
      <4>1. climber' = [climber EXCEPT ![c].pc = "mark"]
        BY <1>4, <3>2 DEF TryBrute
      <4> QED BY <1>0, <4>1 DEF Climber, ClimberSteps, Writing
    <3> QED BY <3>1, <3>2
  <2> QED BY <1>0, <1>b, <1>4, <2>1 DEF ClimbTypeOK, TryBrute
<1>5. CASE TryRandom(c)
  <2>1. climber' \in [Climbers -> Climber]
    <3>1. CASE \E g \in Grids : climber' = [climber EXCEPT ![c] = Offer(g, climber[c])]
      <4>1. PICK g \in Grids : climber' = [climber EXCEPT ![c] = Offer(g, climber[c])]
        BY <3>1
      <4>2. PICK p \in {"print", "add", "offer"} :
                Offer(g, climber[c]) = [climber[c] EXCEPT !.cand = g, !.pc = p]
        BY <1>0, OfferMoves
      <4>3. Offer(g, climber[c]) \in Climber
        BY <1>0, <4>2 DEF Climber, ClimberSteps, Writing
      <4> QED BY <1>0, <4>1, <4>3
    <3>2. CASE climber' = [climber EXCEPT ![c] =
                               [Fresh EXCEPT !.pc = "choose", !.rp = climber[c].rp]]
      <4>1. [Fresh EXCEPT !.pc = "choose", !.rp = climber[c].rp] \in Climber
        BY <1>0, FreshTyped DEF Climber, ClimberSteps
      <4> QED BY <1>0, <3>2, <4>1
    <3> QED BY <1>5, <3>1, <3>2 DEF TryRandom
  <2> QED BY <1>0, <1>b, <1>5, <2>1 DEF ClimbTypeOK, TryRandom
<1>6. CASE Claim(c)
  <2>1. climber' \in [Climbers -> Climber]
    BY <1>0, <1>b, <1>6 DEF Climber, Claim
  <2>2. sem' \in [1 .. 2 -> Nat]
    BY <1>0, <1>6 DEF Claim
  <2> QED BY <1>0, <1>b, <1>6, <2>1, <2>2 DEF ClimbTypeOK, Claim
<1>7. CASE PrintGrid(c)
  <2>1. AfterPrint(climber[c]).pc \in {"add", "offer"}
    BY <1>0, AfterPrintPc
  <2>2. climber' \in [Climbers -> Climber]
    BY <1>0, <1>7, <2>1 DEF Climber, ClimberSteps, Writing, PrintGrid
  <2> QED BY <1>0, <1>b, <1>7, <2>2 DEF ClimbTypeOK, PrintGrid
<1>8. CASE TryAdd(c)
  <2> DEFINE g == climber[c].cand
  <2>1. g \in Grids /\ ScoreOf[g] \in Nat /\ pool.worst_score \in Nat /\ pool.worst_idx \in Entries
    BY <1>0, ScoreTyped DEF Climber, Population
  <2>2. CASE NotBetter(g) \/ Known(g)
    <3>1. climber' \in [Climbers -> Climber] /\ pool' = pool /\ added' = added
      BY <1>0, <1>8, <2>1, <2>2 DEF Climber, ClimberSteps, Writing, TryAdd
    <3> QED BY <1>0, <1>b, <1>8, <3>1 DEF ClimbTypeOK, TryAdd
  <2>3. CASE ~ (NotBetter(g) \/ Known(g))
    <3>1. /\ climber' = [climber EXCEPT ![c].pc = "rank"]
          /\ pool' = [pool EXCEPT !.population[pool.worst_idx] =
                          [grid |-> g, score |-> ScoreOf[g], brute |-> 0]]
          /\ added' = added \cup {pool.worst_idx}
      BY <1>8, <2>3 DEF TryAdd
    <3>2. climber' \in [Climbers -> Climber]
      BY <1>0, <3>1 DEF Climber, ClimberSteps, Writing
    <3>3. pool' \in Population
      BY <1>0, <2>1, <3>1 DEF Population
    <3> QED BY <1>0, <1>b, <1>8, <2>1, <3>1, <3>2, <3>3 DEF ClimbTypeOK, TryAdd
  <2> QED BY <2>2, <2>3
<1>9. CASE Rank(c)
  <2>1. PICK worst \in Nat, idx \in Entries :
            /\ pool' = [pool EXCEPT
                   !.worst_idx = IF worst > 0 THEN idx ELSE @,
                   !.worst_score = worst,
                   !.best_score = IF ScoreOf[climber[c].cand] < @
                                  THEN ScoreOf[climber[c].cand] ELSE @]
            /\ climber' = [climber EXCEPT ![c].pc = "release", ![c].then = "offer",
                                          ![c].local_worst = worst]
    BY <1>9, Ranks
  <2>2. ScoreOf[climber[c].cand] \in Nat
    BY <1>0, ScoreTyped DEF Climber
  <2>3. pool' \in Population
    BY <1>0, <2>1, <2>2 DEF Population
  <2>4. climber' \in [Climbers -> Climber]
    BY <1>0, <2>1 DEF Climber, ClimberSteps
  <2> QED BY <1>0, <1>b, <1>9, <2>3, <2>4 DEF ClimbTypeOK, Rank
<1>10. CASE Mark(c)
  <2>1. climber' \in [Climbers -> Climber]
    BY <1>0, <1>10 DEF Climber, ClimberSteps, Mark
  <2>2. climber[c].rp \in Entries
    BY <1>a, <1>10 DEF Position, Mark, At
  <2>3. pool' \in Population
    BY <1>0, <1>10, <2>2 DEF Population, Mark
  <2> QED BY <1>0, <1>b, <1>10, <2>1, <2>3 DEF ClimbTypeOK, Mark
<1>11. CASE Release(c)
  <2>1. climber[c].held >= 0
    BY <1>a, <1>11 DEF Position, Release
  <2>2. climber' \in [Climbers -> Climber]
    <3>1. PICK p \in ClimberSteps : climber' = [climber EXCEPT ![c].held = @ - 1, ![c].pc = p]
      BY <1>0, <1>11 DEF Climber, Release
    <3>2. climber[c].held - 1 \in -1 .. MAXTHREADS
      BY <1>0, <1>b, <2>1 DEF Climber
    <3> QED BY <1>0, <3>1, <3>2 DEF Climber
  <2>3. sem' \in [1 .. 2 -> Nat]
    BY <1>0, <1>11 DEF Release
  <2> QED BY <1>0, <1>b, <1>11, <2>2, <2>3 DEF ClimbTypeOK, Release
<1> QED BY <1>1, <1>2, <1>3, <1>4, <1>5, <1>6, <1>7, <1>8, <1>9, <1>10, <1>11 DEF ActionOf

-----------------------------------------------------------------------------
(* The lock. *)

LEMMA BrutedGrows ==
    ASSUME NEW c \in Climbers, ActionOf(c)
    PROVE  bruted \subseteq bruted'
  BY DEF ActionOf, ChooseEntry, CopyEntry, CopyWorst, TryBrute, TryRandom, Claim, PrintGrid,
         TryAdd, Rank, Mark, Release

(* A grid that a child tries is one to print, to add, or to forget.        *)
LEMMA Tries ==
    ASSUME ClimbTypeOK, StepInv, NEW c \in Climbers, TryBrute(c) \/ TryRandom(c)
    PROVE  /\ climber[c].pc = "offer" /\ climber[c].held = -1 /\ climber'[c].held = -1
           /\ climber'[c].pc \in {"print", "add", "offer", "choose", "mark"}
           /\ climber'[c].pc # "choose" => /\ climber'[c].rp = climber[c].rp
                                           /\ climber'[c].d = climber[c].d
           /\ climber'[c].pc = "mark" => climber[c].d.grid \in bruted'
           /\ pool' = pool /\ added' = added
<1>0. climber \in [Climbers -> Climber] /\ climber[c] \in Climber
  BY DEF ClimbTypeOK
<1>a. Position(c)
  BY DEF StepInv
<1>b. /\ climber[c].pc = "offer" /\ climber[c].held = -1
      /\ pool' = pool /\ added' = added
  BY <1>0, <1>a DEF TryBrute, TryRandom, Position, Writing, Climber
<1>1. CASE TryBrute(c)
  <2>1. CASE climber[c].k <= Len(Swaps[climber[c].d.grid])
    <3> DEFINE g == Swaps[climber[c].d.grid][climber[c].k]
               state == [climber[c] EXCEPT !.k = @ + 1]
    <3>1. g \in Grids /\ state \in Climber
      BY <1>0, <2>1, NextSwap
    <3>2. /\ state \in Climber /\ state.held = climber[c].held /\ state.rp = climber[c].rp
          /\ state.d = climber[c].d
      BY <1>0, <3>1 DEF Climber
    <3>3. climber' = [climber EXCEPT ![c] = Offer(g, state)]
      BY <1>1, <2>1 DEF TryBrute
    <3> HIDE DEF g, state
    <3>4. PICK p \in {"print", "add", "offer"} :
               Offer(g, state) = [state EXCEPT !.cand = g, !.pc = p]
      BY <3>1, <3>2, OfferMoves
    <3>5. /\ climber'[c].held = climber[c].held /\ climber'[c].pc = p
          /\ climber'[c].rp = climber[c].rp /\ climber'[c].d = climber[c].d
      BY <1>0, <3>2, <3>3, <3>4 DEF Climber
    <3> QED BY <1>b, <3>5
  <2>2. CASE ~ (climber[c].k <= Len(Swaps[climber[c].d.grid]))
    <3>1. climber' = [climber EXCEPT ![c].pc = "mark"] /\ climber[c].d.grid \in bruted'
      BY <1>1, <2>2 DEF TryBrute
    <3>2. /\ climber'[c].held = climber[c].held /\ climber'[c].pc = "mark"
          /\ climber'[c].rp = climber[c].rp /\ climber'[c].d = climber[c].d
      BY <1>0, <3>1 DEF Climber
    <3> QED BY <1>b, <3>1, <3>2
  <2> QED BY <2>1, <2>2
<1>2. CASE TryRandom(c)
  <2>1. CASE \E g \in Grids : climber' = [climber EXCEPT ![c] = Offer(g, climber[c])]
    <3>1. PICK g \in Grids : climber' = [climber EXCEPT ![c] = Offer(g, climber[c])]
      BY <2>1
    <3>2. PICK p \in {"print", "add", "offer"} :
              Offer(g, climber[c]) = [climber[c] EXCEPT !.cand = g, !.pc = p]
      BY <1>0, OfferMoves
    <3>3. /\ climber'[c].held = climber[c].held /\ climber'[c].pc = p
          /\ climber'[c].rp = climber[c].rp /\ climber'[c].d = climber[c].d
      BY <1>0, <3>1, <3>2 DEF Climber
    <3> QED BY <1>b, <3>3
  <2>2. CASE climber' = [climber EXCEPT ![c] =
                             [Fresh EXCEPT !.pc = "choose", !.rp = climber[c].rp]]
    <3>1. climber'[c].held = -1 /\ climber'[c].pc = "choose"
      BY <1>0, <2>2 DEF Fresh
    <3> QED BY <1>b, <3>1
  <2> QED BY <1>2, <2>1, <2>2 DEF TryRandom
<1> QED BY <1>1, <1>2

(* In all steps but four, c neither takes nor returns a place.             *)
Quiet(c) == \/ CopyEntry(c) \/ TryBrute(c) \/ TryRandom(c) \/ PrintGrid(c) \/ TryAdd(c)
            \/ Rank(c) \/ Mark(c)

LEMMA QuietMover ==
    ASSUME ClimbTypeOK, StepInv, PoolInv, NEW c \in Climbers, Quiet(c)
    PROVE  /\ sem' = sem /\ climber'[c].held = climber[c].held
           /\ Readers(c)' <=> Readers(c)
<1>0. climber \in [Climbers -> Climber] /\ climber[c] \in Climber
  BY DEF ClimbTypeOK
<1>1. CASE CopyEntry(c)
  BY <1>0, <1>1 DEF CopyEntry, Climber, Readers
<1>2. CASE TryBrute(c) \/ TryRandom(c)
  <2>1. sem' = sem
    BY <1>2 DEF TryBrute, TryRandom
  <2> QED BY <1>2, <2>1, Tries DEF Readers
<1>3. CASE PrintGrid(c)
  BY <1>0, <1>3 DEF PrintGrid, At, Climber, Readers
<1>4. CASE TryAdd(c)
  BY <1>0, <1>4 DEF TryAdd, At, Climber, Readers
<1>5. CASE Rank(c)
  <2>1. PICK worst \in Nat :
            climber' = [climber EXCEPT ![c].pc = "release", ![c].then = "offer",
                                       ![c].local_worst = worst]
    BY <1>5, Ranks
  <2>2. sem' = sem /\ climber[c].pc = "rank"
    BY <1>5 DEF Rank, At
  <2>3. climber'[c].pc = "release" /\ climber'[c].held = climber[c].held
    BY <1>0, <2>1 DEF Climber
  <2> QED BY <2>2, <2>3 DEF Readers
<1>6. CASE Mark(c)
  BY <1>0, <1>6 DEF Mark, At, Climber, Readers
<1> QED BY <1>1, <1>2, <1>3, <1>4, <1>5, <1>6 DEF Quiet

LEMMA ReadersGrow ==
    ASSUME NEW c \in Climbers, ~ Readers(c), Readers(c)', Only(c)
    PROVE  Cardinality(Reading') = Cardinality(Reading) + 1
<1>1. Reading' = Reading \cup {c} /\ c \notin Reading
  BY DEF Reading, Readers, Only
<1> QED BY <1>1, ReadersFinite, FS_AddElement

LEMMA ReadersShrink ==
    ASSUME NEW c \in Climbers, Readers(c), ~ Readers(c)', Only(c)
    PROVE  Cardinality(Reading') = Cardinality(Reading) - 1
<1>1. Reading' = Reading \ {c} /\ c \in Reading
  BY DEF Reading, Readers, Only
<1> QED BY <1>1, ReadersFinite, FS_RemoveElement

LEMMA ReadersSame ==
    ASSUME NEW c \in Climbers, Readers(c)' <=> Readers(c), Only(c)
    PROVE  Reading' = Reading
  BY DEF Reading, Readers, Only

LEMMA ReadersFiniteNext == Cardinality(Reading') \in Nat
<1>1. IsFiniteSet(Climbers)
  BY FS_Interval, Sizes DEF Climbers
<1>2. Reading' \subseteq Climbers
  BY DEF Reading
<1> QED BY <1>1, <1>2, FS_Subset, FS_CardinalityType

(* No writer starts or ends: places go between readers and the free ones.  *)
LEMMA ReaderStep ==
    ASSUME ClimbTypeOK, LockInv, NEW c \in Climbers, Only(c),
           climber'[c].held = climber[c].held,
           sem'[1] = sem[1],
           sem'[2] + Cardinality(Reading') = sem[2] + Cardinality(Reading), sem'[2] \in Nat
    PROVE  LockInv'
<1>0. /\ sem[2] \in Nat /\ Cardinality(Reading) \in Nat
      /\ \A e \in Climbers : climber'[e].held = climber[e].held
      /\ \A e \in Climbers : climber[e].held \in Int
  BY ReadersFinite DEF ClimbTypeOK, Climber, Only
<1>1. Holders' = Holders
  BY <1>0 DEF Holders
<1>2. /\ \A b, e \in Holders : b = e
      /\ sem[1] = IF Holders = {} THEN 1 ELSE 0
  BY DEF LockInv
<1>3. Holders = {} => sem'[2] + Cardinality(Reading') = MAXTHREADS
  BY DEF LockInv
<1>4. Cardinality(Reading') \in Nat
  BY ReadersFiniteNext
<1>5. ASSUME NEW e \in Holders PROVE sem'[2] + Cardinality(Reading') + climber'[e].held = MAXTHREADS
  <2>1. e \in Climbers
    BY DEF Holders
  <2>2. sem[2] + Cardinality(Reading) + climber[e].held = MAXTHREADS
    BY DEF LockInv, PlacesOf
  <2> QED BY <1>0, <2>1, <2>2
<1>6. \A e \in Holders' : PlacesOf(e)'
  BY <1>1, <1>5 DEF PlacesOf
<1> QED BY <1>1, <1>2, <1>3, <1>6 DEF LockInv

LEMMA LockStep ==
    ASSUME ClimbTypeOK, LockInv, StepInv, PoolInv, NEW c \in Climbers, ActionOf(c)
    PROVE  LockInv'
<1>0. /\ climber \in [Climbers -> Climber] /\ climber[c] \in Climber /\ sem \in [1 .. 2 -> Nat]
      /\ sem[1] \in Nat /\ sem[2] \in Nat /\ Cardinality(Reading) \in Nat
      /\ MAXTHREADS \in Nat /\ MAXTHREADS > 0
  BY ReadersFinite, Sizes DEF ClimbTypeOK
<1>a. Position(c)
  BY DEF StepInv
<1>b. Only(c)
  BY OnlyMover
<1>1. CASE Quiet(c)
  <2>1. /\ sem' = sem /\ climber'[c].held = climber[c].held
        /\ Readers(c)' <=> Readers(c)
    BY <1>1, QuietMover
  <2>2. Reading' = Reading
    BY <1>b, <2>1, ReadersSame
  <2> QED BY <1>0, <1>b, <2>1, <2>2, ReaderStep
<1>2. CASE ChooseEntry(c)
  <2>1. /\ sem'[1] = sem[1] /\ sem'[2] = sem[2] - 1 /\ sem'[2] \in Nat
        /\ climber[c].pc = "choose"
    BY <1>0, <1>2 DEF ChooseEntry
  <2>2. PICK rp \in Entries : climber' = [climber EXCEPT ![c].pc = "read", ![c].rp = rp]
    BY <1>2 DEF ChooseEntry
  <2>3. climber'[c].pc = "read" /\ climber'[c].held = climber[c].held
    BY <1>0, <2>2 DEF Climber
  <2>4. Cardinality(Reading') = Cardinality(Reading) + 1
    BY <1>b, <2>1, <2>3, ReadersGrow DEF Readers
  <2>5. sem'[2] + Cardinality(Reading') = sem[2] + Cardinality(Reading)
    BY <1>0, <2>1, <2>4
  <2> QED BY <1>b, <2>1, <2>3, <2>5, ReaderStep
<1>3. CASE CopyWorst(c)
  <2>1. /\ sem'[1] = sem[1] /\ sem'[2] = sem[2] + 1 /\ sem'[2] \in Nat
        /\ climber[c].pc = "copied"
    BY <1>0, <1>3 DEF CopyWorst
  <2>2. climber'[c].pc = "offer" /\ climber'[c].held = climber[c].held
    BY <1>0, <1>3 DEF Climber, CopyWorst
  <2>3. Cardinality(Reading') = Cardinality(Reading) - 1
    BY <1>b, <2>1, <2>2, ReadersShrink DEF Readers
  <2>4. sem'[2] + Cardinality(Reading') = sem[2] + Cardinality(Reading)
    BY <1>0, <2>1, <2>3
  <2> QED BY <1>b, <2>1, <2>2, <2>4, ReaderStep
<1>4. CASE Claim(c)
  <2>1. /\ climber[c].pc \in Writing /\ climber'[c].pc = climber[c].pc
        /\ climber'[c].held = climber[c].held + 1
    BY <1>0, <1>4 DEF Claim, Climber
  <2>2. Reading' = Reading
    BY <1>b, <2>1, ReadersSame DEF Readers
  <2>3. CASE climber[c].held = -1
    <3>1. sem'[1] = sem[1] - 1 /\ sem'[2] = sem[2] /\ sem[1] > 0
      BY <1>0, <1>4, <2>3 DEF Claim
    <3>2. Holders = {} /\ sem[1] = 1
      BY <1>0, <3>1 DEF LockInv
    <3>3. climber'[c].held = 0
      BY <2>1, <2>3
    <3>4. Holders' = {c}
      BY <1>b, <3>2, <3>3 DEF Holders, Only
    <3>5. sem'[2] + Cardinality(Reading') = MAXTHREADS
      BY <2>2, <3>1, <3>2 DEF LockInv
    <3>6. sem'[2] + Cardinality(Reading') + climber'[c].held = MAXTHREADS
      BY <1>0, <3>3, <3>5
    <3>7. sem'[1] = 0
      BY <3>1, <3>2
    <3> QED BY <3>4, <3>6, <3>7 DEF LockInv, PlacesOf
  <2>4. CASE climber[c].held # -1
    <3>1. sem'[1] = sem[1] /\ sem'[2] = sem[2] - 1
      BY <1>0, <1>4, <2>4 DEF Claim
    <3>2. climber[c].held \in Nat /\ climber'[c].held >= 0
      BY <1>0, <2>1, <2>4 DEF Climber
    <3>3. c \in Holders
      BY <3>2 DEF Holders
    <3>4. Holders = {c}
      BY <3>3 DEF LockInv
    <3>5. Holders' = {c}
      BY <1>b, <3>2, <3>4 DEF Holders, Only
    <3>6. sem[2] + Cardinality(Reading) + climber[c].held = MAXTHREADS
      BY <3>3 DEF LockInv, PlacesOf
    <3>7. sem'[2] + Cardinality(Reading') + climber'[c].held = MAXTHREADS
      BY <1>0, <2>1, <2>2, <3>1, <3>2, <3>6
    <3>8. sem'[1] = 0
      BY <3>1, <3>4 DEF LockInv
    <3> QED BY <3>5, <3>7, <3>8 DEF LockInv, PlacesOf
  <2> QED BY <2>3, <2>4
<1>5. CASE Release(c)
  <2>1. climber[c].pc = "release" /\ climber[c].held \in Nat /\ climber[c].then \in {"add", "offer"}
    BY <1>0, <1>a, <1>5 DEF Release, Position, Climber
  <2>2. climber'[c].held = climber[c].held - 1
    BY <1>0, <1>5 DEF Release, Climber
  <2>3. climber'[c].pc \in {"release", "add", "offer"}
    BY <1>0, <1>5, <2>1 DEF Release, Climber
  <2>4. Reading' = Reading
    BY <1>b, <2>1, <2>3, ReadersSame DEF Readers
  <2>5. c \in Holders
    BY <2>1 DEF Holders
  <2>6. Holders = {c} /\ sem[1] = 0
    BY <2>5 DEF LockInv
  <2>7. sem[2] + Cardinality(Reading) + climber[c].held = MAXTHREADS
    BY <2>5 DEF LockInv, PlacesOf
  <2>8. CASE climber[c].held = 0
    <3>1. sem'[1] = 1 /\ sem'[2] = sem[2]
      BY <1>0, <1>5, <2>6, <2>8 DEF Release
    <3>2. ~ (climber'[c].held >= 0)
      BY <2>2, <2>8
    <3>3. Holders' = {}
      BY <1>b, <2>6, <3>2 DEF Holders, Only
    <3>4. sem'[2] + Cardinality(Reading') = MAXTHREADS
      BY <1>0, <2>4, <2>7, <2>8, <3>1
    <3> QED BY <3>1, <3>3, <3>4 DEF LockInv
  <2>9. CASE climber[c].held # 0
    <3>1. sem'[1] = 0 /\ sem'[2] = sem[2] + 1
      BY <1>0, <1>5, <2>6, <2>9 DEF Release
    <3>2. climber'[c].held >= 0
      BY <2>1, <2>2, <2>9
    <3>3. Holders' = {c}
      BY <1>b, <2>6, <3>2 DEF Holders, Only
    <3>4. sem'[2] + Cardinality(Reading') + climber'[c].held = MAXTHREADS
      BY <1>0, <2>1, <2>2, <2>4, <2>7, <3>1
    <3> QED BY <3>1, <3>3, <3>4 DEF LockInv, PlacesOf
  <2> QED BY <2>8, <2>9
<1> QED BY <1>1, <1>2, <1>3, <1>4, <1>5 DEF ActionOf, Quiet

-----------------------------------------------------------------------------
(* Where the children are, and what the population is. *)

LEMMA StepStep ==
    ASSUME ClimbTypeOK, StepInv, PoolInv, NEW c \in Climbers, ActionOf(c)
    PROVE  StepInv'
<1>0. /\ climber \in [Climbers -> Climber] /\ climber[c] \in Climber
      /\ MAXTHREADS \in Nat /\ MAXTHREADS > 0 /\ threadid \in Int /\ c \in Int
  BY Sizes DEF ClimbTypeOK, Climbers
<1>a. Position(c)
  BY DEF StepInv
<1>b. Only(c) /\ threadid' = threadid /\ climber[c].pc # "none" /\ bruted \subseteq bruted'
  BY OnlyMover, BrutedGrows
<1>c. ~ (c >= threadid')
  <2>1. Fresh.pc = "none"
    BY DEF Fresh
  <2> QED BY <1>a, <1>b, <2>1 DEF Position
<1>d. \A e \in Climbers \ {c} : Position(e)'
  BY <1>b DEF StepInv, Position, Only
<1> SUFFICES Position(c)'
  BY <1>d DEF StepInv
<1>1. CASE ChooseEntry(c)
  <2>1. PICK rp \in Entries : climber' = [climber EXCEPT ![c].pc = "read", ![c].rp = rp]
    BY <1>1 DEF ChooseEntry
  <2>2. climber[c].held = -1
    BY <1>0, <1>a, <1>1 DEF ChooseEntry, Position, Writing, Climber
  <2>3. /\ climber'[c].pc = "read" /\ climber'[c].rp \in Entries
        /\ ~ (climber'[c].held >= 0)
    BY <1>0, <2>1, <2>2 DEF Climber
  <2> QED BY <1>c, <2>3 DEF Position
<1>2. CASE CopyEntry(c)
  <2>1. climber[c].held = -1 /\ climber[c].rp \in Entries
    BY <1>0, <1>a, <1>2 DEF CopyEntry, Position, Writing, Climber
  <2>2. /\ climber'[c].pc = "copied" /\ climber'[c].rp \in Entries
        /\ ~ (climber'[c].held >= 0)
    BY <1>0, <1>2, <2>1 DEF CopyEntry, Climber
  <2> QED BY <1>c, <2>2 DEF Position
<1>3. CASE CopyWorst(c)
  <2>1. climber[c].held = -1 /\ climber[c].rp \in Entries
    BY <1>0, <1>a, <1>3 DEF CopyWorst, Position, Writing, Climber
  <2>2. /\ climber'[c].pc = "offer" /\ climber'[c].rp \in Entries
        /\ ~ (climber'[c].held >= 0)
    BY <1>0, <1>3, <2>1 DEF CopyWorst, Climber
  <2> QED BY <1>c, <2>2 DEF Position
<1>4. CASE TryBrute(c) \/ TryRandom(c)
  <2>1. /\ climber'[c].held = -1
        /\ climber'[c].pc \in {"print", "add", "offer", "choose", "mark"}
        /\ climber'[c].pc # "choose" => /\ climber'[c].rp = climber[c].rp
                                        /\ climber'[c].d = climber[c].d
        /\ climber'[c].pc = "mark" => climber[c].d.grid \in bruted'
        /\ climber[c].rp \in Entries
    BY <1>4, <1>a, Tries DEF Position
  <2>2. ~ (climber'[c].held >= 0)
    BY <2>1
  <2> QED BY <1>c, <2>1, <2>2 DEF Position
<1>5. CASE Claim(c)
  <2>1. /\ climber[c].held < MAXTHREADS /\ climber[c].pc \in Writing
        /\ climber[c].held \in -1 .. MAXTHREADS
    BY <1>0, <1>5 DEF Claim, Climber
  <2>2. /\ climber'[c].pc = climber[c].pc /\ climber'[c].rp = climber[c].rp
        /\ climber'[c].d = climber[c].d
    BY <1>0, <1>5 DEF Claim, Climber
  <2>3. climber[c].pc # "rank" /\ climber[c].pc # "release"
    BY <1>0, <1>a, <2>1 DEF Position, Writing
  <2> QED BY <1>a, <1>b, <1>c, <2>1, <2>2, <2>3 DEF Position, Writing
<1>6. CASE PrintGrid(c)
  <2>1. /\ climber[c].held = MAXTHREADS /\ climber[c].rp \in Entries
        /\ AfterPrint(climber[c]).pc \in {"add", "offer"}
    BY <1>0, <1>a, <1>6, AfterPrintPc DEF PrintGrid, At, Position
  <2>2. /\ climber'[c].pc = "release" /\ climber'[c].then \in {"add", "offer"}
        /\ climber'[c].held = MAXTHREADS /\ climber'[c].rp \in Entries
    BY <1>0, <1>6, <2>1 DEF PrintGrid, Climber
  <2> QED BY <1>0, <1>c, <2>2 DEF Position
<1>7. CASE TryAdd(c)
  <2>1. climber[c].held = MAXTHREADS /\ climber[c].rp \in Entries
    BY <1>a, <1>7 DEF TryAdd, At, Position
  <2>2. /\ \/ climber'[c].pc = "release" /\ climber'[c].then = "offer"
           \/ climber'[c].pc = "rank"
        /\ climber'[c].held = MAXTHREADS /\ climber'[c].rp \in Entries
    BY <1>0, <1>7, <2>1 DEF TryAdd, Climber
  <2> QED BY <1>0, <1>c, <2>2 DEF Position, Writing
<1>8. CASE Rank(c)
  <2>1. PICK worst \in Nat :
            climber' = [climber EXCEPT ![c].pc = "release", ![c].then = "offer",
                                       ![c].local_worst = worst]
    BY <1>8, Ranks
  <2>2. climber[c].held = MAXTHREADS /\ climber[c].rp \in Entries
    BY <1>a, <1>8 DEF Rank, At, Position
  <2>3. /\ climber'[c].pc = "release" /\ climber'[c].then = "offer"
        /\ climber'[c].held = MAXTHREADS /\ climber'[c].rp \in Entries
    BY <1>0, <2>1, <2>2 DEF Climber
  <2> QED BY <1>0, <1>c, <2>3 DEF Position
<1>9. CASE Mark(c)
  <2>1. climber[c].held = MAXTHREADS /\ climber[c].rp \in Entries
    BY <1>a, <1>9 DEF Mark, At, Position
  <2>2. /\ climber'[c].pc = "release" /\ climber'[c].then = "offer"
        /\ climber'[c].held = MAXTHREADS /\ climber'[c].rp \in Entries
    BY <1>0, <1>9, <2>1 DEF Mark, Climber
  <2> QED BY <1>0, <1>c, <2>2 DEF Position
<1>10. CASE Release(c)
  <2>1. /\ climber[c].pc = "release" /\ climber[c].then \in {"add", "offer"}
        /\ climber[c].held \in Nat /\ climber[c].rp \in Entries
    BY <1>0, <1>a, <1>10 DEF Release, Position, Climber
  <2>2. /\ climber'[c].held = climber[c].held - 1 /\ climber'[c].rp = climber[c].rp
        /\ climber'[c].then = climber[c].then
        /\ climber'[c].pc = IF climber[c].held = 0 THEN climber[c].then ELSE "release"
    BY <1>0, <1>10, <2>1 DEF Release, Climber
  <2>3. CASE climber[c].held = 0
    <3>1. climber'[c].pc \in {"add", "offer"} /\ ~ (climber'[c].held >= 0)
      BY <2>1, <2>2, <2>3
    <3> QED BY <1>c, <2>1, <2>2, <3>1 DEF Position
  <2>4. CASE climber[c].held # 0
    <3>1. climber'[c].pc = "release" /\ climber'[c].held >= 0
      BY <2>1, <2>2, <2>4
    <3> QED BY <1>c, <2>1, <2>2, <3>1 DEF Position
  <2> QED BY <2>3, <2>4
<1> QED BY <1>1, <1>2, <1>3, <1>4, <1>5, <1>6, <1>7, <1>8, <1>9, <1>10 DEF ActionOf

LEMMA PoolFrame ==
    ASSUME PoolInv, NEW c \in Climbers, Only(c), pool' = pool, added' = added,
           bruted \subseteq bruted', climber[c].pc # "rank", climber'[c].pc # "rank"
    PROVE  PoolInv'
<1>1. Ranking' = Ranking /\ \A e \in Ranking : climber'[e] = climber[e]
  BY DEF Ranking, Only
<1> QED BY <1>1 DEF PoolInv

(* Who has every place is the only one to rank.                            *)
LEMMA RankingAlone ==
    ASSUME ClimbTypeOK, LockInv, StepInv, NEW c \in Climbers, climber[c].held = MAXTHREADS
    PROVE  Ranking \subseteq {c}
<1>1. \A e \in Ranking : climber[e].held = MAXTHREADS
  BY DEF Ranking, StepInv, Position
<1>2. \A e \in Ranking : e \in Holders
  BY <1>1, Sizes DEF Ranking, Holders
<1>3. c \in Holders
  BY Sizes DEF Holders
<1> QED BY <1>2, <1>3 DEF LockInv

LEMMA PoolStep ==
    ASSUME ClimbTypeOK, LockInv, StepInv, PoolInv, NEW c \in Climbers, ActionOf(c)
    PROVE  PoolInv'
<1>0. /\ climber \in [Climbers -> Climber] /\ climber[c] \in Climber
      /\ pool \in Population /\ added \subseteq Entries
      /\ pool.population \in [Entries -> [grid : Grids, score : Nat, brute : {0, 1}]]
      /\ pool.worst_idx \in Entries /\ pool.worst_score \in Nat /\ pool.best_score \in Nat
      /\ climber[c].cand \in Grids /\ ScoreOf[climber[c].cand] \in Nat
      /\ MAXTHREADS \in Nat /\ MAXTHREADS > 0
  BY ScoreTyped, Sizes DEF ClimbTypeOK, Population, Climber
<1>a. Position(c)
  BY DEF StepInv
<1>b. Only(c) /\ bruted \subseteq bruted'
  BY OnlyMover, BrutedGrows
<1>1. CASE ChooseEntry(c) \/ CopyEntry(c) \/ CopyWorst(c) \/ PrintGrid(c)
  <2>1. climber[c].pc # "rank" /\ climber'[c].pc # "rank" /\ pool' = pool /\ added' = added
    BY <1>0, <1>1 DEF ChooseEntry, CopyEntry, CopyWorst, PrintGrid, At, Climber
  <2> QED BY <1>b, <2>1, PoolFrame
<1>2. CASE TryBrute(c) \/ TryRandom(c)
  <2>1. climber[c].pc # "rank" /\ climber'[c].pc # "rank" /\ pool' = pool /\ added' = added
    BY <1>2, Tries
  <2> QED BY <1>b, <2>1, PoolFrame
<1>3. CASE Claim(c)
  <2>1. /\ climber[c].held < MAXTHREADS /\ climber'[c].pc = climber[c].pc
        /\ pool' = pool /\ added' = added
    BY <1>0, <1>3 DEF Claim, Climber
  <2>2. climber[c].pc # "rank"
    BY <1>0, <1>a, <2>1 DEF Position
  <2> QED BY <1>b, <2>1, <2>2, PoolFrame
<1>4. CASE Release(c)
  <2>1. /\ climber[c].pc = "release" /\ climber[c].then \in {"add", "offer"}
        /\ pool' = pool /\ added' = added
    BY <1>a, <1>4 DEF Release, Position
  <2>2. climber'[c].pc # "rank"
    BY <1>0, <1>4, <2>1 DEF Release, Climber
  <2> QED BY <1>b, <2>1, <2>2, PoolFrame
<1>5. CASE TryAdd(c)
  <2> DEFINE g == climber[c].cand
             w == pool.worst_idx
  <2>1. CASE NotBetter(g) \/ Known(g)
    <3>1. climber[c].pc # "rank" /\ climber'[c].pc # "rank" /\ pool' = pool /\ added' = added
      BY <1>0, <1>5, <2>1 DEF TryAdd, At, Climber
    <3> QED BY <1>b, <3>1, PoolFrame
  <2>2. CASE ~ (NotBetter(g) \/ Known(g))
    <3>1. /\ climber' = [climber EXCEPT ![c].pc = "rank"]
          /\ pool' = [pool EXCEPT !.population[w] =
                          [grid |-> g, score |-> ScoreOf[g], brute |-> 0]]
          /\ added' = added \cup {w}
      BY <1>5, <2>2 DEF TryAdd
    <3>2. climber[c].pc = "add" /\ climber[c].held = MAXTHREADS
      BY <1>5 DEF TryAdd, At
    <3>3. Ranking = {}
      BY <3>2, RankingAlone DEF Ranking
    <3>4. climber'[c].pc = "rank" /\ climber'[c].cand = g
      BY <1>0, <3>1 DEF Climber
    <3>5. Ranking' = {c}
      BY <1>b, <3>3, <3>4 DEF Ranking, Only
    <3>6. /\ pool'.worst_idx = w /\ pool'.worst_score = pool.worst_score
          /\ pool'.best_score = pool.best_score
          /\ pool'.population[w].grid = g /\ pool'.population[w].score = ScoreOf[g]
          /\ pool'.population[w].brute = 0
          /\ \A i \in Entries \ {w} : pool'.population[i] = pool.population[i]
      BY <1>0, <3>1 DEF Population
    <3>7. ScoreOf[g] < pool.worst_score /\ \A i \in Entries : pool.population[i].grid # g
      BY <1>0, <2>2 DEF NotBetter, Known
    <3>8. \A i \in Entries : pool'.population[i].score <= pool'.worst_score
      BY <1>0, <3>6, <3>7 DEF PoolInv
    <3>9. \A i \in Entries :
              \/ pool'.population[i].score >= pool'.best_score
              \/ (Ranking' # {} /\ i = pool'.worst_idx)
      BY <3>3, <3>5, <3>6 DEF PoolInv
    <3>10. \A e \in Ranking' : pool'.population[pool'.worst_idx].score = ScoreOf[climber'[e].cand]
      BY <3>4, <3>5, <3>6
    <3>11. \A i \in added' : /\ pool'.population[i].score = ScoreOf[pool'.population[i].grid]
                             /\ \A j \in Entries \ {i} :
                                    pool'.population[j].grid # pool'.population[i].grid
      <4>1. ASSUME NEW i \in added', i # w
            PROVE  /\ pool'.population[i].score = ScoreOf[pool'.population[i].grid]
                   /\ \A j \in Entries \ {i} : pool'.population[j].grid # pool'.population[i].grid
        <5>1. i \in added /\ i \in Entries /\ pool'.population[i] = pool.population[i]
          BY <1>0, <3>1, <3>6, <4>1
        <5> QED BY <3>6, <3>7, <5>1 DEF PoolInv
      <4>2. /\ pool'.population[w].score = ScoreOf[pool'.population[w].grid]
            /\ \A j \in Entries \ {w} : pool'.population[j].grid # pool'.population[w].grid
        BY <3>6, <3>7
      <4> QED BY <4>1, <4>2
    <3>12. \A i \in Entries : pool'.population[i].brute = 1 => pool'.population[i].grid \in bruted'
      BY <1>b, <3>6 DEF PoolInv
    <3>13. Ranking' # {}
      BY <3>5
    <3> QED BY <3>8, <3>9, <3>10, <3>11, <3>12, <3>13 DEF PoolInv
  <2> QED BY <2>1, <2>2
<1>6. CASE Rank(c)
  <2> DEFINE new == ScoreOf[climber[c].cand]
             w == pool.worst_idx
  <2>1. PICK worst \in Nat, idx \in Entries :
            /\ \A i \in Entries : pool.population[i].score <= worst
            /\ worst <= pool.worst_score
            /\ pool.population[idx].score = worst
            /\ pool' = [pool EXCEPT
                   !.worst_idx = IF worst > 0 THEN idx ELSE @,
                   !.worst_score = worst,
                   !.best_score = IF new < @ THEN new ELSE @]
            /\ climber' = [climber EXCEPT ![c].pc = "release", ![c].then = "offer",
                                          ![c].local_worst = worst]
    BY <1>6, Ranks
  <2>2. climber[c].pc = "rank" /\ climber[c].held = MAXTHREADS /\ added' = added /\ bruted' = bruted
    BY <1>6 DEF Rank, At
  <2>3. c \in Ranking /\ Ranking \subseteq {c}
    BY <2>2, RankingAlone DEF Ranking
  <2>4. climber'[c].pc = "release"
    BY <1>0, <2>1 DEF Climber
  <2>5. Ranking' = {}
    BY <1>b, <2>3, <2>4 DEF Ranking, Only
  <2>6. /\ pool'.population = pool.population /\ pool'.worst_score = worst
        /\ pool'.worst_idx = IF worst > 0 THEN idx ELSE w
        /\ pool'.best_score = IF new < pool.best_score THEN new ELSE pool.best_score
    BY <1>0, <2>1 DEF Population
  <2>7. pool.population[w].score = new
    BY <2>3 DEF PoolInv
  <2>8. \A i \in Entries : pool.population[i].score \in Nat
    BY <1>0
  <2>9. pool'.population[pool'.worst_idx].score = pool'.worst_score
    <3>1. CASE worst > 0
      BY <2>1, <2>6, <3>1
    <3>2. CASE ~ (worst > 0)
      <4>1. worst = 0
        BY <3>2
      <4>2. pool.population[w].score <= 0 /\ pool.population[w].score \in Nat
        BY <1>0, <2>1, <2>8, <4>1
      <4>3. pool.population[w].score = 0
        BY <4>2
      <4> QED BY <2>6, <3>2, <4>1, <4>3
    <3> QED BY <3>1, <3>2
  <2>10. \A i \in Entries : pool'.population[i].score <= pool'.worst_score
    BY <2>1, <2>6
  <2>11. \A i \in Entries : pool'.population[i].score >= pool'.best_score
    <3>1. \A i \in Entries : pool.population[i].score >= pool.best_score \/ i = w
      BY DEF PoolInv
    <3>2. pool'.best_score \in Nat /\ pool'.best_score <= new /\ pool'.best_score <= pool.best_score
      BY <1>0, <2>6
    <3>3. \A i \in Entries : pool.population[i].score >= pool'.best_score
      BY <1>0, <2>7, <2>8, <3>1, <3>2
    <3> QED BY <2>6, <3>3
  <2>12. \A i \in added' : /\ pool'.population[i].score = ScoreOf[pool'.population[i].grid]
                           /\ \A j \in Entries \ {i} :
                                  pool'.population[j].grid # pool'.population[i].grid
    BY <2>2, <2>6 DEF PoolInv
  <2>13. \A i \in Entries : pool'.population[i].brute = 1 => pool'.population[i].grid \in bruted'
    BY <2>2, <2>6 DEF PoolInv
  <2> QED BY <2>5, <2>9, <2>10, <2>11, <2>12, <2>13 DEF PoolInv
<1>7. CASE Mark(c)
  <2> DEFINE rp == climber[c].rp
  <2>1. /\ climber[c].pc = "mark" /\ climber[c].held = MAXTHREADS /\ added' = added
        /\ bruted' = bruted /\ climber'[c].pc = "release" /\ rp \in Entries
        /\ climber[c].d.grid \in bruted
    BY <1>0, <1>a, <1>7 DEF Mark, At, Position, Climber
  <2>2. CASE pool.population[rp].grid # climber[c].d.grid
    <3>1. pool' = pool
      BY <1>7, <2>2 DEF Mark
    <3> QED BY <1>b, <2>1, <3>1, PoolFrame
  <2>3. CASE pool.population[rp].grid = climber[c].d.grid
    <3>1. pool' = [pool EXCEPT !.population[rp].brute = 1]
      BY <1>7, <2>3 DEF Mark
    <3>2. /\ pool'.worst_idx = pool.worst_idx /\ pool'.worst_score = pool.worst_score
          /\ pool'.best_score = pool.best_score
          /\ \A i \in Entries : /\ pool'.population[i].grid = pool.population[i].grid
                                /\ pool'.population[i].score = pool.population[i].score
                                /\ i # rp => pool'.population[i].brute = pool.population[i].brute
      BY <1>0, <2>1, <3>1 DEF Population
    <3>3. Ranking = {} /\ Ranking' = {}
      <4>1. Ranking = {}
        BY <2>1, RankingAlone DEF Ranking
      <4> QED BY <1>b, <2>1, <4>1 DEF Ranking, Only
    <3>4. pool'.population[pool'.worst_idx].score = pool'.worst_score
      BY <1>0, <3>2, <3>3 DEF PoolInv
    <3>5. \A i \in Entries : /\ pool'.population[i].score <= pool'.worst_score
                             /\ pool'.population[i].score >= pool'.best_score
      BY <3>2, <3>3 DEF PoolInv
    <3>6. \A i \in added' : /\ pool'.population[i].score = ScoreOf[pool'.population[i].grid]
                            /\ \A j \in Entries \ {i} :
                                   pool'.population[j].grid # pool'.population[i].grid
      BY <1>0, <2>1, <3>2 DEF PoolInv
    <3>7. \A i \in Entries : pool'.population[i].brute = 1 => pool'.population[i].grid \in bruted'
      BY <2>1, <2>3, <3>2 DEF PoolInv
    <3> QED BY <3>3, <3>4, <3>5, <3>6, <3>7 DEF PoolInv
  <2> QED BY <2>2, <2>3
<1> QED BY <1>1, <1>2, <1>3, <1>4, <1>5, <1>6, <1>7 DEF ActionOf

LEMMA SharedInit == ClimbInit => SharedInv
<1> SUFFICES ASSUME ClimbInit PROVE SharedInv
  OBVIOUS
<1> DEFINE first == [i \in Entries |-> [grid |-> StartGrids[i], score |-> StartScore, brute |-> 0]]
<1>0. /\ POP_SIZE \in Nat /\ POP_SIZE > 0 /\ MAXTHREADS \in Nat /\ MAXTHREADS > 0
      /\ StartScore \in Nat /\ MaxThreadid \in Nat
  BY Sizes
<1>1. first \in [Entries -> [grid : Grids, score : Nat, brute : {0, 1}]] /\ 0 \in Entries
  BY <1>0, ClimbPoolAssumption DEF Entries
<1>2. /\ pool.population = first /\ pool.worst_idx = 0 /\ pool.worst_score = StartScore
      /\ pool.best_score = StartScore
      /\ pool = [population |-> first, worst_idx |-> 0, worst_score |-> StartScore,
                 best_score |-> StartScore]
  BY DEF ClimbInit
<1>3. /\ sem = <<1, MAXTHREADS>> /\ threadid = 0 /\ bruted = {} /\ added = {}
      /\ \A c \in Climbers : climber[c] = Fresh
      /\ climber = [c \in Climbers |-> Fresh]
  BY DEF ClimbInit
<1> HIDE DEF first
<1>4. Fresh.pc = "none" /\ Fresh.held = -1 /\ Fresh \in Climber
  BY FreshTyped DEF Fresh
<1>5. sem[1] = 1 /\ sem[2] = MAXTHREADS /\ sem \in [1 .. 2 -> Nat]
  BY <1>0, <1>3
<1>6. ClimbTypeOK
  <2>1. pool \in Population
    BY <1>0, <1>1, <1>2 DEF Population
  <2>2. climber \in [Climbers -> Climber]
    BY <1>3, <1>4
  <2> QED BY <1>0, <1>3, <1>5, <2>1, <2>2 DEF ClimbTypeOK
<1>7. LockInv
  <2>1. Holders = {} /\ Reading = {}
    BY <1>3, <1>4 DEF Holders, Reading, Readers
  <2>2. Cardinality({}) = 0
    BY FS_EmptySet
  <2> QED BY <1>0, <1>5, <2>1, <2>2 DEF LockInv
<1>8. StepInv
  BY <1>3, <1>4 DEF StepInv, Position
<1>9. PoolInv
  <2>1. Ranking = {}
    BY <1>3, <1>4 DEF Ranking
  <2>2. \A i \in Entries : pool.population[i].score = StartScore /\ pool.population[i].brute = 0
    BY <1>2 DEF first
  <2> QED BY <1>0, <1>1, <1>2, <1>3, <2>1, <2>2 DEF PoolInv
<1> QED BY <1>6, <1>7, <1>8, <1>9 DEF SharedInv

(* A child begins as it was in the fork.                                   *)
LEMMA SpawnStep == SharedInv /\ Spawn => SharedInv'
<1> SUFFICES ASSUME SharedInv, Spawn PROVE SharedInv'
  OBVIOUS
<1> DEFINE c == threadid
<1>0. /\ MaxThreadid \in Nat /\ threadid \in 0 .. MaxThreadid + 1
      /\ climber \in [Climbers -> Climber]
  BY Sizes DEF SharedInv, ClimbTypeOK
<1>1. c \in Climbers
  BY DEF Spawn, MayFork
<1>2. PICK t \in Climbers : t = c
  BY <1>1
<1>3. /\ climber' = [climber EXCEPT ![t].pc = "choose"] /\ threadid' = t + 1
      /\ pool' = pool /\ sem' = sem /\ bruted' = bruted /\ added' = added
  BY <1>2 DEF Spawn
<1>4. climber[t] = Fresh /\ climber[t] \in Climber
  BY <1>0, <1>2 DEF SharedInv, StepInv, Position
<1>5. climber[t].pc = "none" /\ climber[t].held = -1
  BY <1>4 DEF Fresh
<1>6. climber'[t].pc = "choose" /\ climber'[t].held = -1 /\ Only(t)
  BY <1>0, <1>3, <1>5 DEF Only, Climber
<1>7. ClimbTypeOK'
  <2>1. climber' \in [Climbers -> Climber]
    <3>1. "choose" \in ClimberSteps
      BY DEF ClimberSteps
    <3> QED BY <1>0, <1>3, <1>4, <3>1 DEF Climber
  <2>2. t + 1 \in 0 .. MaxThreadid + 1
    BY <1>0, <1>2, <1>1 DEF Climbers
  <2> QED BY <1>3, <2>1, <2>2 DEF SharedInv, ClimbTypeOK
<1>8. LockInv'
  <2>1. Readers(t)' <=> Readers(t)
    BY <1>5, <1>6 DEF Readers
  <2>2. Reading' = Reading
    BY <1>6, <2>1, ReadersSame
  <2>3. climber'[t].held = climber[t].held
    BY <1>5, <1>6
  <2>4. /\ sem'[1] = sem[1] /\ sem'[2] \in Nat
        /\ sem'[2] + Cardinality(Reading') = sem[2] + Cardinality(Reading)
    BY <1>3, <2>2 DEF SharedInv, ClimbTypeOK
  <2> QED BY <1>6, <2>3, <2>4, ReaderStep DEF SharedInv
<1>9. StepInv'
  <2>1. \A e \in Climbers \ {t} : e >= t + 1 => e >= t
    BY <1>0, <1>2 DEF Climbers
  <2>2. \A e \in Climbers \ {t} : Position(e)'
    BY <1>2, <1>3, <1>6, <2>1 DEF SharedInv, StepInv, Position, Only
  <2>3. ~ (t >= t + 1) /\ ~ (climber'[t].held >= 0)
    BY <1>0, <1>2, <1>6
  <2>4. Position(t)'
    BY <1>3, <1>6, <2>3 DEF Position
  <2> QED BY <2>2, <2>4 DEF StepInv
<1>10. PoolInv'
  BY <1>3, <1>5, <1>6, PoolFrame DEF SharedInv
<1> QED BY <1>7, <1>8, <1>9, <1>10 DEF SharedInv

(* A fork that fails leaves only the next id.                              *)
LEMMA SpawnFailsStep == SharedInv /\ SpawnFails => SharedInv'
<1> SUFFICES ASSUME SharedInv, SpawnFails PROVE SharedInv'
  OBVIOUS
<1>1. /\ MaxThreadid \in Nat /\ threadid \in 0 .. MaxThreadid + 1
      /\ threadid' = threadid + 1 /\ threadid < MaxThreadid
      /\ UNCHANGED <<pool, sem, climber, bruted, added>>
  BY Sizes DEF SpawnFails, SharedInv, ClimbTypeOK
<1>2. threadid' \in 0 .. MaxThreadid + 1
  BY <1>1
<1>3. ClimbTypeOK'
  BY <1>1, <1>2 DEF SharedInv, ClimbTypeOK
<1>4. LockInv'
  BY <1>1, LockFrame DEF SharedInv, Readers
<1>5. StepInv'
  <2>1. \A e \in Climbers : e >= threadid' => e >= threadid
    BY <1>1 DEF Climbers
  <2> QED BY <1>1, <2>1 DEF SharedInv, StepInv, Position
<1>6. PoolInv'
  BY <1>1 DEF SharedInv, PoolInv, Ranking
<1> QED BY <1>3, <1>4, <1>5, <1>6 DEF SharedInv

LEMMA SharedStep == SharedInv /\ ClimbNext => SharedInv'
<1>1. ASSUME SharedInv, NEW c \in Climbers, ActionOf(c) PROVE SharedInv'
  BY <1>1, TypeStep, LockStep, StepStep, PoolStep DEF SharedInv
<1> QED BY <1>1, SpawnStep, SpawnFailsStep DEF ClimbNext, ActionOf

(* With every place of the lock no other climber is in the section or reads. *)
LEMMA SectionAlone ==
    ASSUME ClimbTypeOK, LockInv, NEW c \in Climbers, InSection(c)
    PROVE  \A e \in Climbers \ {c} : ~ InSection(e) /\ ~ Readers(e)
<1>0. /\ MAXTHREADS \in Nat /\ MAXTHREADS > 0 /\ climber[c].held = MAXTHREADS
      /\ sem[2] \in Nat /\ Cardinality(Reading) \in Nat
  BY Sizes, ReadersFinite DEF InSection, ClimbTypeOK
<1>1. c \in Holders
  BY <1>0 DEF Holders
<1>2. \A e \in Climbers : InSection(e) => e \in Holders
  BY <1>0 DEF Holders, InSection
<1>3. \A e \in Climbers \ {c} : ~ InSection(e)
  BY <1>1, <1>2 DEF LockInv
<1>4. sem[2] + Cardinality(Reading) + MAXTHREADS = MAXTHREADS
  BY <1>0, <1>1 DEF LockInv, PlacesOf
<1>5. Cardinality(Reading) = 0
  BY <1>0, <1>4
<1>6. Reading = {}
  BY <1>5, ReadersFinite, FS_EmptySet
<1> QED BY <1>3, <1>6 DEF Reading

LEMMA SharedIsSound == SharedInv => SharedPopulationIsSound
<1> SUFFICES ASSUME SharedInv PROVE SharedPopulationIsSound
  OBVIOUS
<1>1. \A c, e \in Climbers : InSection(c) /\ e # c => ~ InSection(e) /\ ~ Readers(e)
  BY SectionAlone DEF SharedInv
<1>2. ASSUME \A c \in Climbers : climber[c].pc # "rank"
      PROVE  /\ pool.population[pool.worst_idx].score = pool.worst_score
             /\ \A i \in Entries : pool.population[i].score \in pool.best_score .. pool.worst_score
  <2>1. Ranking = {}
    BY <1>2 DEF Ranking
  <2>2. /\ pool.best_score \in Nat /\ pool.worst_score \in Nat
        /\ \A i \in Entries : pool.population[i].score \in Nat
    BY DEF SharedInv, ClimbTypeOK, Population
  <2>3. \A i \in Entries : /\ pool.population[i].score <= pool.worst_score
                           /\ pool.population[i].score >= pool.best_score
    BY <2>1 DEF SharedInv, PoolInv
  <2>4. pool.population[pool.worst_idx].score = pool.worst_score
    BY <2>1 DEF SharedInv, PoolInv
  <2> QED BY <2>2, <2>3, <2>4
<1>3. \A i \in added : /\ pool.population[i].score = ScoreOf[pool.population[i].grid]
                       /\ \A j \in Entries \ {i} :
                              pool.population[j].grid # pool.population[i].grid
  BY DEF SharedInv, PoolInv
<1>4. \A i \in Entries : pool.population[i].brute = 1 => pool.population[i].grid \in bruted
  BY DEF SharedInv, PoolInv
<1> QED BY <1>1, <1>2, <1>3, <1>4 DEF SharedPopulationIsSound

-----------------------------------------------------------------------------
(* The process that climbs alone. *)

LEMMA OwnSizes == /\ OWN_POP_SIZE \in Nat /\ OWN_POP_SIZE > 0 /\ CLOSESCORE \in Nat
                  /\ OwnStart \in OwnGrids
                  /\ OwnScoreOf[OwnStart] \in Nat /\ OwnScoreOf[OwnStart] > 0
                  /\ 0 \in OwnEntries /\ OwnEntries \in SUBSET Nat
                  /\ \A g \in OwnGrids : OwnScoreOf[g] \in Nat
  BY ClimbAloneAssumption DEF OwnEntries

LEMMA OwnStarts == OwnInit => OwnInv
<1> SUFFICES ASSUME OwnInit PROVE OwnInv
  OBVIOUS
<1>0. /\ OwnStart \in OwnGrids /\ OwnScoreOf[OwnStart] \in Nat /\ OwnScoreOf[OwnStart] > 0
      /\ 0 \in OwnEntries
  BY OwnSizes
<1>1. /\ own.population = [i \in OwnEntries |-> OwnStart]
      /\ own.score = [i \in OwnEntries |-> OwnScoreOf[OwnStart]]
      /\ own.worst_idx = 0 /\ own.worst_score = OwnScoreOf[OwnStart]
      /\ own.best_score = OwnScoreOf[OwnStart] /\ own.pop_tree = {OwnStart}
      /\ own.am_close = FALSE /\ own.replaced = {} /\ own.found = {}
  BY DEF OwnInit
<1>2. own \in OwnPopulation
  BY <1>0 DEF OwnInit, OwnPopulation
<1> QED BY <1>0, <1>1, <1>2 DEF OwnInv

(* What worst_pop_score does when all the scores are bounded.              *)
LEMMA OwnRanks ==
    ASSUME NEW state \in OwnPopulation, \A i \in OwnEntries : state.score[i] <= state.worst_score
    PROVE  \E worst \in Nat, idx \in OwnEntries :
               /\ \A i \in OwnEntries : state.score[i] <= worst
               /\ worst <= state.worst_score
               /\ state.score[idx] = worst
               /\ worst_pop_score(state) =
                      [state EXCEPT !.worst_idx = IF worst > 0 THEN idx ELSE @,
                                    !.worst_score = worst]
<1> DEFINE scores == {state.score[i] : i \in OwnEntries}
           worst == CHOOSE s \in scores : \A i \in OwnEntries : state.score[i] <= s
           idx == CHOOSE i \in OwnEntries :
                      state.score[i] = worst /\ \A j \in 0 .. i - 1 : state.score[j] < worst
           lowered == IF worst < state.worst_score THEN worst ELSE state.worst_score
<1>1. PICK score : score = state.score
  OBVIOUS
<1>2. score \in [OwnEntries -> Nat] /\ state.worst_score \in Nat
  BY <1>1 DEF OwnPopulation
<1>e. OwnEntries # {} /\ OwnEntries \in SUBSET Nat
  BY OwnSizes
<1>b. \A i \in OwnEntries : score[i] <= state.worst_score
  BY <1>1
<1>3. PICK w \in OwnEntries : /\ score[w] <= state.worst_score
                              /\ \A j \in OwnEntries : /\ score[j] <= score[w]
                                                       /\ score[j] = score[w] => w <= j
  BY <1>2, <1>b, <1>e, WorstExists
<1>4. \E s \in scores : \A i \in OwnEntries : state.score[i] <= s
  BY <1>1, <1>3
<1>5. worst \in scores /\ \A i \in OwnEntries : state.score[i] <= worst
  BY <1>4
<1> HIDE DEF worst
<1>6. worst \in Nat /\ worst = score[w]
  <2>1. score[w] \in Nat /\ worst \in Nat
    BY <1>1, <1>2, <1>5
  <2>2. score[w] <= worst
    BY <1>1, <1>5
  <2>3. worst <= score[w]
    BY <1>1, <1>3, <1>5
  <2> QED BY <2>1, <2>2, <2>3
<1>7. \E i \in OwnEntries : state.score[i] = worst /\ \A j \in 0 .. i - 1 : state.score[j] < worst
  <2>1. ASSUME NEW j \in 0 .. w - 1 PROVE score[j] < worst
    <3>1. j \in OwnEntries /\ ~ (w <= j)
      BY OwnSizes DEF OwnEntries
    <3>2. score[j] <= score[w] /\ score[j] # score[w] /\ score[j] \in Nat
      BY <1>2, <1>3, <3>1
    <3> QED BY <1>6, <3>2
  <2> QED BY <1>1, <1>6, <2>1
<1>8. idx \in OwnEntries /\ state.score[idx] = worst
  BY <1>7
<1>9. lowered = worst
  BY <1>2, <1>3, <1>6
<1>10. worst_pop_score(state) =
           [state EXCEPT !.worst_idx = IF worst > 0 THEN idx ELSE @, !.worst_score = lowered]
  BY DEF worst_pop_score, worst
<1> HIDE DEF idx, lowered, scores
<1> QED BY <1>3, <1>5, <1>6, <1>8, <1>9, <1>10

(* Entry worst_idx is replaced by g, and idx becomes the worst.            *)
NewScore(g) == [own.score EXCEPT ![own.worst_idx] = OwnScoreOf[g]]
Replaced(g, worst, idx) ==
    [population  |-> [own.population EXCEPT ![own.worst_idx] = g],
     score       |-> NewScore(g),
     worst_idx   |-> IF worst > 0 THEN idx ELSE own.worst_idx,
     worst_score |-> worst,
     best_score  |-> IF OwnScoreOf[g] < own.best_score THEN OwnScoreOf[g] ELSE own.best_score,
     pop_tree    |-> (own.pop_tree \cup {g}) \ {own.population[own.worst_idx]},
     am_close    |-> Close(own),
     replaced    |-> own.replaced \cup {own.worst_idx},
     found       |-> IF OwnScoreOf[g] = 0 THEN own.found \cup {g} ELSE own.found]
Replaces(g) ==
    \E worst \in Nat, idx \in OwnEntries :
        /\ \A j \in OwnEntries : NewScore(g)[j] <= worst
        /\ worst <= own.worst_score
        /\ NewScore(g)[idx] = worst
        /\ own' = Replaced(g, worst, idx)

LEMMA MutateReplaces ==
    ASSUME OwnInv, NEW g \in OwnGrids, Mutate(g), OwnScoreOf[g] < own.worst_score,
           g \notin own.pop_tree
    PROVE  Replaces(g)
<1> DEFINE tried   == [own EXCEPT !.found = IF OwnScoreOf[g] = 0 THEN @ \cup {g} ELSE @]
           offered == add_pop(g, tried)
<1>0. /\ own \in OwnPopulation /\ OwnScoreOf[g] \in Nat
      /\ own.worst_idx \in OwnEntries /\ own.worst_score \in Nat
      /\ own.score \in [OwnEntries -> Nat] /\ own.population \in [OwnEntries -> OwnGrids]
  BY OwnSizes DEF OwnInv, OwnPopulation
<1>1. own' = [worst_pop_score(offered) EXCEPT
                 !.am_close = Close(own),
                 !.best_score = IF OwnScoreOf[g] < @ THEN OwnScoreOf[g] ELSE @]
  <2>1. ~ (OwnScoreOf[g] >= own.worst_score)
    BY <1>0
  <2> QED BY <2>1 DEF Mutate
<1> DEFINE i == own.worst_idx
           score == [own.score EXCEPT ![i] = OwnScoreOf[g]]
           found == IF OwnScoreOf[g] = 0 THEN own.found \cup {g} ELSE own.found
           second == [population  |-> [own.population EXCEPT ![i] = g],
                      score       |-> score,
                      worst_idx   |-> i,
                      worst_score |-> own.worst_score,
                      best_score  |-> own.best_score,
                      pop_tree    |-> (own.pop_tree \cup {g}) \ {own.population[i]},
                      am_close    |-> own.am_close,
                      replaced    |-> own.replaced \cup {i},
                      found       |-> found]
<1>2. tried = [population  |-> own.population,
                 score       |-> own.score,
                 worst_idx   |-> i,
                 worst_score |-> own.worst_score,
                 best_score  |-> own.best_score,
                 pop_tree    |-> own.pop_tree,
                 am_close    |-> own.am_close,
                 replaced    |-> own.replaced,
                 found       |-> found]
  BY <1>0 DEF OwnPopulation
<1> HIDE DEF tried
<1>3. offered = second
  <2>2. PICK worst_idx : worst_idx = own.worst_idx
    OBVIOUS
  <2>3. PICK score1 : score1 = OwnScoreOf[g]
    OBVIOUS
  <2>4. /\ tried.population = own.population /\ tried.score = own.score
        /\ tried.worst_idx = worst_idx /\ tried.replaced = own.replaced
        /\ tried.pop_tree = own.pop_tree
    BY <1>2, <2>2
  <2> HIDE DEF found
  <2>5. offered = [tried EXCEPT !.pop_tree = (own.pop_tree \cup {g}) \ {own.population[worst_idx]},
                                 !.population = [own.population EXCEPT ![worst_idx] = g],
                                 !.score = [own.score EXCEPT ![worst_idx] = score1],
                                 !.replaced = own.replaced \cup {worst_idx}]
    BY <1>2, <2>2, <2>3, <2>4 DEF add_pop
  <2> QED BY <1>2, <2>2, <2>3, <2>5
<1> HIDE DEF offered
<1>4. /\ score \in [OwnEntries -> Nat]
      /\ [own.population EXCEPT ![i] = g] \in [OwnEntries -> OwnGrids]
  BY <1>0
<1>5. second \in OwnPopulation
  <2>1. found \in SUBSET OwnGrids
    BY <1>0 DEF OwnPopulation
  <2>2. /\ (own.pop_tree \cup {g}) \ {own.population[i]} \in SUBSET OwnGrids
        /\ own.replaced \cup {i} \in SUBSET OwnEntries
        /\ own.am_close \in BOOLEAN /\ own.best_score \in Nat
    BY <1>0 DEF OwnPopulation
  <2> HIDE DEF found, score
  <2> QED BY <1>0, <1>4, <2>1, <2>2 DEF OwnPopulation
<1>6. second.worst_score = own.worst_score /\ second.score = score
  OBVIOUS
<1>7. \A j \in OwnEntries : score[j] <= own.worst_score
  <2>1. \A j \in OwnEntries : own.score[j] <= own.worst_score
    BY DEF OwnInv
  <2> QED BY <1>0, <2>1
<1> HIDE DEF score, found
<1>8. PICK worst \in Nat, idx \in OwnEntries :
          /\ \A j \in OwnEntries : score[j] <= worst
          /\ worst <= own.worst_score
          /\ score[idx] = worst
          /\ worst_pop_score(second) = [second EXCEPT !.worst_idx = IF worst > 0 THEN idx ELSE @,
                                                      !.worst_score = worst]
  <2> HIDE DEF second
  <2>1. \A j \in OwnEntries : second.score[j] <= second.worst_score
    BY <1>6, <1>7
  <2> QED BY <1>5, <1>6, <2>1, OwnRanks
<1>9. own' = Replaced(g, worst, idx)
  <2>1. PICK population : population = [own.population EXCEPT ![i] = g]
    OBVIOUS
  <2>2. PICK tree : tree = (own.pop_tree \cup {g}) \ {own.population[i]}
    OBVIOUS
  <2>3. worst_pop_score(offered) =
            [population |-> population, score |-> score, worst_idx |-> IF worst > 0 THEN idx ELSE i,
             worst_score |-> worst, best_score |-> own.best_score, pop_tree |-> tree,
             am_close |-> own.am_close, replaced |-> own.replaced \cup {i}, found |-> found]
    <3>1. PICK close, replaced : close = own.am_close /\ replaced = own.replaced \cup {i}
      OBVIOUS
    <3>2. PICK fnd : fnd = found
      OBVIOUS
    <3>3. PICK m, w, b : m = i /\ w = own.worst_score /\ b = own.best_score
      OBVIOUS
    <3>4. second = [population |-> population, score |-> score, worst_idx |-> m,
                    worst_score |-> w, best_score |-> b, pop_tree |-> tree,
                    am_close |-> close, replaced |-> replaced, found |-> fnd]
      BY <2>1, <2>2, <3>1, <3>2, <3>3
    <3>5. PICK s : s = second
      OBVIOUS
    <3>6. s = [population |-> population, score |-> score, worst_idx |-> m,
               worst_score |-> w, best_score |-> b, pop_tree |-> tree,
               am_close |-> close, replaced |-> replaced, found |-> fnd]
      BY <3>4, <3>5
    <3>7. PICK f : f = IF worst > 0 THEN idx ELSE m
      OBVIOUS
    <3>8. worst_pop_score(offered) = [s EXCEPT !.worst_idx = f, !.worst_score = worst]
      <4>1. second.worst_idx = m
        BY <3>3
      <4>2. worst_pop_score(second) = [second EXCEPT !.worst_idx = IF worst > 0 THEN idx ELSE @,
                                                     !.worst_score = worst]
        BY <1>8
      <4> HIDE DEF second
      <4>3. worst_pop_score(second) = [second EXCEPT !.worst_idx = f, !.worst_score = worst]
        BY <3>7, <4>1, <4>2
      <4> QED BY <1>3, <3>5, <4>3
    <3>9. [s EXCEPT !.worst_idx = f, !.worst_score = worst]
            = [population |-> population, score |-> score, worst_idx |-> f,
               worst_score |-> worst, best_score |-> b, pop_tree |-> tree,
               am_close |-> close, replaced |-> replaced, found |-> fnd]
      <4>1. PICK s1 : s1 = [s EXCEPT !.worst_idx = f]
        OBVIOUS
      <4>2. s1 = [population |-> population, score |-> score, worst_idx |-> f,
                  worst_score |-> w, best_score |-> b, pop_tree |-> tree,
                  am_close |-> close, replaced |-> replaced, found |-> fnd]
        BY ONLY <3>6, <4>1
      <4>3. [s1 EXCEPT !.worst_score = worst]
                = [population |-> population, score |-> score, worst_idx |-> f,
                   worst_score |-> worst, best_score |-> b, pop_tree |-> tree,
                   am_close |-> close, replaced |-> replaced, found |-> fnd]
        BY ONLY <4>2
      <4> QED BY ONLY <4>1, <4>3
    <3> HIDE DEF second
    <3> QED BY <3>1, <3>2, <3>3, <3>7, <3>8, <3>9
  <2> HIDE DEF second
  <2>4. PICK first : first = IF worst > 0 THEN idx ELSE i
    OBVIOUS
  <2>5. PICK close : close = Close(own)
    OBVIOUS
  <2>6. PICK best :
            best = IF OwnScoreOf[g] < own.best_score THEN OwnScoreOf[g] ELSE own.best_score
    OBVIOUS
  <2>7. PICK scored : scored = worst_pop_score(offered)
    OBVIOUS
  <2>8. scored = [population |-> population, score |-> score, worst_idx |-> first,
                  worst_score |-> worst, best_score |-> own.best_score, pop_tree |-> tree,
                  am_close |-> own.am_close, replaced |-> own.replaced \cup {i}, found |-> found]
    BY <2>3, <2>4, <2>7
  <2>9. own' = [scored EXCEPT !.am_close = close, !.best_score = best]
    <3>1. scored.best_score = own.best_score
      BY <2>8
    <3> QED BY <1>1, <2>5, <2>6, <2>7, <3>1
  <2>10. own' = [population |-> population, score |-> score, worst_idx |-> first,
                 worst_score |-> worst, best_score |-> best, pop_tree |-> tree,
                 am_close |-> close, replaced |-> own.replaced \cup {i}, found |-> found]
    BY <2>8, <2>9
  <2>11. score = NewScore(g)
    BY DEF score, NewScore
  <2>12. found = IF OwnScoreOf[g] = 0 THEN own.found \cup {g} ELSE own.found
    BY DEF found
  <2> QED BY <2>1, <2>2, <2>4, <2>5, <2>6, <2>10, <2>11, <2>12 DEF Replaced
<1>10. /\ \A j \in OwnEntries : NewScore(g)[j] <= worst
       /\ NewScore(g)[idx] = worst
       /\ worst <= own.worst_score
  BY <1>8 DEF score, NewScore
<1> HIDE DEF second
<1> QED BY <1>9, <1>10 DEF Replaces

LEMMA MutatePrints ==
    ASSUME OwnInv, NEW g \in OwnGrids, Mutate(g),
           OwnScoreOf[g] >= own.worst_score \/ g \in own.pop_tree
    PROVE  OwnInv'
<1> DEFINE found == IF OwnScoreOf[g] = 0 THEN own.found \cup {g} ELSE own.found
<1>0. /\ own \in OwnPopulation /\ OwnScoreOf[g] \in Nat /\ own.worst_score \in Nat
  BY OwnSizes DEF OwnInv, OwnPopulation
<1>1. own' = [own EXCEPT !.found = found]
  BY DEF Mutate
<1>2. found \in SUBSET OwnGrids
  BY <1>0 DEF OwnPopulation
<1>3. \A h \in found : OwnScoreOf[h] = 0
  BY DEF OwnInv
<1>4. own.worst_score > 0 => found \subseteq {own.population[i] : i \in own.replaced}
  <2> SUFFICES ASSUME own.worst_score > 0, OwnScoreOf[g] = 0
               PROVE  g \in {own.population[i] : i \in own.replaced}
    BY DEF OwnInv
  <2>1. g \in own.pop_tree
    BY <1>0
  <2>2. own.replaced # {}
    BY <2>1, OwnSizes DEF OwnInv
  <2> QED BY <2>1, <2>2 DEF OwnInv
<1> HIDE DEF found
<1>5. /\ own' \in OwnPopulation /\ own'.found = found
      /\ own'.population = own.population /\ own'.score = own.score
      /\ own'.worst_idx = own.worst_idx /\ own'.worst_score = own.worst_score
      /\ own'.best_score = own.best_score /\ own'.pop_tree = own.pop_tree
      /\ own'.am_close = own.am_close /\ own'.replaced = own.replaced
  BY <1>0, <1>1, <1>2 DEF OwnPopulation
<1> QED BY <1>3, <1>4, <1>5 DEF OwnInv

LEMMA ReplacesKeeps ==
    ASSUME OwnInv, NEW g \in OwnGrids, Replaces(g), OwnScoreOf[g] < own.worst_score,
           g \notin own.pop_tree
    PROVE  OwnInv'
<1>0. /\ own \in OwnPopulation /\ OwnScoreOf[g] \in Nat
      /\ own.worst_idx \in OwnEntries /\ own.worst_score \in Nat /\ own.best_score \in Nat
      /\ own.score \in [OwnEntries -> Nat] /\ own.population \in [OwnEntries -> OwnGrids]
      /\ own.replaced \subseteq OwnEntries /\ own.found \subseteq OwnGrids
      /\ own.pop_tree \subseteq OwnGrids /\ own.am_close \in BOOLEAN
      /\ OwnScoreOf[OwnStart] \in Nat /\ OwnScoreOf[OwnStart] > 0 /\ CLOSESCORE \in Nat
  BY OwnSizes DEF OwnInv, OwnPopulation
<1>1. PICK i \in OwnEntries : i = own.worst_idx
  BY <1>0
<1>2. PICK worst \in Nat, idx \in OwnEntries :
          /\ \A j \in OwnEntries : NewScore(g)[j] <= worst
          /\ worst <= own.worst_score
          /\ NewScore(g)[idx] = worst
          /\ own' = Replaced(g, worst, idx)
  BY DEF Replaces
<1>3. /\ own'.population = [own.population EXCEPT ![i] = g]
      /\ own'.score = [own.score EXCEPT ![i] = OwnScoreOf[g]]
      /\ own'.worst_idx = IF worst > 0 THEN idx ELSE i
      /\ own'.worst_score = worst
      /\ own'.best_score = IF OwnScoreOf[g] < own.best_score THEN OwnScoreOf[g] ELSE own.best_score
      /\ own'.pop_tree = (own.pop_tree \cup {g}) \ {own.population[i]}
      /\ own'.replaced = own.replaced \cup {i}
      /\ own'.found = IF OwnScoreOf[g] = 0 THEN own.found \cup {g} ELSE own.found
  BY <1>1, <1>2 DEF Replaced, NewScore
<1>3a. own'.am_close = Close(own)
  BY <1>2 DEF Replaced
<1>4. /\ own'.population[i] = g /\ own'.score[i] = OwnScoreOf[g]
      /\ \A j \in OwnEntries \ {i} : /\ own'.population[j] = own.population[j]
                                     /\ own'.score[j] = own.score[j]
      /\ \A j \in OwnEntries : own'.score[j] \in Nat
      /\ \A j \in OwnEntries : own'.score[j] <= worst
      /\ own'.score[idx] = worst
  BY <1>0, <1>1, <1>2, <1>3 DEF NewScore
(* What was said of the population before. *)
<1>5. /\ \A j \in OwnEntries : /\ own.score[j] = OwnScoreOf[own.population[j]]
                               /\ own.best_score <= own.score[j] /\ own.score[j] <= own.worst_score
      /\ own.score[i] = own.worst_score
      /\ own.worst_score <= OwnScoreOf[OwnStart]
      /\ \A j \in OwnEntries \ own.replaced : own.population[j] = OwnStart
      /\ \A j \in own.replaced : OwnScoreOf[own.population[j]] < OwnScoreOf[OwnStart]
      /\ \A j, k \in own.replaced : own.population[j] = own.population[k] => j = k
  BY <1>1 DEF OwnInv
<1>6. own.pop_tree = IF own.replaced = {} THEN {OwnStart}
                     ELSE {own.population[j] : j \in own.replaced}
  BY DEF OwnInv
<1>7. own' \in OwnPopulation
  <2>1. /\ [own.population EXCEPT ![i] = g] \in [OwnEntries -> OwnGrids]
        /\ [own.score EXCEPT ![i] = OwnScoreOf[g]] \in [OwnEntries -> Nat]
    BY <1>0
  <2>2. /\ (IF worst > 0 THEN idx ELSE i) \in OwnEntries
        /\ (IF OwnScoreOf[g] < own.best_score THEN OwnScoreOf[g] ELSE own.best_score) \in Nat
        /\ (own.pop_tree \cup {g}) \ {own.population[i]} \in SUBSET OwnGrids
        /\ own.replaced \cup {i} \in SUBSET OwnEntries
        /\ (IF OwnScoreOf[g] = 0 THEN own.found \cup {g} ELSE own.found) \in SUBSET OwnGrids
    BY <1>0
  <2>3. Close(own) \in BOOLEAN
    BY <1>0 DEF Close
  <2> QED BY <1>1, <1>2, <2>1, <2>2, <2>3 DEF OwnPopulation, Replaced, NewScore
<1>8. \A j \in OwnEntries : /\ own'.score[j] = OwnScoreOf[own'.population[j]]
                            /\ own'.best_score <= own'.score[j] /\ own'.score[j] <= own'.worst_score
  <2>1. /\ own'.best_score <= OwnScoreOf[g] /\ own'.best_score <= own.best_score
        /\ own'.best_score \in Nat
    BY <1>0, <1>3
  <2>2. \A j \in OwnEntries : own'.score[j] = OwnScoreOf[own'.population[j]]
    BY <1>4, <1>5
  <2>3. \A j \in OwnEntries \ {i} : own'.best_score <= own'.score[j]
    BY <1>0, <1>4, <1>5, <2>1
  <2>4. \A j \in OwnEntries : own'.best_score <= own'.score[j]
    BY <1>4, <2>1, <2>3
  <2> QED BY <1>3, <1>4, <2>2, <2>4
<1>9. own'.score[own'.worst_idx] = own'.worst_score
  <2>1. CASE worst > 0
    BY <1>3, <1>4, <2>1
  <2>2. CASE ~ (worst > 0)
    <3>1. worst = 0
      BY <2>2
    <3>2. own'.score[i] = 0
      BY <1>4, <3>1
    <3> QED BY <1>3, <2>2, <3>1, <3>2
  <2> QED BY <2>1, <2>2
<1>10. own'.worst_score <= OwnScoreOf[OwnStart]
  BY <1>0, <1>2, <1>3, <1>5
<1>11. \A j \in OwnEntries \ own'.replaced : own'.population[j] = OwnStart
  BY <1>3, <1>4, <1>5
<1>12. OwnScoreOf[g] < OwnScoreOf[OwnStart]
  BY <1>0, <1>5
<1>13. \A j \in own'.replaced : OwnScoreOf[own'.population[j]] < OwnScoreOf[OwnStart]
  BY <1>0, <1>3, <1>4, <1>5, <1>12
<1>14. \A j \in own.replaced : own.population[j] # g
  BY <1>6
<1>15. \A j, k \in own'.replaced : own'.population[j] = own'.population[k] => j = k
  <2>1. \A j \in own'.replaced : j = i \/ (j # i /\ j \in own.replaced /\ j \in OwnEntries)
    BY <1>0, <1>3
  <2> QED BY <1>4, <1>5, <1>14, <2>1
<1>16. own'.pop_tree = {own'.population[j] : j \in own'.replaced}
  <2>1. {own'.population[j] : j \in own'.replaced}
            = {g} \cup {own.population[j] : j \in own.replaced \ {i}}
    BY <1>0, <1>3, <1>4
  <2>2. CASE own.replaced = {}
    <3>1. own.population[i] = OwnStart /\ own.pop_tree = {OwnStart}
      BY <1>5, <1>6, <2>2
    <3>2. g # OwnStart
      BY <3>1
    <3>3. own'.pop_tree = {g}
      BY <1>3, <3>1, <3>2
    <3>4. {own.population[j] : j \in own.replaced \ {i}} = {}
      BY <2>2
    <3> QED BY <2>1, <3>3, <3>4
  <2>3. CASE own.replaced # {}
    <3>1. own.pop_tree = {own.population[j] : j \in own.replaced}
      BY <1>6, <2>3
    <3>2. own.population[i] # g
      BY <1>0, <1>5, <1>14
    <3>3. \A j \in own.replaced \ {i} : own.population[j] # own.population[i]
      <4>1. CASE i \in own.replaced
        BY <1>5, <4>1
      <4>2. CASE i \notin own.replaced
        <5>1. own.population[i] = OwnStart
          BY <1>5, <4>2
        <5>2. \A j \in own.replaced : OwnScoreOf[own.population[j]] \in Nat
          BY <1>0, OwnSizes
        <5> QED BY <1>0, <1>5, <5>1, <5>2
      <4> QED BY <4>1, <4>2
    <3>4. ({own.population[j] : j \in own.replaced} \cup {g}) \ {own.population[i]}
              = {g} \cup {own.population[j] : j \in own.replaced \ {i}}
      BY <3>2, <3>3
    <3> QED BY <1>3, <2>1, <3>1, <3>4
  <2> QED BY <2>2, <2>3
<1>17. own'.replaced # {}
  BY <1>3
<1>18. own'.am_close => own'.worst_score < CLOSESCORE
  <2>1. Close(own) => own.worst_score < CLOSESCORE
    BY DEF Close, OwnInv
  <2> QED BY <1>0, <1>2, <1>3, <1>3a, <2>1
<1>19. \A h \in own'.found : OwnScoreOf[h] = 0
  BY <1>3 DEF OwnInv
<1>20. own'.worst_score > 0 => own'.found \subseteq {own'.population[j] : j \in own'.replaced}
  <2> SUFFICES ASSUME worst > 0, NEW h \in own'.found
               PROVE  \E j \in own'.replaced : own'.population[j] = h
    BY <1>3
  <2>1. CASE h = g
    BY <1>3, <1>4, <2>1
  <2>2. CASE h # g
    <3>1. h \in own.found /\ OwnScoreOf[h] = 0
      BY <1>3, <2>2 DEF OwnInv
    <3>2. own.worst_score > 0
      BY <1>0, <1>2
    <3>3. PICK j \in own.replaced : own.population[j] = h
      BY <3>1, <3>2 DEF OwnInv
    <3>4. j # i
      BY <1>5, <3>1, <3>2, <3>3
    <3> QED BY <1>0, <1>3, <1>4, <3>3, <3>4
  <2> QED BY <2>1, <2>2
<1> QED BY <1>7, <1>8, <1>9, <1>10, <1>11, <1>13, <1>15, <1>16, <1>17, <1>18, <1>19, <1>20
       DEF OwnInv

LEMMA OwnStep == OwnInv /\ OwnNext => OwnInv'
<1> SUFFICES ASSUME OwnInv, NEW g \in OwnGrids, Mutate(g) PROVE OwnInv'
  BY DEF OwnNext
<1>1. OwnScoreOf[g] \in Nat /\ own.worst_score \in Nat
  BY OwnSizes DEF OwnInv, OwnPopulation
<1>2. CASE OwnScoreOf[g] >= own.worst_score \/ g \in own.pop_tree
  BY <1>2, MutatePrints
<1>3. CASE ~ (OwnScoreOf[g] >= own.worst_score \/ g \in own.pop_tree)
  <2>1. OwnScoreOf[g] < own.worst_score /\ g \notin own.pop_tree
    BY <1>1, <1>3
  <2> QED BY <2>1, MutateReplaces, ReplacesKeeps
<1> QED BY <1>2, <1>3

LEMMA OwnIsSound == OwnInv => OwnPopulationIsSound
<1> SUFFICES ASSUME OwnInv PROVE OwnPopulationIsSound
  OBVIOUS
<1> DEFINE grids == {own.population[i] : i \in own.replaced}
<1>0. /\ own.best_score \in Nat /\ own.worst_score \in Nat
      /\ \A i \in OwnEntries : own.score[i] \in Nat
      /\ own.replaced \subseteq OwnEntries
  BY DEF OwnInv, OwnPopulation
<1>1. Cardinality(grids) = Cardinality(own.replaced)
  <2> DEFINE f == [i \in own.replaced |-> own.population[i]]
  <2>1. IsFiniteSet(own.replaced)
    <3>1. IsFiniteSet(OwnEntries)
      BY FS_Interval, OwnSizes DEF OwnEntries
    <3> QED BY <1>0, <3>1, FS_Subset
  <2>2. f \in [own.replaced -> grids] /\ \A h \in grids : \E i \in own.replaced : f[i] = h
    OBVIOUS
  <2>3. \A i, j \in own.replaced : f[i] = f[j] => i = j
    BY DEF OwnInv
  <2> HIDE DEF f
  <2>4. f \in Bijection(own.replaced, grids)
    <3>1. f \in Injection(own.replaced, grids)
      BY <2>2, <2>3 DEF Injection, IsInjective
    <3>2. f \in Surjection(own.replaced, grids)
      BY <2>2 DEF Surjection
    <3> QED BY <3>1, <3>2 DEF Bijection
  <2>5. ExistsBijection(own.replaced, grids)
    BY <2>4 DEF ExistsBijection
  <2> QED BY <2>1, <2>5, FS_Bijection
<1>2. \A i \in OwnEntries : /\ own.score[i] = OwnScoreOf[own.population[i]]
                            /\ own.score[i] \in own.best_score .. own.worst_score
  BY <1>0 DEF OwnInv
<1>3. own.score[own.worst_idx] = own.worst_score
  BY DEF OwnInv
<1>4. own.replaced # {} => own.pop_tree = grids
  BY DEF OwnInv
<1>5. own.am_close => own.worst_score < CLOSESCORE
  BY DEF OwnInv
<1>6. own.worst_score > 0 => own.found \subseteq grids
  BY DEF OwnInv
<1> QED BY <1>1, <1>2, <1>3, <1>4, <1>5, <1>6 DEF OwnPopulationIsSound

-----------------------------------------------------------------------------
(* The two together. *)

LEMMA IInvInit == Init => IInv
<1>1. OwnInit => OwnInv
  BY OwnStarts
<1>2. ClimbInit => SharedInv
  BY SharedInit
<1> QED BY <1>1, <1>2 DEF Init, IInv

LEMMA SharedFrame == SharedInv /\ UNCHANGED climbVars => SharedInv'
<1> SUFFICES ASSUME SharedInv, UNCHANGED climbVars PROVE SharedInv'
  OBVIOUS
<1>1. /\ pool' = pool /\ sem' = sem /\ threadid' = threadid /\ climber' = climber
      /\ bruted' = bruted /\ added' = added
  BY DEF climbVars
<1>2. Holders' = Holders /\ Reading' = Reading /\ Ranking' = Ranking
  BY <1>1 DEF Holders, Reading, Readers, Ranking
<1>3. ClimbTypeOK'
  BY <1>1 DEF SharedInv, ClimbTypeOK
<1>4. LockInv'
  BY <1>1, <1>2 DEF SharedInv, LockInv, PlacesOf
<1>5. StepInv'
  BY <1>1 DEF SharedInv, StepInv, Position
<1>6. PoolInv'
  BY <1>1, <1>2 DEF SharedInv, PoolInv
<1> QED BY <1>3, <1>4, <1>5, <1>6 DEF SharedInv

LEMMA OwnFrame == OwnInv /\ own' = own => OwnInv'
  BY DEF OwnInv

LEMMA IInvStep == IInv /\ [Next]_vars => IInv'
<1> SUFFICES ASSUME IInv, [Next]_vars PROVE IInv'
  OBVIOUS
<1>1. CASE UNCHANGED climbVars /\ own' = own
  BY <1>1, SharedFrame, OwnFrame DEF IInv
<1>2. CASE ClimbNext /\ own = <<>> /\ own' = own
  BY <1>2, SharedStep DEF IInv
<1>3. CASE own # <<>> /\ OwnNext /\ UNCHANGED climbVars
  BY <1>3, SharedFrame, OwnStep DEF IInv
<1> QED BY <1>1, <1>2, <1>3 DEF Next, vars

(* The inductive invariant of the hill climbers.                           *)
THEOREM Invariance == Spec => []IInv
  BY IInvInit, IInvStep, PTL DEF Spec

(* Whatever the number of children and of entries, the population is sound: *)
(* a writer is alone with it, and outside of the sections the worst index  *)
(* and the best and worst scores are those of the entries, no grid comes   *)
(* twice and a mark is true; the process that climbs alone keeps the same, *)
(* and its tree holds just the grids of the entries it has replaced.       *)
THEOREM PopulationSafe == Spec => []PopulationIsSound
<1>1. IInv => PopulationIsSound
  BY SharedIsSound, OwnIsSound DEF IInv, PopulationIsSound
<1> QED BY <1>1, Invariance, PTL

-----------------------------------------------------------------------------
(* Sums over finite sets, as folds. *)
AddTo(c, x, y) == x + y
Term(c, i)      == c[i]
Anyone(S)        == CHOOSE x \in S : TRUE
NoneCounts(c, S, sum) == (\A i \in S : c[i] = 0) => sum = 0
Sums == INSTANCE Folding WITH
    Op <- AddTo, Map <- Term, Choose <- Anyone, Values <- Int, Inv <- NoneCounts

Total(f, S) == MapThenSumSet(LAMBDA i : f[i], S)

LEMMA TotalIsFold == ASSUME NEW f, NEW S PROVE Total(f, S) = Sums!Fold(f, 0, S)
  BY Zenon DEF Total, MapThenSumSet, MapThenFoldSet, Sums!Fold, Sums!MapThenFoldSet,
               AddTo, Term, Anyone

LEMMA AnyIsChosen == ASSUME NEW S PROVE Sums!Chooses(S)
  BY Zenon DEF Sums!Chooses, Anyone

LEMMA TotalOfNone == ASSUME NEW f PROVE Total(f, {}) = 0
<1>1. Sums!IsFiniteSet({})
  BY FS_EmptySet DEF IsFiniteSet, Sums!IsFiniteSet
<1>2. Sums!Fold(f, 0, {}) = 0
  BY <1>1, AnyIsChosen, Sums!FoldEquation
<1> QED BY <1>2, TotalIsFold

LEMMA TotalOfZeros ==
    ASSUME NEW S, IsFiniteSet(S), NEW f, \A i \in S : f[i] = 0
    PROVE  Total(f, S) = 0
<1>1. Sums!IsFiniteSet(S) /\ Sums!Chooses(S)
  BY AnyIsChosen DEF IsFiniteSet, Sums!IsFiniteSet
<1>2. NoneCounts(f, {}, 0)
  BY DEF NoneCounts
<1>3. ASSUME NEW T \in SUBSET S, NEW sum, T # {}, NoneCounts(f, T \ {Anyone(T)}, sum)
      PROVE  NoneCounts(f, T, AddTo(f, Term(f, Anyone(T)), sum))
  <2> SUFFICES ASSUME \A i \in T : f[i] = 0
               PROVE  AddTo(f, Term(f, Anyone(T)), sum) = 0
    BY DEF NoneCounts
  <2>1. sum = 0
    BY <1>3 DEF NoneCounts
  <2>2. f[Anyone(T)] = 0
    <3>1. Anyone(T) \in T
      BY <1>3, Zenon DEF Anyone
    <3> QED BY <3>1
  <2> QED BY <2>1, <2>2 DEF AddTo, Term
<1>4. NoneCounts(f, S, Sums!Fold(f, 0, S))
  BY <1>1, <1>2, <1>3, Sums!FoldInvariant
<1> QED BY <1>4, TotalIsFold DEF NoneCounts

(* Any of the terms may be added last.                                     *)
LEMMA TotalTakesOut ==
    ASSUME NEW S, IsFiniteSet(S), NEW f, \A i \in S : f[i] \in Int
    PROVE  /\ Total(f, S) \in Int
           /\ \A e \in S : Total(f, S) = f[e] + Total(f, S \ {e})
<1>1. Sums!IsFiniteSet(S) /\ Sums!Chooses(S)
  BY AnyIsChosen DEF IsFiniteSet, Sums!IsFiniteSet
<1>2. Sums!Collects(f, 0, S)
  BY DEF Sums!Collects, Term, AddTo
<1>3. /\ Sums!Fold(f, 0, S) \in Int
      /\ \A e \in S : Sums!Fold(f, 0, S) = AddTo(f, Term(f, e), Sums!Fold(f, 0, S \ {e}))
  BY <1>1, <1>2, Sums!FoldTakeOut
<1>4. /\ Total(f, S) \in Int
      /\ \A e \in S : Total(f, S) = AddTo(f, Term(f, e), Total(f, S \ {e}))
  BY <1>3, TotalIsFold
<1> QED BY <1>4 DEF AddTo, Term

LEMMA TotalOfSame ==
    ASSUME NEW S, IsFiniteSet(S), NEW f, NEW g, \A i \in S : f[i] \in Int /\ g[i] = f[i]
    PROVE  Total(f, S) = Total(g, S)
<1> DEFINE Off == {T \in SUBSET S : Total(f, T) # Total(g, T)}
<1>1. Off = {}
  <2> SUFFICES ASSUME Off # {} PROVE FALSE
    OBVIOUS
  <2>1. Off \in SUBSET (SUBSET S)
    OBVIOUS
  <2>2. PICK T \in Off : /\ Cardinality(T) \in Nat
                         /\ \A U \in Off : /\ Cardinality(U) \in Nat
                                           /\ Cardinality(T) <= Cardinality(U)
    <3> HIDE DEF Off
    <3>1. Sums!IsFiniteSet(S)
      BY DEF IsFiniteSet, Sums!IsFiniteSet
    <3> QED BY <2>1, <3>1, Sums!FewestElements DEF Sums!Cardinality, Cardinality
  <2>3. T \in SUBSET S /\ Total(f, T) # Total(g, T)
    OBVIOUS
  <2>4. IsFiniteSet(T)
    BY <2>3, FS_Subset
  <2>5. T # {}
    BY <2>3, TotalOfNone
  <2>6. PICK e \in T : TRUE
    BY <2>5
  <2>7. T \ {e} \in SUBSET S /\ Cardinality(T \ {e}) = Cardinality(T) - 1
    BY <2>3, <2>4, FS_RemoveElement
  <2>8. T \ {e} \notin Off
    <3> HIDE DEF Off
    <3> QED BY <2>2, <2>7
  <2>9. Total(f, T \ {e}) = Total(g, T \ {e})
    BY <2>7, <2>8
  <2>10. \A i \in T : f[i] \in Int /\ g[i] \in Int
    BY <2>3
  <2>11. Total(f, T) = f[e] + Total(f, T \ {e})
    BY <2>4, <2>10, TotalTakesOut
  <2>12. Total(g, T) = g[e] + Total(g, T \ {e})
    BY <2>4, <2>10, TotalTakesOut
  <2> QED BY <2>3, <2>9, <2>11, <2>12
<1> QED BY <1>1

(* One term changes.                                                       *)
LEMMA TotalWithChange ==
    ASSUME NEW S, IsFiniteSet(S), NEW f, NEW g, NEW e \in S,
           \A i \in S : f[i] \in Int /\ g[i] \in Int,
           \A i \in S \ {e} : g[i] = f[i]
    PROVE  Total(f, S) \in Int /\ Total(g, S) = Total(f, S) + g[e] - f[e]
<1>1. Total(f, S) \in Int /\ Total(f, S) = f[e] + Total(f, S \ {e})
  BY TotalTakesOut
<1>2. Total(g, S) \in Int /\ Total(g, S) = g[e] + Total(g, S \ {e})
  BY TotalTakesOut
<1>3. IsFiniteSet(S \ {e})
  BY FS_Subset
<1>4. Total(f, S \ {e}) = Total(g, S \ {e}) /\ Total(f, S \ {e}) \in Int
  BY <1>3, TotalOfSame, TotalTakesOut
<1> QED BY <1>1, <1>2, <1>4

-----------------------------------------------------------------------------
(* The remainder of a count that grows by 1.                               *)
LEMMA Division ==
    ASSUME NEW n \in Nat, NEW d \in Nat \ {0}
    PROVE  /\ n \div d \in Nat /\ n % d \in 0 .. d - 1
           /\ n = d * (n \div d) + (n % d)
  OBVIOUS

LEMMA RemainderIs ==
    ASSUME NEW n \in Nat, NEW k \in Nat \ {0}, NEW q \in Nat, NEW r \in Nat, r < k, n = k * q + r
    PROVE  n % k = r
  BY SMTT(60)

LEMMA NextRemainder ==
    ASSUME NEW n \in Nat, NEW k \in Nat \ {0}
    PROVE  /\ (n % k) + 1 < k => (n + 1) % k = (n % k) + 1
           /\ (n % k) + 1 >= k => (n + 1) % k = 0
<1> DEFINE q == n \div k
           r == n % k
<1>1. q \in Nat /\ r \in 0 .. k - 1 /\ n = k * q + r
  BY Division
<1> HIDE DEF q, r
<1>2. k * (q + 1) = k * q + k /\ k * q \in Nat /\ q + 1 \in Nat
  BY <1>1
<1>3. CASE r + 1 < k
  <2>1. n + 1 = k * q + (r + 1) /\ n + 1 \in Nat /\ r + 1 \in Nat
    BY <1>1, <1>2
  <2>2. (n + 1) % k = r + 1
    BY <1>1, <1>3, <2>1, RemainderIs
  <2> QED BY <1>1, <1>3, <2>2 DEF r
<1>4. CASE r + 1 >= k
  <2>1. n + 1 = k * (q + 1) + 0 /\ n + 1 \in Nat /\ 0 < k
    BY <1>1, <1>2, <1>4
  <2>2. (n + 1) % k = 0
    BY <1>2, <2>1, RemainderIs
  <2> QED BY <1>1, <1>4, <2>2 DEF r
<1> QED BY <1>1, <1>3, <1>4

-----------------------------------------------------------------------------
(* The grids of the jobs, and those printed and listed.                    *)
LEMMA Lengths ==
    ASSUME ForkTypeOK
    PROVE  /\ Len(jobs) \in Nat /\ DOMAIN jobs = 1 .. Len(jobs) /\ IsFiniteSet(DOMAIN jobs)
           /\ \A i \in DOMAIN jobs : /\ Len(jobs[i]) \in Nat /\ DOMAIN jobs[i] = 1 .. Len(jobs[i])
                                     /\ \A j \in DOMAIN jobs[i] : jobs[i][j].score \in Nat
<1>1. Len(jobs) \in Nat /\ DOMAIN jobs = 1 .. Len(jobs)
  BY DEF ForkTypeOK, AreJobs
<1>2. IsFiniteSet(DOMAIN jobs)
  BY <1>1, FS_Interval
<1> QED BY <1>1, <1>2 DEF ForkTypeOK, AreJobs

LEMMA SiteIs ==
    ASSUME ForkTypeOK
    PROVE  \A x : x \in Sites <=> \E i \in DOMAIN jobs : \E j \in DOMAIN jobs[i] : x = <<i, j>>
  BY DEF Sites

LEMMA SitesAre ==
    ASSUME ForkTypeOK
    PROVE  /\ \A x \in Sites : /\ x = <<x[1], x[2]>> /\ x[1] \in DOMAIN jobs
                               /\ x[2] \in DOMAIN jobs[x[1]] /\ x[2] \in Nat /\ x[2] > 0
           /\ \A i \in DOMAIN jobs : \A j \in DOMAIN jobs[i] : <<i, j>> \in Sites
<1>1. ASSUME NEW x \in Sites
      PROVE  /\ x = <<x[1], x[2]>> /\ x[1] \in DOMAIN jobs
             /\ x[2] \in DOMAIN jobs[x[1]] /\ x[2] \in Nat /\ x[2] > 0
  <2>0. PICK i \in DOMAIN jobs : \E j \in DOMAIN jobs[i] : x = <<i, j>>
    BY SiteIs
  <2>1. PICK j \in DOMAIN jobs[i] : x = <<i, j>>
    BY <2>0
  <2>2. j \in Nat /\ j > 0
    BY Lengths
  <2> QED BY <2>1, <2>2
<1>2. \A i \in DOMAIN jobs : \A j \in DOMAIN jobs[i] : <<i, j>> \in Sites
  BY SiteIs
<1> QED BY <1>1, <1>2

LEMMA SitesStay == jobs' = jobs => Sites' = Sites
  BY DEF Sites

LEMMA PrintedStays ==
    ASSUME ForkTypeOK, PrintedInv, jobs' = jobs, printed' = printed,
           \A j \in DOMAIN jobs : Through(child'[j]) = Through(child[j])
    PROVE  PrintedInv'
<1>1. \A x \in Sites : x[1] \in DOMAIN jobs
  BY SitesAre
<1>2. Sites' = Sites
  BY SitesStay
<1>3. PrintedInv' <=>
        printed' = {x \in Sites : x[2] <= Through(child'[x[1]]) /\ jobs[x[1]][x[2]].score = 0}
  BY <1>2 DEF PrintedInv, Through
<1> QED BY <1>1, <1>3 DEF PrintedInv

LEMMA PrintedGrows ==
    ASSUME ForkTypeOK, PrintedInv, jobs' = jobs, NEW i \in DOMAIN jobs,
           \A j \in DOMAIN jobs \ {i} : child'[j] = child[j],
           NEW at \in Nat, at > 0, at <= Len(jobs[i]),
           Through(child[i]) = at - 1, Through(child'[i]) = at,
           jobs[i][at].score = 0 => printed' = printed \cup {<<i, at>>},
           jobs[i][at].score # 0 => printed' = printed
    PROVE  /\ PrintedInv'
           /\ <<i, at>> \notin printed
<1>0. /\ \A x \in Sites : x = <<x[1], x[2]>> /\ x[1] \in DOMAIN jobs /\ x[2] \in Nat
      /\ at \in DOMAIN jobs[i]
  BY SitesAre, Lengths
<1>1. <<i, at>> \in Sites
  BY <1>0, SitesAre
<1>2. Sites' = Sites
  BY SitesStay
<1>3. PrintedInv' <=>
        printed' = {x \in Sites : x[2] <= Through(child'[x[1]]) /\ jobs[x[1]][x[2]].score = 0}
  BY <1>2 DEF PrintedInv, Through
<1>4. ASSUME NEW x \in Sites
      PROVE  x[2] <= Through(child'[x[1]]) <=> x[2] <= Through(child[x[1]]) \/ x = <<i, at>>
  <2>1. CASE x[1] = i
    <3>1. x = <<i, at>> <=> x[2] = at
      BY <1>0, <2>1
    <3> QED BY <1>0, <2>1, <3>1
  <2>2. CASE x[1] # i
    <3>1. x # <<i, at>>
      BY <1>0, <2>2
    <3> QED BY <1>0, <2>2, <3>1
  <2> QED BY <2>1, <2>2
<1>5. ~ (<<i, at>>[2] <= Through(child[<<i, at>>[1]]))
  OBVIOUS
<1>6. <<i, at>> \notin printed
  BY <1>5 DEF PrintedInv
<1>7. CASE jobs[i][at].score = 0
  <2>1. printed' = printed \cup {<<i, at>>}
    BY <1>7
  <2>2. jobs[<<i, at>>[1]][<<i, at>>[2]].score = 0
    BY <1>7
  <2> QED BY <1>1, <1>3, <1>4, <1>6, <2>1, <2>2 DEF PrintedInv
<1>8. CASE jobs[i][at].score # 0
  <2>1. printed' = printed
    BY <1>8
  <2>2. jobs[<<i, at>>[1]][<<i, at>>[2]].score # 0
    BY <1>8
  <2> QED BY <1>1, <1>3, <1>4, <1>6, <2>1, <2>2 DEF PrintedInv
<1> QED BY <1>6, <1>7, <1>8

LEMMA ListedStays ==
    ASSUME ForkTypeOK, ListedInv, jobs' = jobs, build' = build, listed' = listed,
           build.program \in {"weak", "distribute"} =>
               \A j \in DOMAIN jobs : Listed(child'[j]) = Listed(child[j])
    PROVE  ListedInv'
<1>1. \A x \in Sites : x[1] \in DOMAIN jobs
  BY SitesAre
<1>2. Sites' = Sites
  BY SitesStay
<1>3. ListedInv' <=>
        listed' = {x \in Sites : build.program \in {"weak", "distribute"}
                                 /\ x[2] <= Listed(child'[x[1]])}
  BY <1>2 DEF ListedInv, Listed
<1> QED BY <1>1, <1>3 DEF ListedInv

LEMMA ListedGrows ==
    ASSUME ForkTypeOK, ListedInv, jobs' = jobs, build' = build, NEW i \in DOMAIN jobs,
           build.program \in {"weak", "distribute"},
           \A j \in DOMAIN jobs \ {i} : child'[j] = child[j],
           NEW at \in Nat, at > 0, at <= Len(jobs[i]),
           Listed(child[i]) = at - 1, Listed(child'[i]) = at,
           listed' = listed \cup {<<i, at>>}
    PROVE  ListedInv'
<1>0. /\ \A x \in Sites : x = <<x[1], x[2]>> /\ x[1] \in DOMAIN jobs /\ x[2] \in Nat
      /\ at \in DOMAIN jobs[i]
  BY SitesAre, Lengths
<1>1. <<i, at>> \in Sites
  BY <1>0, SitesAre
<1>2. Sites' = Sites
  BY SitesStay
<1>3. ListedInv' <=>
        listed' = {x \in Sites : build.program \in {"weak", "distribute"}
                                 /\ x[2] <= Listed(child'[x[1]])}
  BY <1>2 DEF ListedInv, Listed
<1>4. ASSUME NEW x \in Sites
      PROVE  x[2] <= Listed(child'[x[1]]) <=> x[2] <= Listed(child[x[1]]) \/ x = <<i, at>>
  <2>1. CASE x[1] = i
    <3>1. x = <<i, at>> <=> x[2] = at
      BY <1>0, <2>1
    <3> QED BY <1>0, <2>1, <3>1
  <2>2. CASE x[1] # i
    <3>1. x # <<i, at>>
      BY <1>0, <2>2
    <3> QED BY <1>0, <2>2, <3>1
  <2> QED BY <2>1, <2>2
<1> QED BY <1>1, <1>3, <1>4 DEF ListedInv

-----------------------------------------------------------------------------
(* The shared totals. *)

LEMMA CountsTyped == ASSUME NEW c \in Child PROVE Counted(c) \in Int /\ AddedBy(c) \in Int
<1>1. c.at \in Nat /\ c.t_count_pl_fair \in Nat
  BY DEF Child
<1>2. Counted(c) \in Int
  BY <1>1 DEF Counted
<1>3. AddedBy(c) \in Int
  BY <1>1, <1>2 DEF AddedBy
<1> QED BY <1>2, <1>3

LEMMA CountsAre ==
    CountsInv <=> (build.program # "distribute" =>
        /\ IsFiniteSet(printed) /\ shm.count_pr_fair = Cardinality(printed)
        /\ shm.count_pl_fair = Total([j \in DOMAIN jobs |-> AddedBy(child[j])], DOMAIN jobs \ lost))
  BY Zenon DEF CountsInv, Total

LEMMA CountsAreNext ==
    CountsInv' <=> (build.program # "distribute" =>
        /\ IsFiniteSet(printed) /\ shm.count_pr_fair = Cardinality(printed)
        /\ shm.count_pl_fair
            = Total([j \in DOMAIN jobs |-> AddedBy(child[j])], DOMAIN jobs \ lost))'
  BY CountsAre, PTL

LEMMA CountsMove ==
    ASSUME ForkTypeOK, CountsInv, jobs' = jobs, build' = build, lost' = lost,
           NEW i \in DOMAIN jobs \ lost, child' \in [DOMAIN jobs -> Child],
           \A j \in DOMAIN jobs \ {i} : child'[j] = child[j],
           build.program # "distribute" =>
               /\ shm'.count_pl_fair = shm.count_pl_fair + AddedBy(child'[i]) - AddedBy(child[i])
               /\ \/ printed' = printed /\ shm'.count_pr_fair = shm.count_pr_fair
                  \/ \E x : /\ x \notin printed /\ printed' = printed \cup {x}
                            /\ shm'.count_pr_fair = shm.count_pr_fair + 1
    PROVE  CountsInv'
<1> SUFFICES ASSUME build.program # "distribute"
             PROVE  /\ IsFiniteSet(printed') /\ shm'.count_pr_fair = Cardinality(printed')
                    /\ shm'.count_pl_fair
                        = Total([j \in DOMAIN jobs |-> AddedBy(child'[j])], DOMAIN jobs \ lost)
  <2>1. Forking' <=> Forking
    BY DEF Forking
  <2>2. AddsRest' <=> AddsRest
    BY <2>1 DEF AddsRest
  <2>3. CountsInv' <=> (build.program # "distribute" =>
            /\ IsFiniteSet(printed') /\ shm'.count_pr_fair = Cardinality(printed')
            /\ shm'.count_pl_fair
                = Total([j \in DOMAIN jobs |-> AddedBy(child'[j])], DOMAIN jobs \ lost))
    <3>1. \A j \in DOMAIN jobs : (AddedBy(child[j]))' = AddedBy(child'[j])
      BY <2>2 DEF AddedBy, Counted
    <3>2. [j \in DOMAIN jobs |-> (AddedBy(child[j]))'] = [j \in DOMAIN jobs |-> AddedBy(child'[j])]
      BY <3>1, Zenon
    <3>3. CountsInv' <=> (build.program # "distribute" =>
            /\ IsFiniteSet(printed) /\ shm.count_pr_fair = Cardinality(printed)
            /\ shm.count_pl_fair = Total([j \in DOMAIN jobs |-> AddedBy(child[j])],
                                         DOMAIN jobs \ lost))'
      BY CountsAreNext
    <3>4. ([j \in DOMAIN jobs |-> AddedBy(child[j])])'
              = [j \in DOMAIN jobs |-> (AddedBy(child[j]))']
      BY Zenon
    <3> QED BY <3>2, <3>3, <3>4
  <2> QED BY <2>3
<1> DEFINE f == [j \in DOMAIN jobs |-> AddedBy(child[j])]
           g == [j \in DOMAIN jobs |-> AddedBy(child'[j])]
<1>1. /\ IsFiniteSet(printed) /\ shm.count_pr_fair = Cardinality(printed)
      /\ shm.count_pl_fair = Total(f, DOMAIN jobs \ lost)
  BY CountsAre
<1>2. IsFiniteSet(printed') /\ shm'.count_pr_fair = Cardinality(printed')
  <2>1. CASE printed' = printed /\ shm'.count_pr_fair = shm.count_pr_fair
    BY <1>1, <2>1
  <2>2. CASE \E x : /\ x \notin printed /\ printed' = printed \cup {x}
                    /\ shm'.count_pr_fair = shm.count_pr_fair + 1
    <3>1. PICK x : /\ x \notin printed /\ printed' = printed \cup {x}
                   /\ shm'.count_pr_fair = shm.count_pr_fair + 1
      BY <2>2
    <3>2. IsFiniteSet(printed \cup {x}) /\ Cardinality(printed \cup {x}) = Cardinality(printed) + 1
      BY <1>1, <3>1, FS_AddElement
    <3> QED BY <1>1, <3>1, <3>2
  <2> QED BY <2>1, <2>2
<1>3. IsFiniteSet(DOMAIN jobs \ lost) /\ i \in DOMAIN jobs \ lost
  BY Lengths, FS_Subset
<1>4. \A j \in DOMAIN jobs : child[j] \in Child /\ child'[j] \in Child
  BY DEF ForkTypeOK
<1>5. \A j \in DOMAIN jobs \ lost : f[j] \in Int /\ g[j] \in Int
  BY <1>4, CountsTyped
<1>6. \A j \in (DOMAIN jobs \ lost) \ {i} : g[j] = f[j]
  OBVIOUS
<1>7. f[i] = AddedBy(child[i]) /\ g[i] = AddedBy(child'[i])
  OBVIOUS
<1> HIDE DEF f, g
<1>8. PICK ff : ff = f
  BY Zenon
<1>9. PICK gg : gg = g
  BY Zenon
<1>10. Total(gg, DOMAIN jobs \ lost) = Total(ff, DOMAIN jobs \ lost) + gg[i] - ff[i]
  <2>1. PICK S : S = DOMAIN jobs \ lost
    BY Zenon
  <2>2. IsFiniteSet(S) /\ i \in S
    BY <1>3, <2>1
  <2>3. \A j \in S : ff[j] \in Int /\ gg[j] \in Int
    BY <1>5, <1>8, <1>9, <2>1
  <2>4. \A j \in S \ {i} : gg[j] = ff[j]
    BY <1>6, <1>8, <1>9, <2>1
  <2>5. Total(gg, S) = Total(ff, S) + gg[i] - ff[i]
    BY <2>2, <2>3, <2>4, TotalWithChange
  <2> QED BY <2>1, <2>5
<1>11. shm'.count_pl_fair = Total(g, DOMAIN jobs \ lost)
  BY <1>1, <1>7, <1>8, <1>9, <1>10
<1> QED BY <1>2, <1>11 DEF g

-----------------------------------------------------------------------------
(* A child that works moves. *)

Working == {"start", "leaf"} \cup AtGrid

LEMMA ChildMoves ==
    ASSUME EnumerationInv, NEW i \in DOMAIN jobs, NEW d \in Child,
           UNCHANGED <<build, jobs, next, children, lost, reported>>,
           child' = [child EXCEPT ![i] = d],
           child[i].pc \in Working, d.pc \in (Working \ {"start"}) \cup {"exited"},
           shm' \in Shared, Progress(d, jobs[i]),
           PrintedInv', ListedInv',
           build.program # "distribute" =>
               /\ shm'.count_pl_fair = shm.count_pl_fair + AddedBy(d) - AddedBy(child[i])
               /\ \/ printed' = printed /\ shm'.count_pr_fair = shm.count_pr_fair
                  \/ \E x : /\ x \notin printed /\ printed' = printed \cup {x}
                            /\ shm'.count_pr_fair = shm.count_pr_fair + 1
    PROVE  EnumerationInv'
<1>1. /\ ForkTypeOK /\ ForkedInv /\ ProgressInv /\ CountsInv /\ ReportedInv
      /\ child \in [DOMAIN jobs -> Child]
  BY DEF EnumerationInv, ForkTypeOK
<1>2. /\ child' \in [DOMAIN jobs -> Child] /\ child'[i] = d
      /\ \A j \in DOMAIN jobs \ {i} : child'[j] = child[j]
  BY <1>1
<1>3. Forking' <=> Forking
  BY DEF Forking
<1>4. i < next /\ i \notin lost
  <2>1. Forked(i) /\ child[i].pc # "none"
    BY <1>1 DEF ForkedInv, Working, AtGrid
  <2>2. next \in Nat /\ i \in Nat
    BY <1>1, Lengths DEF ForkTypeOK
  <2> QED BY <2>1, <2>2 DEF Forked
<1>5. ForkTypeOK'
  BY <1>1, <1>2 DEF ForkTypeOK
<1>6. ForkedInv'
  <2>1. \A j \in DOMAIN jobs : Forked(j)'
    <3> SUFFICES ASSUME NEW j \in DOMAIN jobs PROVE Forked(j)'
      OBVIOUS
    <3>1. Forked(j)
      BY <1>1 DEF ForkedInv
    <3>2. CASE j = i
      <4>1. child'[j].pc \notin {"none", "start", "reaped"}
        BY <1>2, <3>2 DEF Working, AtGrid
      <4>2. ~ (j >= next) /\ next' = next /\ lost' = lost /\ j \notin lost
        <5>1. next \in Nat /\ i \in Nat
          BY <1>1, Lengths DEF ForkTypeOK
        <5> QED BY <1>4, <3>2, <5>1
      <4> QED BY <4>1, <4>2 DEF Forked
    <3>3. CASE j # i
      <4>1. child'[j] = child[j]
        BY <1>2, <3>3
      <4> QED BY <1>3, <3>1, <4>1 DEF Forked
    <3> QED BY <3>2, <3>3
  <2>2. Unreaped' = Unreaped
    <3>1. child'[i].pc \notin {"none", "reaped"} /\ child[i].pc \notin {"none", "reaped"}
      BY <1>2 DEF Working, AtGrid
    <3>2. \A j \in DOMAIN jobs : child'[j].pc \notin {"none", "reaped"}
                                    <=> child[j].pc \notin {"none", "reaped"}
      BY <1>2, <3>1
    <3> QED BY <3>2 DEF Unreaped
  <2> QED BY <1>1, <1>3, <2>1, <2>2 DEF ForkedInv
<1>7. ProgressInv'
  <2> SUFFICES ASSUME NEW j \in DOMAIN jobs PROVE Progress(child[j], jobs[j])'
    BY DEF ProgressInv
  <2>1. CASE j = i
    <3>1. child'[j] = d
      BY <1>2, <2>1
    <3> QED BY <2>1, <3>1 DEF Progress, Counted
  <2>2. CASE j # i
    <3>1. child'[j] = child[j] /\ Progress(child[j], jobs[j])
      BY <1>1, <1>2, <2>2 DEF ProgressInv
    <3> QED BY <3>1 DEF Progress, Counted
  <2> QED BY <2>1, <2>2
<1>8. CountsInv'
  <2>1. i \in DOMAIN jobs \ lost
    BY <1>4
  <2>2. build.program # "distribute" =>
               shm'.count_pl_fair = shm.count_pl_fair + AddedBy(child'[i]) - AddedBy(child[i])
    BY <1>2
  <2> QED BY <1>1, <1>2, <2>1, <2>2, CountsMove
<1>9. ReportedInv'
  <2>1. ~ reported
    <3>1. child[i].pc \notin {"reaped", "exited"}
      BY DEF Working, AtGrid
    <3>2. i \in DOMAIN jobs \ lost
      BY <1>4
    <3> QED BY <1>1, <3>1, <3>2 DEF ReportedInv
  <2> QED BY <1>1, <2>1 DEF ReportedInv
<1> QED BY <1>5, <1>6, <1>7, <1>8, <1>9 DEF EnumerationInv

-----------------------------------------------------------------------------
(* The steps of a child. *)

LEMMA ChildAt ==
    ASSUME EnumerationInv, NEW i \in DOMAIN jobs
    PROVE  /\ child \in [DOMAIN jobs -> Child] /\ child[i] \in Child
           /\ Progress(child[i], jobs[i]) /\ shm \in Shared
           /\ build.SEMSKIP \in Nat \ {0} /\ i \in Nat
  BY Lengths, ForkSearchAssumption DEF EnumerationInv, ForkTypeOK, ProgressInv

LEMMA AddCountIs ==
    ASSUME shm \in Shared, NEW n \in Nat
    PROVE  /\ AddCount(n) \in Shared
           /\ AddCount(n).count_pl_fair = shm.count_pl_fair + n
           /\ AddCount(n).count_pr_fair = shm.count_pr_fair
           /\ AddCount(n).best_pr_score = shm.best_pr_score
<1>1. PICK g : g = IF shm.count_pl_fair + n >= shm.goal_count THEN shm.goal_count * 2
                   ELSE shm.goal_count
  BY Zenon
<1>2. shm.count_pl_fair + n \in Nat /\ g \in Nat
  BY <1>1 DEF Shared
<1>3. AddCount(n) = [shm EXCEPT !.count_pl_fair = @ + n, !.goal_count = g]
  BY <1>1 DEF AddCount
<1> QED BY <1>2, <1>3 DEF Shared

LEMMA StartStep ==
    ASSUME EnumerationInv, NEW i \in DOMAIN jobs, Start(i)
    PROVE  EnumerationInv'
<1> PICK c : c = child[i]
  BY Zenon
<1> PICK b : b = IF build.program = "subsets" THEN shm.best_pr_score ELSE c.t_best_pr_score
  BY Zenon
<1>1. /\ c \in Child /\ Progress(c, jobs[i]) /\ shm \in Shared /\ c.pc = "start" /\ b \in Nat
      /\ ForkTypeOK /\ PrintedInv /\ ListedInv /\ child \in [DOMAIN jobs -> Child]
  <2>1. c \in Child /\ shm \in Shared
    BY ChildAt
  <2>2. b \in Nat
    BY <2>1 DEF Child, Shared
  <2> QED BY <2>1, <2>2, ChildAt DEF Start, EnumerationInv
<1> PICK d : d = [c EXCEPT !.pc = "leaf", !.t_best_pr_score = b]
  BY Zenon
<1>2. /\ d \in Child /\ d.pc = "leaf" /\ d.at = c.at /\ d.t_count_pl_fair = c.t_count_pl_fair
  BY <1>1 DEF Child
<1>3. child' = [child EXCEPT ![i] = d]
  BY <1>1 DEF Start
<1>4. /\ UNCHANGED <<build, jobs, next, children, lost, reported>>
      /\ printed' = printed /\ listed' = listed /\ shm' = shm
  BY DEF Start
<1>5. Progress(d, jobs[i])
  BY <1>1, <1>2 DEF Progress, Counted, Finished, AtGrid
<1>6. AddedBy(d) = AddedBy(c) /\ AddedBy(c) \in Int
  BY <1>1, <1>2, CountsTyped DEF AddedBy, Counted, Finished
<1>7. /\ child'[i] = d /\ \A j \in DOMAIN jobs \ {i} : child'[j] = child[j]
      /\ Through(d) = Through(c) /\ Listed(d) = Listed(c)
  BY <1>1, <1>2, <1>3 DEF Through, Listed, AtGrid
<1>8. PrintedInv' /\ ListedInv'
  BY <1>1, <1>4, <1>7, PrintedStays, ListedStays
<1>9. shm \in Shared /\ shm.count_pl_fair \in Int
  BY <1>1 DEF Shared
<1>10. child[i].pc \in Working /\ d.pc \in (Working \ {"start"}) \cup {"exited"}
  BY <1>1, <1>2 DEF Working
<1>11. shm'.count_pl_fair = shm.count_pl_fair + AddedBy(d) - AddedBy(child[i])
  BY <1>4, <1>6, <1>9
<1> QED BY <1>2, <1>3, <1>4, <1>5, <1>8, <1>9, <1>10, <1>11, ChildMoves

LEMMA ListStep ==
    ASSUME EnumerationInv, NEW i \in DOMAIN jobs, ListLeaf(i)
    PROVE  EnumerationInv'
<1> PICK c : c = child[i]
  BY Zenon
<1>1. /\ c \in Child /\ Progress(c, jobs[i]) /\ shm \in Shared /\ c.pc = "leaf"
      /\ c.at <= Len(jobs[i]) /\ build.program = "weak"
      /\ ForkTypeOK /\ PrintedInv /\ ListedInv /\ child \in [DOMAIN jobs -> Child]
  BY ChildAt DEF ListLeaf, EnumerationInv
<1> PICK d : d = [c EXCEPT !.pc = "listed"]
  BY Zenon
<1>2. /\ d \in Child /\ d.pc = "listed" /\ d.at = c.at /\ d.t_count_pl_fair = c.t_count_pl_fair
      /\ c.at \in Nat /\ c.at > 0
  BY <1>1 DEF Child, AtGrid
<1>3. child' = [child EXCEPT ![i] = d]
  BY <1>1 DEF ListLeaf
<1>4. /\ UNCHANGED <<build, jobs, next, children, lost, reported>>
      /\ printed' = printed /\ listed' = listed \cup {<<i, c.at>>} /\ shm' = shm
  BY DEF ListLeaf
<1>5. Progress(d, jobs[i])
  BY <1>1, <1>2 DEF Progress, Counted, Finished, AtGrid
<1>6. AddedBy(d) = AddedBy(c) /\ AddedBy(c) \in Int
  BY <1>1, <1>2, CountsTyped DEF AddedBy, Counted, Finished
<1>7. /\ child'[i] = d /\ \A j \in DOMAIN jobs \ {i} : child'[j] = child[j]
      /\ Through(d) = Through(c) /\ Listed(d) = c.at /\ Listed(c) = c.at - 1
  BY <1>1, <1>2, <1>3 DEF Through, Listed, AtGrid
<1>8. PrintedInv' /\ ListedInv'
  <2>1. PrintedInv'
    BY <1>1, <1>4, <1>7, PrintedStays
  <2>2. PICK at : at = c.at
    BY Zenon
  <2>3. ListedInv'
    BY <1>1, <1>2, <1>4, <1>7, <2>2, ListedGrows
  <2> QED BY <2>1, <2>3
<1>9. shm \in Shared /\ shm.count_pl_fair \in Int
  BY <1>1 DEF Shared
<1>10. child[i].pc \in Working /\ d.pc \in (Working \ {"start"}) \cup {"exited"}
  BY <1>1, <1>2 DEF Working, AtGrid
<1>11. shm'.count_pl_fair = shm.count_pl_fair + AddedBy(d) - AddedBy(child[i])
  BY <1>4, <1>6, <1>9
<1> QED BY <1>2, <1>3, <1>4, <1>5, <1>8, <1>9, <1>10, <1>11, ChildMoves

LEMMA PlacesStep ==
    ASSUME EnumerationInv, NEW i \in DOMAIN jobs, PrintPlaces(i)
    PROVE  EnumerationInv'
<1> PICK c : c = child[i]
  BY Zenon
<1>1. /\ c \in Child /\ Progress(c, jobs[i]) /\ shm \in Shared /\ c.pc = "leaf"
      /\ c.at <= Len(jobs[i]) /\ build.program = "distribute"
      /\ ForkTypeOK /\ PrintedInv /\ ListedInv /\ child \in [DOMAIN jobs -> Child]
  BY ChildAt DEF PrintPlaces, EnumerationInv
<1> PICK d : d = [c EXCEPT !.at = @ + 1]
  BY Zenon
<1>2. /\ d \in Child /\ d.pc = "leaf" /\ d.at = c.at + 1 /\ c.at \in Nat /\ c.at > 0
  BY <1>1 DEF Child
<1>3. child' = [child EXCEPT ![i] = d]
  BY <1>1 DEF PrintPlaces
<1>4. /\ UNCHANGED <<build, jobs, next, children, lost, reported>>
      /\ listed' = listed \cup {<<i, c.at>>} /\ shm' = shm
      /\ jobs[i][c.at].score = 0 => printed' = printed \cup {<<i, c.at>>}
      /\ jobs[i][c.at].score # 0 => printed' = printed
  BY DEF PrintPlaces, Score
<1>5. Progress(d, jobs[i])
  <2>1. Len(jobs[i]) \in Nat
    BY <1>1, Lengths
  <2> QED BY <1>1, <1>2, <2>1 DEF Progress, Finished, AtGrid
<1>7. /\ child'[i] = d /\ \A j \in DOMAIN jobs \ {i} : child'[j] = child[j]
      /\ Through(d) = c.at /\ Through(c) = c.at - 1 /\ Listed(d) = c.at /\ Listed(c) = c.at - 1
  BY <1>1, <1>2, <1>3 DEF Through, Listed, AtGrid
<1>8. PrintedInv' /\ ListedInv'
  <2>1. PICK at : at = c.at
    BY Zenon
  <2>2. PrintedInv'
    BY <1>1, <1>2, <1>4, <1>7, <2>1, PrintedGrows
  <2>3. ListedInv'
    BY <1>1, <1>2, <1>4, <1>7, <2>1, ListedGrows
  <2> QED BY <2>2, <2>3
<1>10. child[i].pc \in Working /\ d.pc \in (Working \ {"start"}) \cup {"exited"}
  BY <1>1, <1>2 DEF Working, AtGrid
<1> QED BY <1>1, <1>2, <1>3, <1>4, <1>5, <1>8, <1>10, ChildMoves

LEMMA FairStep ==
    ASSUME EnumerationInv, NEW i \in DOMAIN jobs, PrintFair(i)
    PROVE  EnumerationInv'
<1> PICK c : c = child[i]
  BY Zenon
<1>1. /\ c \in Child /\ Progress(c, jobs[i]) /\ shm \in Shared /\ c.pc = "fair"
      /\ ForkTypeOK /\ PrintedInv /\ ListedInv /\ child \in [DOMAIN jobs -> Child]
  BY ChildAt DEF PrintFair, EnumerationInv
<1> PICK d : d = [c EXCEPT !.pc = "leaf", !.at = @ + 1]
  BY Zenon
<1>2. /\ d \in Child /\ d.pc = "leaf" /\ d.at = c.at + 1 /\ d.t_count_pl_fair = c.t_count_pl_fair
      /\ c.at \in Nat /\ c.at > 0 /\ c.at <= Len(jobs[i]) /\ jobs[i][c.at].score = 0
      /\ build.program # "distribute"
  <2>1. /\ d \in Child /\ d.pc = "leaf" /\ d.at = c.at + 1 /\ c.at \in Nat /\ c.at > 0
        /\ d.t_count_pl_fair = c.t_count_pl_fair
    <3>1. c.at \in Nat /\ c.at > 0 /\ c.at + 1 \in Nat \ {0}
      BY <1>1 DEF Child
    <3> QED BY <1>1, <3>1 DEF Child
  <2>2. c.pc \in AtGrid
    BY <1>1 DEF AtGrid
  <2>3. c.at <= Len(jobs[i]) /\ jobs[i][c.at].score = 0 /\ build.program # "distribute"
    BY <1>1, <2>2 DEF Progress
  <2> QED BY <2>1, <2>3
<1>3. child' = [child EXCEPT ![i] = d]
  BY <1>1 DEF PrintFair
<1>4. /\ UNCHANGED <<build, jobs, next, children, lost, reported>>
      /\ listed' = listed /\ printed' = printed \cup {<<i, c.at>>}
      /\ shm' = [shm EXCEPT !.count_pr_fair = @ + 1]
  BY DEF PrintFair
<1>5. Progress(d, jobs[i])
  <2>1. Len(jobs[i]) \in Nat
    BY <1>1, Lengths
  <2> QED BY <1>1, <1>2, <2>1 DEF Progress, Counted, Finished, AtGrid
<1>6. AddedBy(d) = AddedBy(c) /\ AddedBy(c) \in Int
  BY <1>1, <1>2, CountsTyped DEF AddedBy, Counted, Finished
<1>7. /\ child'[i] = d /\ \A j \in DOMAIN jobs \ {i} : child'[j] = child[j]
      /\ Through(d) = c.at /\ Through(c) = c.at - 1 /\ Listed(d) = Listed(c)
  BY <1>1, <1>2, <1>3 DEF Through, Listed, AtGrid
<1>8. PrintedInv' /\ ListedInv' /\ <<i, c.at>> \notin printed
  <2>1. PICK at : at = c.at
    BY Zenon
  <2>2. PrintedInv' /\ <<i, at>> \notin printed
    BY <1>1, <1>2, <1>4, <1>7, <2>1, PrintedGrows
  <2>3. ListedInv'
    BY <1>1, <1>4, <1>7, ListedStays
  <2> QED BY <2>1, <2>2, <2>3
<1>9. /\ shm' \in Shared /\ shm.count_pl_fair \in Int /\ shm'.count_pl_fair = shm.count_pl_fair
      /\ shm'.count_pr_fair = shm.count_pr_fair + 1
  BY <1>1, <1>4 DEF Shared
<1>10. child[i].pc \in Working /\ d.pc \in (Working \ {"start"}) \cup {"exited"}
  BY <1>1, <1>2 DEF Working, AtGrid
<1>11. shm'.count_pl_fair = shm.count_pl_fair + AddedBy(d) - AddedBy(child[i])
  BY <1>6, <1>9
<1>12. \E x : /\ x \notin printed /\ printed' = printed \cup {x}
              /\ shm'.count_pr_fair = shm.count_pr_fair + 1
  BY <1>4, <1>8, <1>9
<1> QED BY <1>2, <1>3, <1>4, <1>5, <1>8, <1>9, <1>10, <1>11, <1>12, ChildMoves

LEMMA ExitStep ==
    ASSUME EnumerationInv, NEW i \in DOMAIN jobs, Exit(i)
    PROVE  EnumerationInv'
<1> PICK c : c = child[i]
  BY Zenon
<1>1. /\ c \in Child /\ Progress(c, jobs[i]) /\ shm \in Shared /\ c.pc = "leaf"
      /\ c.at > Len(jobs[i])
      /\ ForkTypeOK /\ PrintedInv /\ ListedInv /\ child \in [DOMAIN jobs -> Child]
  BY ChildAt DEF Exit, EnumerationInv
<1> PICK d : d = [c EXCEPT !.pc = "exited"]
  BY Zenon
<1>2. /\ d \in Child /\ d.pc = "exited" /\ d.at = c.at /\ d.t_count_pl_fair = c.t_count_pl_fair
      /\ c.at \in Nat /\ c.t_count_pl_fair \in Nat
  BY <1>1 DEF Child, Finished
<1>3. child' = [child EXCEPT ![i] = d]
  BY <1>1 DEF Exit
<1>4. /\ UNCHANGED <<build, jobs, next, children, lost, reported>>
      /\ listed' = listed /\ printed' = printed
      /\ AddsRest => shm' = AddCount(c.t_count_pl_fair)
      /\ ~ AddsRest => shm' = shm
  BY DEF Exit
<1>5. Progress(d, jobs[i])
  <2>1. Len(jobs[i]) \in Nat
    BY <1>1, Lengths
  <2>2. c.at = Len(jobs[i]) + 1
    BY <1>1, <1>2, <2>1 DEF Progress
  <2> QED BY <1>1, <1>2, <2>2 DEF Progress, Counted, Finished, AtGrid
<1>7. /\ child'[i] = d /\ \A j \in DOMAIN jobs \ {i} : child'[j] = child[j]
      /\ Through(d) = Through(c) /\ Listed(d) = Listed(c)
  BY <1>1, <1>2, <1>3 DEF Through, Listed, AtGrid
<1>8. PrintedInv' /\ ListedInv'
  BY <1>1, <1>4, <1>7, PrintedStays, ListedStays
<1>9. shm' \in Shared /\ shm.count_pl_fair \in Int /\ shm'.count_pr_fair = shm.count_pr_fair
  <2>1. PICK n : n = c.t_count_pl_fair
    BY Zenon
  <2>2. AddCount(n) \in Shared /\ AddCount(n).count_pr_fair = shm.count_pr_fair
    BY <1>1, <1>2, <2>1, AddCountIs
  <2>3. shm.count_pl_fair \in Int
    BY <1>1 DEF Shared
  <2> QED BY <1>1, <1>4, <2>1, <2>2, <2>3
<1>10. child[i].pc \in Working /\ d.pc \in (Working \ {"start"}) \cup {"exited"}
  BY <1>1, <1>2 DEF Working, AtGrid
<1>11. shm'.count_pl_fair = shm.count_pl_fair + AddedBy(d) - AddedBy(child[i])
  <2>1. PICK n : n = c.t_count_pl_fair
    BY Zenon
  <2>2. AddCount(n).count_pl_fair = shm.count_pl_fair + n
    BY <1>1, <1>2, <2>1, AddCountIs
  <2>3. Counted(d) = Counted(c) /\ Counted(c) \in Int
    BY <1>1, <1>2, CountsTyped DEF Counted
  <2>4. AddedBy(c) = Counted(c) - n
    BY <1>1, <2>1 DEF AddedBy, Finished
  <2>5. /\ AddsRest => AddedBy(d) = Counted(c)
        /\ ~ AddsRest => AddedBy(d) = Counted(c) - n
    BY <1>2, <2>1, <2>3 DEF AddedBy, Finished
  <2> QED BY <1>2, <1>4, <1>9, <2>1, <2>2, <2>3, <2>4, <2>5
<1> QED BY <1>2, <1>3, <1>4, <1>5, <1>8, <1>9, <1>10, <1>11, ChildMoves

(* What a child does about a grid once it is counted.                      *)
OnFrom(k, r, q) ==
    /\ q \in Child /\ q.t_count_pl_fair = r.t_count_pl_fair
    /\ \/ q.pc = "best" /\ q.at = r.at
       \/ Score(k) = 0 /\ q.pc = "fair" /\ q.at = r.at
       \/ Score(k) # 0 /\ q.pc = "leaf" /\ q.at = r.at + 1

LEMMA OnToFairMoves ==
    ASSUME NEW k, NEW r \in Child
    PROVE  OnFrom(k, r, OnToFair(k, r))
<1>1. CASE Score(k) = 0
  <2>1. PICK q : q = [r EXCEPT !.pc = "fair"]
    BY Zenon
  <2>2. q \in Child /\ q.pc = "fair" /\ q.at = r.at /\ q.t_count_pl_fair = r.t_count_pl_fair
    BY <2>1 DEF Child, AtGrid
  <2>3. OnToFair(k, r) = q
    BY <1>1, <2>1 DEF OnToFair
  <2> QED BY <1>1, <2>2, <2>3 DEF OnFrom
<1>2. CASE Score(k) # 0
  <2>1. PICK q : q = [r EXCEPT !.pc = "leaf", !.at = @ + 1]
    BY Zenon
  <2>0. r.at \in Nat /\ r.at > 0 /\ r.at + 1 \in Nat \ {0}
    BY DEF Child
  <2>2. q \in Child /\ q.pc = "leaf" /\ q.at = r.at + 1 /\ q.t_count_pl_fair = r.t_count_pl_fair
    BY <2>0, <2>1 DEF Child
  <2>3. OnToFair(k, r) = q
    BY <1>2, <2>1 DEF OnToFair
  <2> QED BY <1>2, <2>2, <2>3 DEF OnFrom
<1> QED BY <1>1, <1>2

LEMMA OnToBestMoves ==
    ASSUME NEW k, NEW r \in Child
    PROVE  OnFrom(k, r, OnToBest(k, r))
<1>1. CASE Score(k) < r.t_best_pr_score
  <2>1. PICK q : q = [r EXCEPT !.pc = "best"]
    BY Zenon
  <2>2. q \in Child /\ q.pc = "best" /\ q.at = r.at /\ q.t_count_pl_fair = r.t_count_pl_fair
    BY <2>1 DEF Child, AtGrid
  <2>3. OnToBest(k, r) = q
    BY <1>1, <2>1 DEF OnToBest
  <2> QED BY <2>2, <2>3 DEF OnFrom
<1>2. CASE ~ (Score(k) < r.t_best_pr_score)
  <2>1. OnToBest(k, r) = OnToFair(k, r)
    BY <1>2 DEF OnToBest
  <2> QED BY <2>1, OnToFairMoves
<1> QED BY <1>1, <1>2

(* A child at work on a grid goes on with it, or to the next one.          *)
LEMMA GridMoves ==
    ASSUME EnumerationInv, NEW i \in DOMAIN jobs, NEW d \in Child,
           UNCHANGED <<build, jobs, next, children, lost, listed, printed, reported>>,
           child' = [child EXCEPT ![i] = d],
           build.program # "distribute", child[i].at <= Len(jobs[i]),
           child[i].pc \in {"leaf", "listed", "best"},
           child[i].pc = "leaf" => build.program # "weak",
           NEW e \in Child, OnFrom(i, e, d), e.at = child[i].at,
           d.t_count_pl_fair = child[i].at % build.SEMSKIP,
           shm' \in Shared, shm'.count_pr_fair = shm.count_pr_fair,
           shm'.count_pl_fair
               = shm.count_pl_fair + (child[i].at - d.t_count_pl_fair) - AddedBy(child[i])
    PROVE  EnumerationInv'
<1> PICK c : c = child[i]
  BY Zenon
<1>1. /\ c \in Child /\ Progress(c, jobs[i]) /\ Score(i) = jobs[i][c.at].score
      /\ ForkTypeOK /\ PrintedInv /\ ListedInv /\ child \in [DOMAIN jobs -> Child]
      /\ c.at <= Len(jobs[i]) /\ c.pc \in {"leaf", "listed", "best"}
      /\ c.pc = "leaf" => build.program # "weak"
  BY ChildAt DEF EnumerationInv, Score
<1>2. /\ c.at \in Nat /\ c.at > 0 /\ Len(jobs[i]) \in Nat
      /\ d.at \in {c.at, c.at + 1} /\ d.pc \in {"best", "fair", "leaf"}
      /\ d.t_count_pl_fair \in Nat
      /\ d.pc = "leaf" => d.at = c.at + 1 /\ jobs[i][c.at].score # 0
      /\ d.pc \in {"best", "fair"} => d.at = c.at
      /\ d.pc = "fair" => jobs[i][c.at].score = 0
      /\ d.t_count_pl_fair = c.at % build.SEMSKIP
  <2>1. c.at \in Nat /\ c.at > 0
    BY <1>1 DEF Child
  <2>2. Len(jobs[i]) \in Nat
    BY <1>1, Lengths
  <2>3. /\ d \in Child /\ Score(i) = jobs[i][c.at].score
        /\ d.t_count_pl_fair = c.at % build.SEMSKIP
    BY <1>1 DEF OnFrom
  <2>4. /\ d.at \in {c.at, c.at + 1} /\ d.pc \in {"best", "fair", "leaf"}
        /\ d.pc = "leaf" => d.at = c.at + 1 /\ jobs[i][c.at].score # 0
        /\ d.pc \in {"best", "fair"} => d.at = c.at
        /\ d.pc = "fair" => jobs[i][c.at].score = 0
    BY <1>1, <2>1, <2>3 DEF OnFrom
  <2>5. d.t_count_pl_fair \in Nat
    BY <2>3 DEF Child
  <2> QED BY <2>1, <2>2, <2>3, <2>4, <2>5
<1>3. Counted(d) = c.at
  BY <1>2 DEF Counted
<1>4. AddedBy(d) = c.at - d.t_count_pl_fair
  BY <1>2, <1>3 DEF AddedBy, Finished
<1>5. Progress(d, jobs[i])
  BY <1>1, <1>2, <1>3 DEF Progress, Finished, AtGrid
<1>6. child'[i] = d /\ \A j \in DOMAIN jobs \ {i} : child'[j] = child[j]
  BY <1>1
<1>7. PrintedInv'
  <2>1. Through(c) = c.at - 1
    BY DEF Through
  <2>2. CASE d.pc = "leaf"
    <3>1. Through(d) = c.at
      BY <1>2, <2>2 DEF Through
    <3>2. PICK at : at = c.at
      BY Zenon
    <3> QED BY <1>1, <1>2, <1>6, <2>1, <2>2, <3>1, <3>2, PrintedGrows
  <2>3. CASE d.pc \in {"best", "fair"}
    <3>1. Through(d) = Through(c)
      BY <1>2, <2>3 DEF Through
    <3> QED BY <1>1, <1>6, <3>1, PrintedStays
  <2> QED BY <1>2, <2>2, <2>3
<1>8. ListedInv'
  <2>1. build.program = "weak" => Listed(d) = Listed(c)
    <3> SUFFICES ASSUME build.program = "weak" PROVE Listed(d) = Listed(c)
      OBVIOUS
    <3>1. c.pc \in AtGrid
      BY <1>1 DEF AtGrid
    <3>2. Listed(c) = c.at
      BY <3>1 DEF Listed
    <3>3. Listed(d) = c.at
      BY <1>2 DEF Listed, AtGrid
    <3> QED BY <3>2, <3>3
  <2>2. build.program \in {"weak", "distribute"} =>
            \A j \in DOMAIN jobs : Listed(child'[j]) = Listed(child[j])
    BY <1>6, <2>1
  <2> QED BY <1>1, <2>2, ListedStays
<1>9. child[i].pc \in Working /\ d.pc \in (Working \ {"start"}) \cup {"exited"}
  BY <1>1, <1>2 DEF Working, AtGrid
<1>10. shm'.count_pl_fair = shm.count_pl_fair + AddedBy(d) - AddedBy(child[i])
  BY <1>4
<1> QED BY <1>5, <1>7, <1>8, <1>9, <1>10, ChildMoves

LEMMA CountStep ==
    ASSUME EnumerationInv, NEW i \in DOMAIN jobs, CountLeaf(i)
    PROVE  EnumerationInv'
<1> PICK c : c = child[i]
  BY Zenon
<1> PICK count : count = c.t_count_pl_fair + 1
  BY Zenon
<1>1. /\ c \in Child /\ Progress(c, jobs[i]) /\ shm \in Shared /\ build.SEMSKIP \in Nat \ {0}
      /\ c.at <= Len(jobs[i]) /\ c.pc \in {"leaf", "listed"} /\ build.program # "distribute"
      /\ c.pc = "leaf" => build.program # "weak"
      /\ UNCHANGED <<build, jobs, next, children, lost, listed, printed, reported>>
  BY ChildAt DEF CountLeaf
<1>2. /\ c.at \in Nat /\ c.at > 0 /\ c.t_count_pl_fair \in Nat /\ count \in Nat
      /\ shm.best_pr_score \in Nat /\ shm.count_pl_fair \in Nat
  BY <1>1 DEF Child, Shared
<1>3. c.t_count_pl_fair = (c.at - 1) % build.SEMSKIP /\ Counted(c) = c.at - 1
  BY <1>1 DEF Progress, Counted
<1>4. /\ count < build.SEMSKIP => c.at % build.SEMSKIP = count
      /\ count >= build.SEMSKIP => c.at % build.SEMSKIP = 0
  <2>1. PICK n : n = c.at - 1
    BY Zenon
  <2>2. n \in Nat /\ n + 1 = c.at /\ count = (n % build.SEMSKIP) + 1
    BY <1>2, <1>3, <2>1
  <2>3. /\ (n % build.SEMSKIP) + 1 < build.SEMSKIP
               => (n + 1) % build.SEMSKIP = (n % build.SEMSKIP) + 1
        /\ (n % build.SEMSKIP) + 1 >= build.SEMSKIP => (n + 1) % build.SEMSKIP = 0
    BY <1>1, <2>2, NextRemainder
  <2> QED BY <2>2, <2>3
<1>5. AddedBy(c) = (c.at - 1) - c.t_count_pl_fair
  BY <1>1, <1>3 DEF AddedBy, Finished
<1>6. CASE count >= build.SEMSKIP
  <2> PICK e : e = [c EXCEPT !.t_count_pl_fair = 0, !.t_best_pr_score = shm.best_pr_score]
    BY Zenon
  <2>1. e \in Child /\ e.t_count_pl_fair = 0 /\ e.at = c.at
    BY <1>1, <1>2 DEF Child
  <2> PICK d : d = OnToBest(i, e)
    BY Zenon
  <2>2. OnFrom(i, e, d) /\ d \in Child /\ d.t_count_pl_fair = e.t_count_pl_fair
    <3>1. OnFrom(i, e, d)
      BY <2>1, OnToBestMoves
    <3> QED BY <3>1 DEF OnFrom
  <2>3. shm' = AddCount(count) /\ child' = [child EXCEPT ![i] = d]
    BY <1>6, <2>2 DEF CountLeaf
  <2>4. /\ shm' \in Shared /\ shm'.count_pl_fair = shm.count_pl_fair + count
        /\ shm'.count_pr_fair = shm.count_pr_fair
    BY <1>1, <1>2, <2>3, AddCountIs
  <2>5. d.t_count_pl_fair = c.at % build.SEMSKIP /\ d.t_count_pl_fair = 0
    BY <1>4, <1>6, <2>1, <2>2
  <2>6. shm'.count_pl_fair = shm.count_pl_fair + (c.at - d.t_count_pl_fair) - AddedBy(c)
    BY <1>2, <1>5, <2>4, <2>5
  <2> QED BY <1>1, <2>3, <2>4, <2>5, <2>6, <2>1, <2>2, GridMoves
<1>7. CASE ~ (count >= build.SEMSKIP)
  <2> PICK e : e = [c EXCEPT !.t_count_pl_fair = count]
    BY Zenon
  <2>1. e \in Child /\ e.t_count_pl_fair = count /\ e.at = c.at
    BY <1>1, <1>2 DEF Child
  <2> PICK d : d = OnToBest(i, e)
    BY Zenon
  <2>2. OnFrom(i, e, d) /\ d \in Child /\ d.t_count_pl_fair = e.t_count_pl_fair
    <3>1. OnFrom(i, e, d)
      BY <2>1, OnToBestMoves
    <3> QED BY <3>1 DEF OnFrom
  <2>3. shm' = shm /\ child' = [child EXCEPT ![i] = d]
    BY <1>7, <2>2 DEF CountLeaf
  <2>5. d.t_count_pl_fair = c.at % build.SEMSKIP /\ d.t_count_pl_fair = count
    <3>1. count < build.SEMSKIP
      BY <1>1, <1>2, <1>7
    <3> QED BY <1>4, <3>1, <2>1, <2>2
  <2>6. shm'.count_pl_fair = shm.count_pl_fair + (c.at - d.t_count_pl_fair) - AddedBy(c)
    BY <1>2, <1>5, <2>3, <2>5
  <2> QED BY <1>1, <2>3, <2>5, <2>6, <2>1, <2>2, GridMoves
<1> QED BY <1>6, <1>7

LEMMA ScoreIs ==
    ASSUME EnumerationInv, NEW i \in DOMAIN jobs, child[i].at <= Len(jobs[i])
    PROVE  Score(i) \in Nat
<1>1. ForkTypeOK /\ child[i].at \in Nat /\ child[i].at > 0
  BY ChildAt DEF EnumerationInv, Child
<1>2. child[i].at \in DOMAIN jobs[i]
  BY <1>1, Lengths
<1> QED BY <1>1, <1>2, Lengths DEF Score

LEMMA BestNowIs ==
    ASSUME EnumerationInv, NEW i \in DOMAIN jobs, child[i].at <= Len(jobs[i])
    PROVE  BestNow(i) \in Nat /\ BestNow(i) <= shm.best_pr_score
<1>1. Score(i) \in Nat /\ shm.best_pr_score \in Nat
  BY ScoreIs, ChildAt DEF Shared
<1> QED BY <1>1 DEF BestNow

LEMMA BestAt ==
    ASSUME EnumerationInv, NEW i \in DOMAIN jobs, child[i].pc = "best"
    PROVE  child[i].at <= Len(jobs[i]) /\ build.program # "distribute"
  BY ChildAt DEF Progress, AtGrid

LEMMA BestStep ==
    ASSUME EnumerationInv, NEW i \in DOMAIN jobs, BestScore(i)
    PROVE  EnumerationInv'
<1> PICK c : c = child[i]
  BY Zenon
<1> PICK b : b = BestNow(i)
  BY Zenon
<1>1. /\ c \in Child /\ Progress(c, jobs[i]) /\ shm \in Shared /\ c.pc = "best"
      /\ UNCHANGED <<build, jobs, next, children, lost, listed, printed, reported>>
  BY ChildAt DEF BestScore
<1>2. c.at <= Len(jobs[i]) /\ build.program # "distribute" /\ b \in Nat
  BY <1>1, BestAt, BestNowIs
<1>3. /\ c.at \in Nat /\ c.t_count_pl_fair \in Nat /\ Counted(c) = c.at
      /\ c.t_count_pl_fair = c.at % build.SEMSKIP
  BY <1>1, <1>2 DEF Child, Counted, Progress
<1>4. AddedBy(c) = c.at - c.t_count_pl_fair
  BY <1>1, <1>3 DEF AddedBy, Finished
<1> PICK e : e = [c EXCEPT !.t_best_pr_score = b]
  BY Zenon
<1>5. e \in Child /\ e.t_count_pl_fair = c.t_count_pl_fair /\ e.at = c.at
  BY <1>1, <1>2 DEF Child
<1> PICK d : d = OnToFair(i, e)
  BY Zenon
<1>6. OnFrom(i, e, d) /\ d \in Child /\ d.t_count_pl_fair = e.t_count_pl_fair
  <2>1. OnFrom(i, e, d)
    BY <1>5, OnToFairMoves
  <2> QED BY <2>1 DEF OnFrom
<1>7. shm' = [shm EXCEPT !.best_pr_score = b] /\ child' = [child EXCEPT ![i] = d]
  <2>1. child \in [DOMAIN jobs -> Child]
    BY ChildAt
  <2> QED BY <2>1, <1>6 DEF BestScore
<1>8. /\ shm' \in Shared /\ shm'.count_pr_fair = shm.count_pr_fair
      /\ shm'.count_pl_fair = shm.count_pl_fair /\ shm.count_pl_fair \in Nat
  BY <1>1, <1>2, <1>7 DEF Shared
<1>9. shm'.count_pl_fair = shm.count_pl_fair + (c.at - d.t_count_pl_fair) - AddedBy(c)
  BY <1>3, <1>4, <1>5, <1>6, <1>8
<1>10. d.t_count_pl_fair = c.at % build.SEMSKIP
  BY <1>3, <1>5, <1>6
<1> QED BY <1>1, <1>2, <1>7, <1>8, <1>9, <1>10, <1>5, <1>6, GridMoves

-----------------------------------------------------------------------------
(* The steps of main. *)
LEMMA UnreapedFinite ==
    ForkTypeOK => IsFiniteSet(Unreaped) /\ Cardinality(Unreaped) \in Nat
<1> SUFFICES ASSUME ForkTypeOK PROVE IsFiniteSet(Unreaped) /\ Cardinality(Unreaped) \in Nat
  OBVIOUS
<1>1. IsFiniteSet(DOMAIN jobs) /\ Unreaped \subseteq DOMAIN jobs
  BY Lengths DEF Unreaped
<1> QED BY <1>1, FS_Subset, FS_CardinalityType

LEMMA MainAt ==
    ASSUME EnumerationInv
    PROVE  /\ ForkTypeOK /\ ForkedInv /\ ProgressInv /\ PrintedInv /\ ListedInv /\ CountsInv
           /\ ReportedInv /\ child \in [DOMAIN jobs -> Child] /\ next \in Nat /\ next > 0
           /\ next <= Len(jobs) + 1 /\ Len(jobs) \in Nat /\ DOMAIN jobs = 1 .. Len(jobs)
           /\ children \in Nat /\ build.MAXTHREADS \in Nat \ {0}
  BY Lengths, ForkSearchAssumption DEF EnumerationInv, ForkTypeOK

LEMMA SumsStay ==
    ASSUME ForkTypeOK, CountsInv, NEW i \in DOMAIN jobs \ lost,
           UNCHANGED <<jobs, build, lost, shm, printed>>, child' \in [DOMAIN jobs -> Child],
           \A j \in DOMAIN jobs \ {i} : child'[j] = child[j],
           AddedBy(child'[i]) = AddedBy(child[i])
    PROVE  CountsInv'
<1>1. child[i] \in Child /\ shm \in Shared
  BY DEF ForkTypeOK
<1>2. AddedBy(child[i]) \in Int /\ shm.count_pl_fair \in Int
  BY <1>1, CountsTyped DEF Shared
<1>3. shm'.count_pl_fair = shm.count_pl_fair + AddedBy(child'[i]) - AddedBy(child[i])
  BY <1>2
<1> QED BY <1>3, CountsMove

(* No child moves.                                                         *)
LEMMA CountsSame ==
    ASSUME UNCHANGED <<build, jobs, child, shm, printed>>
    PROVE  CountsInv' <=> (build.program # "distribute" =>
               /\ IsFiniteSet(printed) /\ shm.count_pr_fair = Cardinality(printed)
               /\ shm.count_pl_fair
                   = Total([j \in DOMAIN jobs |-> AddedBy(child[j])], DOMAIN jobs \ lost'))
<1>1. AddsRest' <=> AddsRest
  BY DEF AddsRest, Forking
<1>2. \A j \in DOMAIN jobs : (AddedBy(child[j]))' = AddedBy(child[j])
  BY <1>1 DEF AddedBy, Counted
<1>3. [j \in DOMAIN jobs |-> (AddedBy(child[j]))'] = [j \in DOMAIN jobs |-> AddedBy(child[j])]
  BY <1>2, Zenon
<1>4. ([j \in DOMAIN jobs |-> AddedBy(child[j])])' = [j \in DOMAIN jobs |-> (AddedBy(child[j]))']
  BY Zenon
<1> QED BY <1>3, <1>4, CountsAreNext

LEMMA ForkStep == EnumerationInv /\ Fork => EnumerationInv'
<1> SUFFICES ASSUME EnumerationInv, Fork PROVE EnumerationInv'
  OBVIOUS
<1> PICK i : i = next
  BY Zenon
<1> PICK c : c = child[i]
  BY Zenon
<1> PICK p : p = IF Forking THEN "start" ELSE "leaf"
  BY Zenon
<1> PICK d : d = [c EXCEPT !.pc = p]
  BY Zenon
<1>1. /\ i \in DOMAIN jobs /\ i \in Nat /\ next = i /\ next' = i + 1 /\ c \in Child
      /\ Progress(c, jobs[i])
      /\ child' = [child EXCEPT ![i].pc = p] /\ child \in [DOMAIN jobs -> Child]
      /\ p \in {"start", "leaf"} /\ p = "start" <=> Forking
  <2>1. i \in DOMAIN jobs /\ i \in Nat /\ next = i
    BY MainAt DEF Fork
  <2>2. c \in Child /\ Progress(c, jobs[i]) /\ child \in [DOMAIN jobs -> Child]
    BY <2>1, ChildAt
  <2>3. next' = i + 1 /\ child' = [child EXCEPT ![i].pc = p]
    BY DEF Fork
  <2> QED BY <2>1, <2>2, <2>3
<1>2. /\ Forking => children' = children + 1
      /\ ~ Forking => children' = children
      /\ UNCHANGED <<build, jobs, shm, lost, listed, printed, reported>>
  BY DEF Fork
<1>3. /\ i \notin lost /\ c.pc = "none" /\ \A j \in DOMAIN jobs : Forked(j)
  <2>1. \A j \in DOMAIN jobs : Forked(j)
    BY MainAt DEF ForkedInv
  <2> QED BY <2>1, <1>1 DEF Forked
<1>4. /\ d \in Child /\ d.pc = p /\ d.at = c.at /\ d.t_count_pl_fair = c.t_count_pl_fair
      /\ child' = [child EXCEPT ![i] = d]
  BY <1>1 DEF Child
<1>5. /\ child' \in [DOMAIN jobs -> Child] /\ child'[i] = d
      /\ \A j \in DOMAIN jobs \ {i} : child'[j] = child[j]
  BY <1>1, <1>4
<1>6. Forking' <=> Forking
  BY <1>2 DEF Forking
<1>7. ForkTypeOK'
  <2>1. next' \in 1 .. Len(jobs) + 1 /\ children' \in Nat
    BY <1>1, <1>2, MainAt
  <2> QED BY <1>2, <1>5, <2>1, MainAt DEF ForkTypeOK
<1>8. ForkedInv'
  <2>1. \A j \in DOMAIN jobs : Forked(j)'
    <3> SUFFICES ASSUME NEW j \in DOMAIN jobs PROVE Forked(j)'
      OBVIOUS
    <3>1. j \in Nat
      BY MainAt
    <3>2. CASE j = i
      BY <1>1, <1>2, <1>3, <1>4, <1>5, <1>6, <3>1, <3>2 DEF Forked
    <3>3. CASE j # i
      <4>1. child'[j] = child[j] /\ Forked(j)
        BY <1>3, <1>5, <3>3
      <4>2. j >= next <=> j >= next'
        BY <1>1, <3>1, <3>3
      <4> QED BY <1>2, <1>6, <4>1, <4>2, <1>1, <3>1, <3>3 DEF Forked
    <3> QED BY <3>2, <3>3
  <2>2. CASE Forking
    <3>1. Unreaped' = Unreaped \cup {i}
      <4>1. \A j \in DOMAIN jobs : child'[j].pc \notin {"none", "reaped"}
                                       <=> child[j].pc \notin {"none", "reaped"} \/ j = i
        BY <1>1, <1>4, <1>5
      <4> QED BY <1>1, <1>2, <4>1 DEF Unreaped
    <3>2. i \notin Unreaped
      BY <1>3 DEF Unreaped
    <3>3. /\ Cardinality(Unreaped \cup {i}) = Cardinality(Unreaped) + 1
          /\ Cardinality(Unreaped) \in Nat
      BY <3>2, MainAt, UnreapedFinite, FS_AddElement
    <3>4. Cardinality(Unreaped) <= children
      BY <2>2, MainAt DEF ForkedInv
    <3>5. Cardinality(Unreaped') <= children'
      BY <1>2, <2>2, <3>1, <3>3, <3>4, MainAt
    <3> QED BY <1>6, <2>1, <2>2, <3>5, <1>2 DEF ForkedInv
  <2>3. CASE ~ Forking
    <3>1. children' = 0
      BY <1>2, <2>3, MainAt DEF ForkedInv
    <3> QED BY <1>2, <1>6, <2>1, <2>3, <3>1 DEF ForkedInv
  <2> QED BY <2>2, <2>3
<1>9. ProgressInv'
  <2>1. Progress(d, jobs[i])
    BY <1>1, <1>3, <1>4 DEF Progress, Counted, Finished, AtGrid
  <2> SUFFICES ASSUME NEW j \in DOMAIN jobs PROVE Progress(child[j], jobs[j])'
    BY <1>2 DEF ProgressInv
  <2>2. CASE j = i
    BY <1>2, <1>5, <2>1, <2>2 DEF Progress, Counted
  <2>3. CASE j # i
    <3>1. child'[j] = child[j] /\ Progress(child[j], jobs[j])
      BY <1>5, <2>3, MainAt DEF ProgressInv
    <3> QED BY <1>2, <3>1 DEF Progress, Counted
  <2> QED BY <2>2, <2>3
<1>10. AddedBy(d) = AddedBy(c)
  BY <1>1, <1>3, <1>4 DEF AddedBy, Counted, Finished
<1>11. Through(d) = Through(c) /\ Listed(d) = Listed(c)
  BY <1>1, <1>3, <1>4 DEF Through, Listed, AtGrid
<1>12. PrintedInv' /\ ListedInv'
  <2>1. \A j \in DOMAIN jobs : /\ Through(child'[j]) = Through(child[j])
                               /\ Listed(child'[j]) = Listed(child[j])
    BY <1>5, <1>11
  <2> QED BY <1>2, <2>1, MainAt, PrintedStays, ListedStays
<1>13. CountsInv'
  <2>1. i \in DOMAIN jobs \ lost
    BY <1>1, <1>3
  <2>2. AddedBy(child'[i]) = AddedBy(child[i])
    BY <1>5, <1>10
  <2> QED BY <1>2, <1>5, <2>1, <2>2, MainAt, SumsStay
<1>14. ReportedInv'
  <2>1. ~ reported
    BY <1>1, MainAt DEF ReportedInv
  <2> QED BY <1>2, <2>1, MainAt DEF ReportedInv
<1> QED BY <1>7, <1>8, <1>9, <1>12, <1>13, <1>14 DEF EnumerationInv

LEMMA ForkFailsStep == EnumerationInv /\ ForkFails => EnumerationInv'
<1> SUFFICES ASSUME EnumerationInv, ForkFails PROVE EnumerationInv'
  OBVIOUS
<1> PICK i : i = next
  BY Zenon
<1>1. /\ i \in DOMAIN jobs /\ i \in Nat /\ next = i /\ next' = i + 1 /\ Forking
      /\ children' = children + 1 /\ lost' = lost \cup {i}
      /\ UNCHANGED <<build, jobs, child, shm, listed, printed, reported>>
  BY MainAt DEF ForkFails
<1>3. /\ i \notin lost /\ child[i].pc = "none" /\ \A j \in DOMAIN jobs : Forked(j)
  <2>1. \A j \in DOMAIN jobs : Forked(j)
    BY MainAt DEF ForkedInv
  <2> QED BY <2>1, <1>1 DEF Forked
<1>6. Forking' <=> Forking
  BY <1>1 DEF Forking
<1>7. ForkTypeOK'
  <2>1. next' \in 1 .. Len(jobs) + 1 /\ children' \in Nat /\ lost' \subseteq DOMAIN jobs
    BY <1>1, MainAt DEF ForkTypeOK
  <2> QED BY <1>1, <2>1, MainAt DEF ForkTypeOK
<1>8. ForkedInv'
  <2>1. \A j \in DOMAIN jobs : Forked(j)'
    <3> SUFFICES ASSUME NEW j \in DOMAIN jobs PROVE Forked(j)'
      OBVIOUS
    <3>1. j \in Nat /\ Forked(j) /\ child'[j] = child[j]
      BY <1>1, <1>3, MainAt
    <3>2. CASE j = i
      BY <1>1, <1>3, <1>6, <3>1, <3>2 DEF Forked
    <3>3. CASE j # i
      <4>1. j >= next <=> j >= next'
        BY <1>1, <3>1, <3>3
      <4>2. j \in lost' <=> j \in lost
        BY <1>1, <3>3
      <4> QED BY <1>6, <3>1, <4>1, <4>2, <1>1, <3>3 DEF Forked
    <3> QED BY <3>2, <3>3
  <2>2. Unreaped' = Unreaped
    BY <1>1 DEF Unreaped
  <2>3. Cardinality(Unreaped) <= children
    BY <1>1, MainAt DEF ForkedInv
  <2>4. Cardinality(Unreaped') <= children'
    BY <1>1, <2>2, <2>3, MainAt, UnreapedFinite
  <2> QED BY <1>1, <1>6, <2>1, <2>4 DEF ForkedInv
<1>9. ProgressInv'
  BY <1>1, MainAt DEF ProgressInv, Progress, Counted
<1>12. PrintedInv' /\ ListedInv'
  BY <1>1, MainAt, PrintedStays, ListedStays
<1>13. CountsInv'
  <2>2. CountsInv' <=> (build.program # "distribute" =>
            /\ IsFiniteSet(printed) /\ shm.count_pr_fair = Cardinality(printed)
            /\ shm.count_pl_fair
                = Total([j \in DOMAIN jobs |-> AddedBy(child[j])], DOMAIN jobs \ lost'))
    BY <1>1, CountsSame
  <2>3. ASSUME build.program # "distribute"
        PROVE  AddedBy(child[i]) = 0
    <3> PICK c : c = child[i]
      BY Zenon
    <3> PICK k : k = build.SEMSKIP
      BY Zenon
    <3>1. c.at = 1 /\ c.t_count_pl_fair = Counted(c) % k /\ c.pc = "none" /\ k \in Nat \ {0}
      BY <1>1, <1>3, <2>3, ChildAt DEF Progress
    <3>2. Counted(c) = 0
      BY <3>1 DEF Counted
    <3>3. 0 % k = 0
      BY <3>1
    <3> QED BY <3>1, <3>2, <3>3 DEF AddedBy, Finished
  <2> SUFFICES ASSUME build.program # "distribute"
               PROVE  Total([j \in DOMAIN jobs |-> AddedBy(child[j])], DOMAIN jobs \ lost)
                        = Total([j \in DOMAIN jobs |-> AddedBy(child[j])], DOMAIN jobs \ lost')
    BY <2>2, MainAt, CountsAre
  <2> PICK f : f = [j \in DOMAIN jobs |-> AddedBy(child[j])]
    BY Zenon
  <2> PICK S : S = DOMAIN jobs \ lost
    BY Zenon
  <2>4. /\ IsFiniteSet(S) /\ i \in S /\ DOMAIN jobs \ lost' = S \ {i}
    <3>1. IsFiniteSet(DOMAIN jobs)
      BY MainAt, Lengths
    <3> QED BY <1>1, <1>3, <3>1, FS_Subset
  <2>5. \A j \in S : f[j] \in Int
    <3>1. \A j \in DOMAIN jobs : child[j] \in Child
      BY MainAt
    <3> QED BY <3>1, CountsTyped
  <2>6. f[i] = 0
    BY <1>1, <2>3
  <2>7. Total(f, S) = f[i] + Total(f, S \ {i})
    BY <2>4, <2>5, TotalTakesOut
  <2>8. Total(f, S \ {i}) \in Int
    <3>1. IsFiniteSet(S \ {i})
      BY <2>4, FS_Subset
    <3> QED BY <2>5, <3>1, TotalTakesOut
  <2>9. Total(f, S) = Total(f, S \ {i})
    BY <2>6, <2>7, <2>8
  <2> QED BY <2>4, <2>9, Zenon
<1>14. ReportedInv'
  <2>1. ~ reported
    BY <1>1, MainAt DEF ReportedInv
  <2> QED BY <1>1, <2>1, MainAt DEF ReportedInv
<1> QED BY <1>7, <1>8, <1>9, <1>12, <1>13, <1>14 DEF EnumerationInv

LEMMA WaitStep == EnumerationInv /\ Wait => EnumerationInv'
<1> SUFFICES ASSUME EnumerationInv, Wait PROVE EnumerationInv'
  OBVIOUS
<1>1. /\ children' = children - 1 /\ children > 0 /\ children \in Nat
      /\ UNCHANGED <<build, jobs, next, shm, lost, listed, printed, reported>>
  <2>1. children > 0
    BY MainAt DEF Wait
  <2> QED BY <2>1, MainAt DEF Wait
<1>2. Forking /\ (Forking' <=> Forking) /\ Cardinality(Unreaped) <= children /\ ~ reported
  <2>1. Forking
    BY <1>1, MainAt DEF ForkedInv
  <2>2. Cardinality(Unreaped) <= children
    BY <2>1, MainAt DEF ForkedInv
  <2>3. ~ reported
    BY <1>1, MainAt DEF ReportedInv
  <2> QED BY <1>1, <2>1, <2>2, <2>3 DEF Forking
<1>3. ReportedInv'
  BY <1>1, <1>2, MainAt DEF ReportedInv
<1>4. Cardinality(Unreaped) \in Nat /\ IsFiniteSet(Unreaped)
  BY MainAt, UnreapedFinite
<1>5. CASE Unreaped = {} /\ UNCHANGED child
  <2>1. ForkTypeOK'
    BY <1>1, <1>5, MainAt DEF ForkTypeOK
  <2>2. ForkedInv'
    <3>1. \A j \in DOMAIN jobs : Forked(j)'
      BY <1>1, <1>2, <1>5, MainAt DEF ForkedInv, Forked
    <3>2. Unreaped' = {}
      BY <1>1, <1>5 DEF Unreaped
    <3>3. Cardinality(Unreaped') <= children'
      BY <1>1, <3>2, FS_EmptySet
    <3> QED BY <1>1, <1>2, <3>1, <3>3 DEF ForkedInv
  <2>3. ProgressInv'
    BY <1>1, <1>5, MainAt DEF ProgressInv, Progress, Counted
  <2>4. PrintedInv' /\ ListedInv'
    BY <1>1, <1>5, MainAt, PrintedStays, ListedStays
  <2>5. CountsInv'
    BY <1>1, <1>5, MainAt, CountsSame, CountsAre
  <2> QED BY <1>3, <2>1, <2>2, <2>3, <2>4, <2>5 DEF EnumerationInv
<1>6. CASE \E i \in Unreaped :
              child[i].pc = "exited" /\ child' = [child EXCEPT ![i].pc = "reaped"]
  <2> PICK i \in Unreaped : child[i].pc = "exited" /\ child' = [child EXCEPT ![i].pc = "reaped"]
    BY <1>6
  <2> PICK c : c = child[i]
    BY Zenon
  <2> PICK d : d = [c EXCEPT !.pc = "reaped"]
    BY Zenon
  <2>1. /\ i \in DOMAIN jobs /\ c \in Child /\ Progress(c, jobs[i]) /\ c.pc = "exited"
        /\ child \in [DOMAIN jobs -> Child]
    <3>1. i \in DOMAIN jobs
      BY DEF Unreaped
    <3> QED BY <3>1, ChildAt
  <2>2. /\ d \in Child /\ d.pc = "reaped" /\ d.at = c.at /\ d.t_count_pl_fair = c.t_count_pl_fair
        /\ child' = [child EXCEPT ![i] = d]
    BY <2>1 DEF Child, Finished
  <2>3. /\ child' \in [DOMAIN jobs -> Child] /\ child'[i] = d
        /\ \A j \in DOMAIN jobs \ {i} : child'[j] = child[j]
    BY <2>1, <2>2
  <2>4. ForkTypeOK'
    BY <1>1, <2>3, MainAt DEF ForkTypeOK
  <2>5. ForkedInv'
    <3>1. \A j \in DOMAIN jobs : Forked(j)'
      <4> SUFFICES ASSUME NEW j \in DOMAIN jobs PROVE Forked(j)'
        OBVIOUS
      <4>1. Forked(j)
        BY MainAt DEF ForkedInv
      <4>2. CASE j = i
        BY <1>1, <1>2, <2>1, <2>2, <2>3, <4>1, <4>2 DEF Forked
      <4>3. CASE j # i
        BY <1>1, <1>2, <2>3, <4>1, <4>3 DEF Forked
      <4> QED BY <4>2, <4>3
    <3>2. Unreaped' = Unreaped \ {i}
      <4>1. \A j \in DOMAIN jobs : child'[j].pc \notin {"none", "reaped"}
                                       <=> child[j].pc \notin {"none", "reaped"} /\ j # i
        BY <2>2, <2>3
      <4> QED BY <1>1, <4>1 DEF Unreaped
    <3>3. Cardinality(Unreaped \ {i}) = Cardinality(Unreaped) - 1
      BY <1>4, FS_RemoveElement
    <3>4. Cardinality(Unreaped') <= children'
      BY <1>1, <1>2, <1>4, <3>2, <3>3
    <3> QED BY <1>1, <1>2, <3>1, <3>4 DEF ForkedInv
  <2>6. ProgressInv'
    <3>1. Progress(d, jobs[i])
      BY <2>1, <2>2 DEF Progress, Counted, Finished, AtGrid
    <3> SUFFICES ASSUME NEW j \in DOMAIN jobs PROVE Progress(child[j], jobs[j])'
      BY <1>1 DEF ProgressInv
    <3>2. CASE j = i
      BY <1>1, <2>3, <3>1, <3>2 DEF Progress, Counted
    <3>3. CASE j # i
      <4>1. child'[j] = child[j] /\ Progress(child[j], jobs[j])
        BY <2>3, <3>3, MainAt DEF ProgressInv
      <4> QED BY <1>1, <4>1 DEF Progress, Counted
    <3> QED BY <3>2, <3>3
  <2>7. AddedBy(d) = AddedBy(c)
    BY <2>1, <2>2 DEF AddedBy, Counted, Finished
  <2>8. Through(d) = Through(c) /\ Listed(d) = Listed(c)
    BY <2>1, <2>2 DEF Through, Listed, AtGrid
  <2>9. PrintedInv' /\ ListedInv'
    <3>1. \A j \in DOMAIN jobs : /\ Through(child'[j]) = Through(child[j])
                                 /\ Listed(child'[j]) = Listed(child[j])
      BY <2>3, <2>8
    <3> QED BY <1>1, <3>1, MainAt, PrintedStays, ListedStays
  <2>10. CountsInv'
    <3>1. i \in DOMAIN jobs \ lost
      <4>1. Forked(i)
        BY <2>1, MainAt DEF ForkedInv
      <4> QED BY <2>1, <4>1 DEF Forked
    <3>2. AddedBy(child'[i]) = AddedBy(child[i])
      BY <2>3, <2>7
    <3> QED BY <1>1, <2>3, <3>1, <3>2, MainAt, SumsStay
  <2> QED BY <1>3, <2>4, <2>5, <2>6, <2>9, <2>10 DEF EnumerationInv
<1> QED BY <1>5, <1>6 DEF Wait

LEMMA ReportStep == EnumerationInv /\ Report => EnumerationInv'
<1> SUFFICES ASSUME EnumerationInv, Report PROVE EnumerationInv'
  OBVIOUS
<1>1. /\ reported' = TRUE /\ next = Len(jobs) + 1 /\ children = 0
      /\ UNCHANGED <<build, jobs, next, children, child, shm, lost, listed, printed>>
  BY MainAt DEF Report, Drained
<1>2. (Forking' <=> Forking) /\ (AddsRest' <=> AddsRest)
  BY <1>1 DEF Forking, AddsRest
<1>3. ForkTypeOK'
  BY <1>1, MainAt DEF ForkTypeOK
<1>4. ForkedInv'
  <2>1. \A j \in DOMAIN jobs : Forked(j)'
    BY <1>1, <1>2, MainAt DEF ForkedInv, Forked
  <2>2. Unreaped' = Unreaped
    BY <1>1 DEF Unreaped
  <2> QED BY <1>1, <1>2, <2>1, <2>2, MainAt DEF ForkedInv
<1>5. ProgressInv'
  BY <1>1, MainAt DEF ProgressInv, Progress, Counted
<1>6. PrintedInv' /\ ListedInv'
  BY <1>1, MainAt, PrintedStays, ListedStays
<1>7. CountsInv'
  BY <1>1, MainAt, CountsSame, CountsAre
<1>8. \A i \in DOMAIN jobs \ lost : /\ Forking => child[i].pc = "reaped"
                                    /\ ~ Forking => child[i].pc = "exited"
  <2> SUFFICES ASSUME NEW i \in DOMAIN jobs \ lost
               PROVE  /\ Forking => child[i].pc = "reaped"
                      /\ ~ Forking => child[i].pc = "exited"
    OBVIOUS
  <2>1. CASE Forking
    <3>1. Cardinality(Unreaped) <= 0
      BY <1>1, <2>1, MainAt DEF ForkedInv
    <3>2. Unreaped = {}
      BY <3>1, MainAt, UnreapedFinite, FS_EmptySet
    <3>3. child[i].pc \in {"none", "reaped"}
      BY <3>2 DEF Unreaped
    <3>4. child[i].pc # "none"
      <4>1. Forked(i) /\ i \in Nat /\ i < next
        BY <1>1, MainAt DEF ForkedInv
      <4> QED BY <4>1, MainAt DEF Forked
    <3> QED BY <2>1, <3>3, <3>4
  <2>2. CASE ~ Forking
    BY <2>2 DEF Report
  <2> QED BY <2>1, <2>2
<1>9. ReportedInv'
  BY <1>1, <1>2, <1>8 DEF ReportedInv
<1> QED BY <1>3, <1>4, <1>5, <1>6, <1>7, <1>9 DEF EnumerationInv

LEMMA EnumerationFrame == EnumerationInv /\ UNCHANGED searchVars => EnumerationInv'
<1> SUFFICES ASSUME EnumerationInv, UNCHANGED searchVars PROVE EnumerationInv'
  OBVIOUS
<1>1. UNCHANGED <<build, jobs, next, children, child, shm, lost, listed, printed, reported>>
  BY DEF searchVars
<1>2. (Forking' <=> Forking) /\ (AddsRest' <=> AddsRest)
  BY <1>1 DEF Forking, AddsRest
<1>3. ForkTypeOK'
  BY <1>1, MainAt DEF ForkTypeOK
<1>4. ForkedInv'
  <2>1. \A j \in DOMAIN jobs : Forked(j)'
    BY <1>1, <1>2, MainAt DEF ForkedInv, Forked
  <2>2. Unreaped' = Unreaped
    BY <1>1 DEF Unreaped
  <2> QED BY <1>1, <1>2, <2>1, <2>2, MainAt DEF ForkedInv
<1>5. ProgressInv'
  BY <1>1, MainAt DEF ProgressInv, Progress, Counted
<1>6. PrintedInv' /\ ListedInv'
  BY <1>1, MainAt, PrintedStays, ListedStays
<1>7. CountsInv'
  BY <1>1, MainAt, CountsSame, CountsAre
<1>8. ReportedInv'
  BY <1>1, <1>2, MainAt DEF ReportedInv
<1> QED BY <1>3, <1>4, <1>5, <1>6, <1>7, <1>8 DEF EnumerationInv

LEMMA EnumerationStep == EnumerationInv /\ SearchNext => EnumerationInv'
<1> SUFFICES ASSUME EnumerationInv, SearchNext PROVE EnumerationInv'
  OBVIOUS
<1>1. CASE Fork
  BY <1>1, ForkStep
<1>2. CASE ForkFails
  BY <1>2, ForkFailsStep
<1>3. CASE Wait
  BY <1>3, WaitStep
<1>4. CASE Report
  BY <1>4, ReportStep
<1>5. CASE Ended
  BY <1>5, EnumerationFrame DEF Ended
<1>6. CASE \E i \in DOMAIN jobs : Start(i) \/ ListLeaf(i) \/ PrintPlaces(i) \/ CountLeaf(i)
                                  \/ BestScore(i) \/ PrintFair(i) \/ Exit(i)
  BY <1>6, StartStep, ListStep, PlacesStep, CountStep, BestStep, FairStep, ExitStep
<1> QED BY <1>1, <1>2, <1>3, <1>4, <1>5, <1>6 DEF SearchNext

-----------------------------------------------------------------------------
(* The enumerations as a whole. *)
LEMMA EnumerationStarts == SearchInit => EnumerationInv
<1> SUFFICES ASSUME SearchInit PROVE EnumerationInv
  OBVIOUS
<1> PICK b \in Builds : \E js \in {Jobs(b)} :
        /\ build = b /\ jobs = js
        /\ next = 1 /\ children = 0 /\ lost = {} /\ listed = {} /\ printed = {} /\ reported = FALSE
        /\ child = [i \in DOMAIN js |-> NotForked]
        /\ shm = [count_pl_fair |-> 0, count_pr_fair |-> 0, goal_count |-> 1,
                  best_pr_score |-> StartingBest(b)]
  BY DEF SearchInit
<1>1. /\ build = b /\ jobs = Jobs(b)
      /\ next = 1 /\ children = 0 /\ lost = {} /\ listed = {} /\ printed = {} /\ reported = FALSE
      /\ child = [i \in DOMAIN jobs |-> NotForked]
      /\ shm = [count_pl_fair |-> 0, count_pr_fair |-> 0, goal_count |-> 1,
                best_pr_score |-> StartingBest(b)]
  OBVIOUS
<1>2. AreJobs(jobs) /\ StartingBest(b) \in Nat /\ build \in Builds
  BY <1>1, JobsAssumption
<1>3. Len(jobs) \in Nat /\ DOMAIN jobs = 1 .. Len(jobs)
  BY <1>2 DEF AreJobs
<1>4. NotForked \in Child
  BY DEF NotForked, Child
<1>5. ForkTypeOK
  <2>1. child \in [DOMAIN jobs -> Child]
    BY <1>1, <1>4
  <2>2. shm \in Shared
    BY <1>1, <1>2 DEF Shared
  <2>3. next \in 1 .. Len(jobs) + 1 /\ children \in Nat /\ lost \subseteq DOMAIN jobs
    BY <1>1, <1>3
  <2> QED BY <1>2, <2>1, <2>2, <2>3 DEF ForkTypeOK
<1>6. \A i \in DOMAIN jobs : child[i] = NotForked /\ i \in Nat /\ i > 0
  BY <1>1, <1>3
<1>7. NotForked.pc = "none" /\ NotForked.at = 1 /\ NotForked.t_count_pl_fair = 0
  BY DEF NotForked
<1>8. ForkedInv
  <2>1. \A i \in DOMAIN jobs : Forked(i)
    BY <1>1, <1>6, <1>7 DEF Forked
  <2>2. Unreaped = {}
    BY <1>6, <1>7 DEF Unreaped
  <2>3. Cardinality(Unreaped) = 0
    BY <2>2, FS_EmptySet
  <2> QED BY <1>1, <2>1, <2>3 DEF ForkedInv
<1>9. ProgressInv
  <2> SUFFICES ASSUME NEW i \in DOMAIN jobs PROVE Progress(child[i], jobs[i])
    BY DEF ProgressInv
  <2>1. Len(jobs[i]) \in Nat /\ child[i] = NotForked
    BY <1>5, <1>6, Lengths
  <2>2. Counted(NotForked) = 0
    BY <1>7 DEF Counted
  <2>3. 0 % build.SEMSKIP = 0
    BY <1>2, ForkSearchAssumption
  <2> QED BY <1>7, <2>1, <2>2, <2>3 DEF Progress, Finished, AtGrid
<1>10. \A x \in Sites : x[1] \in DOMAIN jobs /\ x[2] \in Nat /\ x[2] > 0
  BY <1>5, SitesAre
<1>11. Through(NotForked) = 0 /\ Listed(NotForked) = 0
  BY <1>7 DEF Through, Listed, AtGrid
<1>12. PrintedInv /\ ListedInv
  <2>1. \A x \in Sites : ~ (x[2] <= Through(child[x[1]])) /\ ~ (x[2] <= Listed(child[x[1]]))
    BY <1>6, <1>10, <1>11
  <2> QED BY <1>1, <2>1 DEF PrintedInv, ListedInv
<1>13. CountsInv
  <2>1. IsFiniteSet({}) /\ Cardinality({}) = 0
    BY FS_EmptySet
  <2>2. PICK f : f = [i \in DOMAIN jobs |-> AddedBy(child[i])]
    BY Zenon
  <2>3. AddedBy(NotForked) = 0
    BY <1>7 DEF AddedBy, Counted, Finished
  <2>4. \A i \in DOMAIN jobs : f[i] = 0
    BY <1>6, <2>2, <2>3
  <2>5. IsFiniteSet(DOMAIN jobs \ lost) /\ \A i \in DOMAIN jobs \ lost : f[i] = 0
    BY <1>5, <2>4, Lengths, FS_Subset
  <2>6. Total(f, DOMAIN jobs \ lost) = 0
    BY <2>5, TotalOfZeros
  <2> QED BY <1>1, <2>1, <2>2, <2>6, CountsAre
<1>14. ReportedInv
  BY <1>1 DEF ReportedInv
<1> QED BY <1>5, <1>8, <1>9, <1>12, <1>13, <1>14 DEF EnumerationInv

LEMMA ForkInvInit == Init => ForkInv
  BY EnumerationStarts DEF Init, Climbs, ForkInv

LEMMA ForkInvStep == ForkInv /\ [Next]_vars => ForkInv'
<1> SUFFICES ASSUME ForkInv, [Next]_vars PROVE ForkInv'
  OBVIOUS
<1>1. CASE UNCHANGED searchVars
  <2>1. build' = build /\ reported' = reported
    BY <1>1 DEF searchVars
  <2> QED BY <1>1, <2>1, EnumerationFrame DEF ForkInv
<1>2. CASE build # <<>> /\ SearchNext
  BY <1>2, EnumerationStep DEF ForkInv
<1> QED BY <1>1, <1>2 DEF Next, vars

(* The inductive invariant of the forked enumerations.                     *)
THEOREM ForkInvariance == Spec => []ForkInv
  BY ForkInvInit, ForkInvStep, PTL DEF Spec

(* At the end every job that was forked for is through.                    *)
LEMMA AllThrough ==
    ASSUME EnumerationInv, reported, NEW i \in DOMAIN jobs
    PROVE  /\ Len(jobs[i]) \in Nat /\ child[i].pc \notin AtGrid
           /\ i \notin lost => child[i].at = Len(jobs[i]) + 1 /\ child[i].pc \in Finished
           /\ i \in lost => child[i].at = 1 /\ child[i].pc = "none"
<1>1. Len(jobs[i]) \in Nat /\ Progress(child[i], jobs[i])
  BY ChildAt, Lengths DEF EnumerationInv
<1>2. CASE i \in lost
  <2>1. child[i].pc = "none"
    BY <1>2, MainAt DEF ForkedInv, Forked
  <2> QED BY <1>1, <1>2, <2>1 DEF Progress, AtGrid
<1>3. CASE i \notin lost
  <2>1. child[i].pc \in Finished
    BY <1>3, MainAt DEF ReportedInv, Finished
  <2> QED BY <1>1, <1>3, <2>1 DEF Progress, AtGrid, Finished
<1> QED BY <1>2, <1>3

LEMMA TotalsAreThen == EnumerationInv => TotalsAreExact
<1> SUFFICES ASSUME EnumerationInv, reported
             PROVE  TotalsAreExact
  BY DEF TotalsAreExact
<1> DEFINE searched == DOMAIN jobs \ lost
           grids == UNION {{<<i, j>> : j \in DOMAIN jobs[i]} : i \in searched}
           share == [i \in searched |->
                IF AddsRest THEN Len(jobs[i]) ELSE Len(jobs[i]) - (Len(jobs[i]) % build.SEMSKIP)]
<1>0. ForkTypeOK /\ DOMAIN jobs = 1 .. Len(jobs) /\ IsFiniteSet(searched)
  BY Lengths, FS_Subset, MainAt
<1>1. \A x : x \in grids <=> x \in Sites /\ x[1] \notin lost
  <2>1. \A x : x \in grids <=> \E i \in searched : \E j \in DOMAIN jobs[i] : x = <<i, j>>
    OBVIOUS
  <2>2. \A x : x \in Sites <=> \E i \in DOMAIN jobs : \E j \in DOMAIN jobs[i] : x = <<i, j>>
    BY <1>0, SiteIs
  <2> HIDE DEF grids
  <2>3. ASSUME NEW x \in grids PROVE x \in Sites /\ x[1] \notin lost
    <3>1. PICK i \in searched : \E j \in DOMAIN jobs[i] : x = <<i, j>>
      BY <2>1
    <3> QED BY <2>2, <3>1
  <2>4. ASSUME NEW x \in Sites, x[1] \notin lost PROVE x \in grids
    <3>1. PICK i \in DOMAIN jobs : \E j \in DOMAIN jobs[i] : x = <<i, j>>
      BY <2>2
    <3>2. x[1] = i
      BY <3>1
    <3> QED BY <2>1, <2>4, <3>1, <3>2
  <2> QED BY <2>3, <2>4
<1> HIDE DEF grids
<1>2. ASSUME NEW x \in Sites
      PROVE  /\ x[2] <= Through(child[x[1]]) <=> x[1] \notin lost
             /\ x[2] <= Listed(child[x[1]]) <=> x[1] \notin lost
  <2>1. /\ x[1] \in DOMAIN jobs /\ x[2] \in DOMAIN jobs[x[1]] /\ x[2] \in Nat /\ x[2] > 0
        /\ DOMAIN jobs[x[1]] = 1 .. Len(jobs[x[1]])
    BY <1>0, SitesAre, Lengths
  <2>2. /\ Len(jobs[x[1]]) \in Nat /\ child[x[1]].pc \notin AtGrid
        /\ x[1] \notin lost => child[x[1]].at = Len(jobs[x[1]]) + 1
        /\ x[1] \in lost => child[x[1]].at = 1
    BY <2>1, AllThrough
  <2> QED BY <2>1, <2>2 DEF Through, Listed
<1>3. Unreaped = {} \/ ~ Forking
  <2> SUFFICES ASSUME Forking PROVE Unreaped = {}
    OBVIOUS
  <2>1. Cardinality(Unreaped) <= 0
    BY MainAt DEF ForkedInv, ReportedInv
  <2> QED BY <2>1, MainAt, UnreapedFinite, FS_EmptySet
<1>4. printed = {x \in grids : jobs[x[1]][x[2]].score \in {0}}
  BY <1>1, <1>2, MainAt DEF PrintedInv
<1>5. listed = IF build.program \in {"weak", "distribute"} THEN grids ELSE {}
  BY <1>1, <1>2, MainAt DEF ListedInv
<1>6. build.program # "distribute" =>
          /\ shm.count_pr_fair = Cardinality(printed)
          /\ shm.count_pl_fair = MapThenSumSet(LAMBDA i : share[i], searched)
  <2> SUFFICES ASSUME build.program # "distribute"
               PROVE  /\ shm.count_pr_fair = Cardinality(printed)
                      /\ shm.count_pl_fair = MapThenSumSet(LAMBDA i : share[i], searched)
    OBVIOUS
  <2> PICK f : f = [i \in DOMAIN jobs |-> AddedBy(child[i])]
    BY Zenon
  <2> PICK g : g = share
    BY Zenon
  <2>1. shm.count_pr_fair = Cardinality(printed) /\ shm.count_pl_fair = Total(f, searched)
    BY MainAt, CountsAre
  <2>2. ASSUME NEW i \in searched PROVE f[i] \in Int /\ g[i] = f[i]
    <3>1. /\ Len(jobs[i]) \in Nat /\ child[i].at = Len(jobs[i]) + 1 /\ child[i].pc \in Finished
          /\ Progress(child[i], jobs[i]) /\ child[i] \in Child
      BY AllThrough, ChildAt
    <3>2. Counted(child[i]) = Len(jobs[i])
      BY <3>1 DEF Counted, Finished
    <3>3. child[i].t_count_pl_fair = Len(jobs[i]) % build.SEMSKIP
      BY <3>1, <3>2 DEF Progress
    <3>4. f[i] = AddedBy(child[i])
      OBVIOUS
    <3>5. g[i] = IF AddsRest THEN Len(jobs[i]) ELSE Len(jobs[i]) - (Len(jobs[i]) % build.SEMSKIP)
      OBVIOUS
    <3>6. AddedBy(child[i]) \in Int
      BY <3>1, CountsTyped
    <3> QED BY <3>1, <3>2, <3>3, <3>4, <3>5, <3>6 DEF AddedBy
  <2>3. Total(f, searched) = Total(g, searched)
    <3> HIDE DEF searched
    <3> QED BY <1>0, <2>2, TotalOfSame
  <2>4. Total(share, searched) = MapThenSumSet(LAMBDA i : share[i], searched)
    BY Zenon DEF Total
  <2> QED BY <2>1, <2>3, <2>4
<1> QED BY <1>3, <1>4, <1>5, <1>6, Zenon DEF TotalsAreExact, grids

(* Whatever the number of fork points, of grids below them, of children at *)
(* a time and of failed calls of fork(), and in whatever order the children *)
(* and main take their steps: the totals main prints count every grid and  *)
(* every fair one below the nodes it forked for, once, and the fair ones   *)
(* are those that were printed.                                            *)
THEOREM TotalsExact == Spec => []TotalsAreExact
<1>1. ForkInv => TotalsAreExact
  BY TotalsAreThen DEF ForkInv, TotalsAreExact
<1> QED BY <1>1, ForkInvariance, PTL

LEMMA BestImprovesStep ==
    ASSUME EnumerationInv, SearchNext
    PROVE  shm'.best_pr_score <= shm.best_pr_score
<1>0. shm \in Shared /\ shm.best_pr_score \in Nat
  BY MainAt DEF ForkTypeOK, Shared
<1>1. CASE shm' = shm
  BY <1>0, <1>1
<1>2. CASE \E i \in DOMAIN jobs : CountLeaf(i) /\ shm' # shm
  <2> PICK i \in DOMAIN jobs : CountLeaf(i) /\ shm' # shm
    BY <1>2
  <2> PICK n : n = child[i].t_count_pl_fair + 1
    BY Zenon
  <2>1. n \in Nat
    BY ChildAt DEF Child
  <2>2. shm' = AddCount(n)
    BY DEF CountLeaf
  <2> QED BY <1>0, <2>1, <2>2, AddCountIs
<1>3. CASE \E i \in DOMAIN jobs : Exit(i) /\ shm' # shm
  <2> PICK i \in DOMAIN jobs : Exit(i) /\ shm' # shm
    BY <1>3
  <2> PICK n : n = child[i].t_count_pl_fair
    BY Zenon
  <2>1. n \in Nat
    BY ChildAt DEF Child
  <2>2. shm' = AddCount(n)
    BY DEF Exit
  <2> QED BY <1>0, <2>1, <2>2, AddCountIs
<1>4. CASE \E i \in DOMAIN jobs : BestScore(i)
  <2> PICK i \in DOMAIN jobs : BestScore(i)
    BY <1>4
  <2> PICK b : b = BestNow(i)
    BY Zenon
  <2>1. child[i].at <= Len(jobs[i])
    BY BestAt DEF BestScore
  <2>2. b \in Nat /\ b <= shm.best_pr_score
    BY <2>1, BestNowIs
  <2>3. shm' = [shm EXCEPT !.best_pr_score = b]
    BY DEF BestScore
  <2> QED BY <1>0, <2>2, <2>3 DEF Shared
<1>5. CASE \E i \in DOMAIN jobs : PrintFair(i)
  <2>1. shm' = [shm EXCEPT !.count_pr_fair = @ + 1]
    BY <1>5 DEF PrintFair
  <2> QED BY <1>0, <2>1 DEF Shared
<1>6. CASE Fork \/ ForkFails \/ Wait \/ Report \/ Ended
  <2>1. shm' = shm
    BY <1>6 DEF Fork, ForkFails, Wait, Report, Ended, searchVars
  <2> QED BY <1>1, <2>1
<1>7. CASE \E i \in DOMAIN jobs : Start(i) \/ ListLeaf(i) \/ PrintPlaces(i)
  <2>1. shm' = shm
    BY <1>7 DEF Start, ListLeaf, PrintPlaces
  <2> QED BY <1>1, <2>1
<1> QED BY <1>1, <1>2, <1>3, <1>4, <1>5, <1>6, <1>7 DEF SearchNext

(* However old the copies are by which the children decide, none of them    *)
(* ever makes the best score in the shared memory worse.                   *)
THEOREM BestImproves == Spec => BestOnlyImproves
<1>1. ForkInv /\ [Next]_vars => [shm'.best_pr_score <= shm.best_pr_score]_searchVars
  <2> SUFFICES ASSUME ForkInv, [Next]_vars, ~ UNCHANGED searchVars
               PROVE  shm'.best_pr_score <= shm.best_pr_score
    OBVIOUS
  <2>1. build # <<>> /\ SearchNext
    BY DEF Next, vars
  <2> QED BY <2>1, BestImprovesStep DEF ForkInv
<1> QED BY <1>1, ForkInvariance, PTL DEF Spec, BestOnlyImproves
=============================================================================
