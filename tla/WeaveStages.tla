----------------------------- MODULE WeaveStages -----------------------------
(***************************************************************************)
(* The search of modern_dice/weave_search.c as one worker runs it.  A      *)
(* configuration is the word of the owners of its faces, lowest first.     *)
(* Stage n weaves die n - 1 into a fair word of n - 1 dice: its faces go   *)
(* into gaps of the word, from the lowest gap on.  What a face in a gap    *)
(* adds to each count is tabulated once for a word, with the least, the    *)
(* greatest and the common steps of what later gaps can add; the counts    *)
(* follow in place as faces come and go.                                   *)
(*                                                                         *)
(* The recursion over the faces of a stage is the sequence insertionGap of *)
(* the stage; the recursion over stages is the variable dice.              *)
(***************************************************************************)
EXTENDS WeavePrefixes, SequencesExt, FiniteSetsExt, TLC

CONSTANTS
    LookAhead,      \* by stage, how many missing faces a pruned node is completed with
    Words,          \* for some <<dice, sides>>, owner words to look for
    Complete        \* the <<dice, sides>> whose Words are all there are

VARIABLES
    job,            \* the job whose prefixes are searched
    dice,           \* the stage
    word,           \* by stage, the word it has woven
    table,          \* by stage, what prepare_stage tabulated for its parent
    insertionGap,   \* insertion_gap: by stage, the gaps of the faces placed
    tally,          \* by stage, the counts of the rolls with the faces placed
    nextGap,        \* the gap the loop of the current node tries next
    pruned,         \* the bound that has just rejected a node, or "none"
    mode,           \* what the thread does next
    found,          \* final configurations in the order of their numbers
    internalError

stageVars == <<job, dice, word, table, insertionGap, tally, nextGap, pruned, mode, found,
               internalError>>
vars == <<build, prefixFaces, decodeVars, stageVars>>

Table(f) == f @@ <<>>

-----------------------------------------------------------------------------
(* The permutation counter: rolls that come out in an order, by one scan.  *)

OrdersOf(n) ==
    UNION {{q \in [1 .. k -> 0 .. n - 1] : \A i, j \in 1 .. k : q[i] = q[j] => i = j} :
              k \in 0 .. n}
Orders == [n \in UNION {0 .. b.dice : b \in Builds} |-> OrdersOf(n)]
FullOrders == [n \in DOMAIN Orders |-> {q \in Orders[n] : Len(q) = n}]

NoRolls(n) == [q \in Orders[n] |-> IF q = <<>> THEN 1 ELSE 0]

(* add_owner_to_ways; the edges go from long orders to short ones.         *)
AddOwner(ways, owner) ==
    [q \in {p \in DOMAIN ways : p # <<>> /\ Last(p) = owner} |-> ways[q] + ways[Front(q)]] @@ ways

CountWays(n, w) == FoldLeft(AddOwner, NoRolls(n), w)

(* The counts before the first owner, after it, and so on. *)
Scan(n, w) == FoldLeft(LAMBDA seen, owner : Append(seen, AddOwner(Last(seen), owner)),
                       <<NoRolls(n)>>, w)

-----------------------------------------------------------------------------
(* initialize_stages. *)

Power(base, exponent) == FoldLeft(LAMBDA p, i : p * base, 1, [i \in 1 .. exponent |-> i])
Factorial(n) == FoldLeft(LAMBDA p, i : p * i, 1, [i \in 1 .. n |-> i])

Outcomes(n) == Power(SIDES, n)
StagePossible(n) == Outcomes(n) % Factorial(n) = 0
Goal(n) == Outcomes(n) \div Factorial(n)
PlaceGoal(n) == Outcomes(n) \div n
PairGoal == (SIDES * SIDES) \div 2
OldLength(n) == (n - 1) * SIDES
Gaps(n) == 0 .. OldLength(n)

MaxInt == MaxWord \div 2
DifferenceBoundsPossible(n) == Outcomes(n) <= MaxInt \div 4

(* The orders of a stage that are compared with the first of them. *)
FirstOrder(n) == [i \in 1 .. n |-> i - 1]
Differences(n) == FullOrders[n] \ {FirstOrder(n)}

(* For two old dice the five orders of the triple that are compared with   *)
(* the new die below both, first before second.                            *)
Triples(n) == IF n < 4 THEN {}
              ELSE {<<i, j, k>> : i \in 0 .. n - 2, j \in 0 .. n - 2, k \in 1 .. 5}
                       \ {t \in (0 .. n - 2) \X (0 .. n - 2) \X (1 .. 5) : t[1] >= t[2]}
TripleOrder(n, t) ==
    LET i == t[1] j == t[2] new == n - 1
    IN  <<<<new, j, i>>, <<i, new, j>>, <<j, new, i>>, <<i, j, new>>, <<j, i, new>>>>[t[3]]

-----------------------------------------------------------------------------
(* prepare_stage for a word of n - 1 dice. *)

(* The counts of every order with one face of the new die in a gap: the    *)
(* rolls below it times the rolls above it.                                *)
Contribution(n, lower, reverse) ==
    [g \in Gaps(n) |->
        [q \in FullOrders[n] |->
            LET i == CHOOSE k \in 1 .. n : q[k] = n - 1
            IN  lower[g + 1][SubSeq(q, 1, i - 1)]
                * reverse[OldLength(n) - g + 1][Reverse(SubSeq(q, i + 1, n))]]]

PlaceContribution(n, contribution) ==
    [g \in Gaps(n) |->
        [place \in 1 .. n |->
            MapThenSumSet(LAMBDA q : IF q[place] = n - 1 THEN contribution[g][q] ELSE 0,
                          FullOrders[n])]]

DifferenceContribution(n, contribution) ==
    [g \in Gaps(n) |->
        [q \in IF DifferenceBoundsPossible(n) THEN Differences(n) ELSE {} |->
            contribution[g][q] - contribution[g][FirstOrder(n)]]]

(* One pass over the word: the faces of each old die below and above the   *)
(* gap, and the pairs of faces of two old dice that lie on one side of it. *)
BelowFirst(w, d) == Cardinality({f \in 1 .. Len(w) : w[f] = d})
StartScan(n, w) ==
    LET old == 0 .. n - 2 IN
    [below |-> [d \in old |-> 0],
     above |-> [d \in old |-> SIDES],
     belowOrder |-> [p \in old \X old |-> 0],
     aboveOrder |-> [p \in old \X old |->
                        IF p[1] = p[2] THEN 0
                        ELSE MapThenSumSet(LAMBDA f : BelowFirst(SubSeq(w, 1, f), p[1]),
                                           {f \in 1 .. Len(w) : w[f] = p[2]})]]
PassFace(scan, owner) ==
    [below |-> [scan.below EXCEPT ![owner] = @ + 1],
     above |-> [scan.above EXCEPT ![owner] = @ - 1],
     belowOrder |-> [p \in DOMAIN scan.belowOrder |->
                        scan.belowOrder[p]
                        + IF p[2] = owner /\ p[1] # owner THEN scan.below[p[1]] ELSE 0],
     aboveOrder |-> [p \in DOMAIN scan.aboveOrder |->
                        scan.aboveOrder[p]
                        - IF p[1] = owner /\ p[2] # owner THEN scan.above[p[2]] ELSE 0]]
Scans(n, w) == FoldLeft(LAMBDA seen, owner : Append(seen, PassFace(Last(seen), owner)),
                        <<StartScan(n, w)>>, w)

PairContribution(n, scans) == [g \in Gaps(n) |-> scans[g + 1].below]

TripleCount(scan, t) ==
    LET i == t[1] j == t[2]
    IN  <<scan.aboveOrder[<<j, i>>], scan.below[i] * scan.above[j], scan.below[j] * scan.above[i],
          scan.belowOrder[<<i, j>>], scan.belowOrder[<<j, i>>]>>[t[3]]
TripleContribution(n, scans) ==
    [g \in Gaps(n) |->
        [t \in Triples(n) |->
            TripleCount(scans[g + 1], t) - scans[g + 1].aboveOrder[<<t[1], t[2]>>]]]

(* What the gaps from here on add to a count: the least, the greatest, and *)
(* the common divisor of the steps from one gap to the next.               *)
Distance(a, b) == IF a >= b THEN a - b ELSE b - a
gcd[p \in Nat \X Nat] == IF p[2] = 0 THEN p[1] ELSE gcd[<<p[2], p[1] % p[2]>>]

Later_NextGapOn(last, g) == (IF g = last THEN g ELSE g + 1) .. last
Later(last, g) == g .. last

Bounds(n, values) ==
    Table([g \in Gaps(n) |->
        Table([key \in DOMAIN values[g] |->
            [value |-> values[g][key],
             low   |-> Min({values[later][key] : later \in Later(OldLength(n), g)}),
             high  |-> Max({values[later][key] : later \in Later(OldLength(n), g)}),
             step  |-> FoldSet(LAMBDA later, divisor :
                                   gcd[<<divisor, Distance(values[later][key],
                                                           values[later + 1][key])>>],
                               0, g .. OldLength(n) - 1)]])])

TablesFrom(n, contribution, scans) ==
    [perm |-> Bounds(n, contribution),
     place |-> Bounds(n, Table(PlaceContribution(n, contribution))),
     pair |-> Bounds(n, PairContribution(n, scans)),
     triple |-> Bounds(n, Table(TripleContribution(n, scans))),
     difference |-> Bounds(n, Table(DifferenceContribution(n, contribution)))]
StageTables(n, w) ==
    TablesFrom(n, Table(Contribution(n, Scan(n - 1, w), Scan(n - 1, Reverse(w)))), Scans(n, w))

(* The faces of the others, chosen freely, come out in some order.         *)
TablesFail(n, t) ==
    \E g \in Gaps(n) :
        MapThenSumSet(LAMBDA q : t.perm[g][q].value, FullOrders[n]) # Outcomes(n - 1)

NoTally(n) ==
    [perm |-> [q \in FullOrders[n] |-> 0], place |-> [place \in 1 .. n |-> 0],
     pair |-> [d \in 0 .. n - 2 |-> 0], triple |-> [t \in Triples(n) |-> 0]]

(* The projections of some faces, and their orders, come and go apart.     *)
Sum(counts, kind, t, gapSeq, sign) ==
    FoldLeft(LAMBDA c, g : [key \in DOMAIN c |-> c[key] + sign * t[kind][g][key].value],
             counts, gapSeq)
ProjectionCounts_PairKept(counts, t, gapSeq, sign) ==
    [counts EXCEPT !.place  = Sum(@, "place", t, gapSeq, sign),
                   !.pair   = IF sign < 0 THEN @ ELSE Sum(@, "pair", t, gapSeq, sign),
                   !.triple = Sum(@, "triple", t, gapSeq, sign)]
ProjectionCounts(counts, t, gapSeq, sign) ==
    [counts EXCEPT !.place  = Sum(@, "place", t, gapSeq, sign),
                   !.pair   = Sum(@, "pair", t, gapSeq, sign),
                   !.triple = Sum(@, "triple", t, gapSeq, sign)]
OrderCounts(counts, t, gapSeq, sign) ==
    [counts EXCEPT !.perm = Sum(@, "perm", t, gapSeq, sign)]

-----------------------------------------------------------------------------
(* The tests of a node: counts so far, bounds from its gap on, and how     *)
(* many faces are still to come.                                           *)

Ceiling(a, b) == a \div b + (IF a % b # 0 THEN 1 ELSE 0)

AverageAllowed(current, goal, remaining, low, high) ==
    /\ current <= goal
    /\ LET required == goal - current
       IN  IF remaining = 0 THEN required = 0
           ELSE low <= required \div remaining /\ high >= Ceiling(required, remaining)

ZeroAllowed(current, remaining, low, high) ==
    IF remaining = 0 THEN current = 0
    ELSE current + remaining * low <= 0 /\ current + remaining * high >= 0

BoundsAllowGoal(n, c, t, g, remaining) ==
    \A q \in FullOrders[n] :
        AverageAllowed(c.perm[q], Goal(n), remaining, t.perm[g][q].low, t.perm[g][q].high)
PlaceAllowed(n, c, t, g, remaining) ==
    \A place \in 1 .. n :
        AverageAllowed(c.place[place], PlaceGoal(n), remaining,
                       t.place[g][place].low, t.place[g][place].high)
PairAllowed(n, c, t, g, remaining) ==
    \A d \in 0 .. n - 2 :
        AverageAllowed(c.pair[d], PairGoal, remaining, t.pair[g][d].value, SIDES)
TripletAllowed(n, c, t, g, remaining) ==
    \A x \in Triples(n) :
        ZeroAllowed(c.triple[x], remaining, t.triple[g][x].low, t.triple[g][x].high)

ProjectionPrune(n, c, t, g, remaining) ==
    IF ~PlaceAllowed(n, c, t, g, remaining) THEN "place"
    ELSE IF ~PairAllowed(n, c, t, g, remaining) THEN "pair"
    ELSE IF ~TripletAllowed(n, c, t, g, remaining) THEN "triplet"
    ELSE "none"

Difference(c, n, q) == c.perm[q] - c.perm[FirstOrder(n)]
DifferenceAllowed(n, c, t, g, remaining) ==
    \A q \in DOMAIN t.difference[g] :
        ZeroAllowed(Difference(c, n, q), remaining,
                    t.difference[g][q].low, t.difference[g][q].high)

(* What is missing differs from as many times this gap by a multiple of    *)
(* the steps between the gaps.                                             *)
Congruent(required, remaining, entry) ==
    entry.step # 0 => Distance(required, remaining * entry.value) % entry.step = 0
CongruenceAllowed(n, c, t, g, remaining) ==
    remaining # 0 =>
        /\ \A place \in 1 .. n :
               Congruent(PlaceGoal(n) - c.place[place], remaining, t.place[g][place])
        /\ \A q \in FullOrders[n] : Congruent(Goal(n) - c.perm[q], remaining, t.perm[g][q])
        /\ \A q \in DOMAIN t.difference[g] :
               Congruent(-Difference(c, n, q), remaining, t.difference[g][q])

NodePrune(n, c, t, g, remaining) ==
    IF ~DifferenceAllowed(n, c, t, g, remaining) THEN "difference"
    ELSE IF ~BoundsAllowGoal(n, c, t, g, remaining) THEN "bound"
    ELSE IF ~CongruenceAllowed(n, c, t, g, remaining) THEN "congruence"
    ELSE "none"

-----------------------------------------------------------------------------
(* The search. *)

Placed == insertionGap[dice]
LastGap == Last(Placed)
Remaining == SIDES - Len(Placed)

(* The faces the current stage was entered with. *)
IsBase == Len(Placed) = IF dice = 2 THEN prefixFaces ELSE 1

Init ==
    /\ DecodeInit
    /\ job = 0 /\ dice = 2
    /\ word = [n \in 1 .. DICE |-> IF n = 1 THEN [i \in 1 .. SIDES |-> 0] ELSE <<>>]
    /\ table = [n \in 2 .. DICE |-> IF n = 2 /\ StagePossible(2) THEN StageTables(2, word[1])
                                    ELSE <<>>]
    /\ insertionGap = [n \in 2 .. DICE |-> <<>>]
    /\ tally = [n \in 2 .. DICE |-> NoTally(n)]
    /\ nextGap = 0 /\ pruned = "none" /\ found = <<>> /\ internalError = FALSE
    /\ mode = (IF StagePossible(2) THEN "decode" ELSE "done")

DecodePrefix == mode = "decode" /\ Decode /\ UNCHANGED stageVars

(* apply_stage_two_prefix *)
ApplyStageTwoPrefix ==
    /\ mode = "decode" /\ result = "true"
    /\ insertionGap' = [insertionGap EXCEPT ![2] = gaps]
    /\ tally' = [tally EXCEPT ![2] = ProjectionCounts(NoTally(2), table[2], gaps, 1)]
    /\ mode' = "test"
    /\ UNCHANGED <<build, prefixFaces, decodeVars, job, dice, word, table, nextGap, pruned, found,
                   internalError>>
RejectRank ==
    /\ mode = "decode" /\ result = "false"
    /\ internalError' = TRUE /\ mode' = "done"
    /\ UNCHANGED <<build, prefixFaces, decodeVars, job, dice, word, table, insertionGap, tally,
                   nextGap, pruned, found>>

(* projection_bounds_allow_goal; the orders follow only if it holds. *)
TestProjections ==
    /\ mode = "test"
    /\ pruned' = ProjectionPrune(dice, tally[dice], table[dice], LastGap, Remaining)
    /\ IF pruned' = "none"
       THEN /\ mode' = "node"
            /\ tally' = [tally EXCEPT ![dice] =
                   OrderCounts(@, table[dice], IF IsBase THEN Placed ELSE <<LastGap>>, 1)]
       ELSE mode' = "reject" /\ UNCHANGED tally
    /\ UNCHANGED <<build, prefixFaces, decodeVars, job, dice, word, table, insertionGap, nextGap,
                   found, internalError>>

(* search_insertions *)
EnterNode ==
    /\ mode = "node"
    /\ pruned' = NodePrune(dice, tally[dice], table[dice], LastGap, Remaining)
    /\ mode' = (IF pruned' # "none" THEN "back" ELSE IF Remaining = 0 THEN "accept" ELSE "try")
    /\ nextGap' = LastGap
    /\ UNCHANGED <<build, prefixFaces, decodeVars, job, dice, word, table, insertionGap, tally,
                   found, internalError>>

TryGap ==
    /\ mode = "try" /\ nextGap <= OldLength(dice)
    /\ insertionGap' = [insertionGap EXCEPT ![dice] = Append(@, nextGap)]
    /\ tally' = [tally EXCEPT ![dice] = ProjectionCounts(@, table[dice], <<nextGap>>, 1)]
    /\ mode' = "test"
    /\ UNCHANGED <<build, prefixFaces, decodeVars, job, dice, word, table, nextGap, pruned, found,
                   internalError>>

NoMoreGaps ==
    /\ mode = "try" /\ nextGap > OldLength(dice)
    /\ mode' = "back"
    /\ UNCHANGED <<build, prefixFaces, decodeVars, job, dice, word, table, insertionGap, tally,
                   nextGap, pruned, found, internalError>>

(* A face is taken back, with its orders if they had been added.           *)
WithdrawFace ==
    /\ mode \in {"reject", "back"} /\ ~(dice = 2 /\ IsBase)
    /\ tally' = [tally EXCEPT ![dice] =
           LET counts == ProjectionCounts(@, table[dice], <<LastGap>>, -1)
           IN  IF mode = "back" THEN OrderCounts(counts, table[dice], <<LastGap>>, -1)
               ELSE counts]
    /\ insertionGap' = [insertionGap EXCEPT ![dice] = Front(@)]
    /\ IF IsBase THEN dice' = dice - 1 /\ mode' = "back" /\ UNCHANGED nextGap
       ELSE mode' = "try" /\ nextGap' = LastGap + 1 /\ UNCHANGED dice
    /\ pruned' = "none"
    /\ UNCHANGED <<build, prefixFaces, decodeVars, job, word, table, found, internalError>>

(* worker_main: the prefixes of a job lie job_count apart. *)
NextPrefix ==
    /\ mode \in {"reject", "back"} /\ dice = 2 /\ IsBase
    /\ pruned' = "none"
    /\ IF given + JobCount < PrefixCount
       THEN Call(given + JobCount) /\ mode' = "decode" /\ UNCHANGED job
       ELSE IF job + 1 < JobCount
       THEN Call(job + 1) /\ mode' = "decode" /\ job' = job + 1
       ELSE mode' = "done" /\ UNCHANGED <<decodeVars, job>>
    /\ UNCHANGED <<build, prefixFaces, dice, word, table, insertionGap, tally, nextGap, found,
                   internalError>>

(* accept_extension. *)
Weave(old, gapSeq, owner) ==
    FlattenSeq([i \in 1 .. Len(old) + 1 |->
        [k \in 1 .. Cardinality({f \in DOMAIN gapSeq : gapSeq[f] = i - 1}) |-> owner]
            \o IF i <= Len(old) THEN <<old[i]>> ELSE <<>>])
WovenWord == Weave(word[dice - 1], Placed, dice - 1)

VerifyConfiguration(n, w) ==
    \E ways \in {CountWays(n, w)} : \A q \in FullOrders[n] : ways[q] = Goal(n)

AcceptExtension ==
    /\ mode = "accept"
    /\ word' = [word EXCEPT ![dice] = WovenWord]
    /\ IF ~VerifyConfiguration(dice, word'[dice])
       THEN internalError' = TRUE /\ mode' = "done" /\ UNCHANGED found
       ELSE /\ UNCHANGED internalError
            /\ found' = IF dice = DICE THEN Append(found, word'[dice]) ELSE found
            /\ mode' = IF dice < DICE /\ StagePossible(dice + 1) THEN "prepare" ELSE "back"
    /\ UNCHANGED <<build, prefixFaces, decodeVars, job, dice, table, insertionGap, tally, nextGap,
                   pruned>>

(* prepare_stage and start_canonical_stage: the first face of a new die is *)
(* the lowest of all.                                                      *)
CanonicalGap_Second == 1
CanonicalGap == 0
StartCanonicalStage ==
    /\ mode = "prepare"
    /\ \E t \in {StageTables(dice + 1, word[dice])} :
           IF TablesFail(dice + 1, t)
           THEN internalError' = TRUE /\ mode' = "done" /\ UNCHANGED <<dice, table, insertionGap, tally>>
           ELSE /\ UNCHANGED internalError
                /\ dice' = dice + 1
                /\ table' = [table EXCEPT ![dice + 1] = t]
                /\ insertionGap' = [insertionGap EXCEPT ![dice + 1] = <<CanonicalGap>>]
                /\ tally' = [tally EXCEPT ![dice + 1] =
                       ProjectionCounts(NoTally(dice + 1), t, <<CanonicalGap>>, 1)]
                /\ mode' = "test"
    /\ UNCHANGED <<build, prefixFaces, decodeVars, job, word, nextGap, pruned, found>>

Next ==
    \/ DecodePrefix \/ ApplyStageTwoPrefix \/ RejectRank \/ TestProjections \/ EnterNode
    \/ TryGap \/ NoMoreGaps \/ WithdrawFace \/ NextPrefix \/ AcceptExtension
    \/ StartCanonicalStage

Spec == Init /\ [][Next]_vars

-----------------------------------------------------------------------------
(* Properties. *)

(* When a node is tested the counts in place, after any number of faces    *)
(* tried and withdrawn, are those a scan of the word with the faces placed *)
(* so far gives: in every place, against every old die and, as             *)
(* differences, in every triple; and in every order once the projections   *)
(* have been let through (prepare_stage, search_insertions).               *)
TalliesAreCounts ==
    mode \in {"test", "node"} =>
        LET new == dice - 1 c == tally[dice] IN
        \E ways \in {CountWays(dice, WovenWord)} :
            /\ mode = "node" => \A q \in FullOrders[dice] : c.perm[q] = ways[q]
            /\ \A place \in 1 .. dice :
                   c.place[place] =
                       MapThenSumSet(LAMBDA q : IF q[place] = new THEN ways[q] ELSE 0,
                                     FullOrders[dice])
            /\ \A d \in 0 .. new - 1 : c.pair[d] = ways[<<d, new>>]
            /\ \A t \in Triples(dice) :
                   c.triple[t] = ways[TripleOrder(dice, t)] - ways[<<new, t[1], t[2]>>]

(* The ways to place the faces that are missing. *)
Completions ==
    {c \in [1 .. Remaining -> LastGap .. OldLength(dice)] :
        \A i \in 2 .. Remaining : c[i - 1] <= c[i]}

(* What a bound is about, once all faces are placed. *)
Even(ways, S) == \A p, q \in S : ways[p] = ways[q]
Meets(bound, ways) ==
    LET new == dice - 1 IN
    CASE bound = "place" ->
             \A place \in 1 .. dice :
                 MapThenSumSet(LAMBDA q : IF q[place] = new THEN ways[q] ELSE 0, FullOrders[dice])
                     = PlaceGoal(dice)
      [] bound = "pair" -> \A d \in 0 .. new - 1 : ways[<<d, new>>] = ways[<<new, d>>]
      [] bound = "triplet" ->
             \A i, j \in 0 .. new - 1 :
                 i # j => Even(ways, {q \in Orders[dice] : Len(q) = 3 /\ ToSet(q) = {i, j, new}})
      [] OTHER -> Even(ways, FullOrders[dice])

(* A node that a bound rejects has no completion that meets what the bound *)
(* is about: tables that start at the wrong gap, or bounds that count one  *)
(* face too many, cut fair configurations nobody misses.                   *)
PrunedIsHopeless ==
    pruned # "none" /\ Remaining <= LookAhead[dice] =>
        \A c \in Completions :
            ~Meets(pruned, CountWays(dice, Weave(word[dice - 1], Placed \o c, dice - 1)))

(* One name for each configuration: the last die has the lowest face, and  *)
(* so on without it.                                                       *)
CanonicalWord(w) ==
    \A i, j \in 0 .. DICE - 1 :
        i < j => \A f \in DOMAIN w : w[f] = i => \E e \in 1 .. f - 1 : w[e] = j
FairWord(w) == Even(CountWays(DICE, w), FullOrders[DICE])

(* The search finds every fair configuration in its one name, once over    *)
(* all prefixes, and nothing else.  It fails only when the prefixes were   *)
(* more than a word counts.                                                *)
SearchIsExhaustive ==
    /\ mode = "done" /\ ~internalError =>
           /\ Cardinality(ToSet(found)) = Len(found)
           /\ \A w \in ToSet(found) : CanonicalWord(w) /\ FairWord(w)
           /\ <<DICE, SIDES>> \in DOMAIN Words =>
                  LET wanted == {w \in Words[<<DICE, SIDES>>] : CanonicalWord(w) /\ FairWord(w)}
                  IN  /\ wanted \subseteq ToSet(found)
                      /\ <<DICE, SIDES>> \in Complete => ToSet(found) \subseteq wanted
    /\ internalError => result = "false" /\ PrefixCount > Cardinality(CanonicalPrefixes)
=============================================================================
