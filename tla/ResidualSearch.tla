--------------------------- MODULE ResidualSearch ---------------------------
(***************************************************************************)
(* The search of modern_dice/residual_search.c as one thread runs it: the  *)
(* prefixes are collected by deepening, then each is replayed, searched to *)
(* the bottom and undone.  One mutable state is updated in place on the    *)
(* way down and restored on the way up.                                    *)
(*                                                                         *)
(* The C stack is the variable stack: one frame per owner that is in       *)
(* place, with the owners its node has yet to try.  In a mirrored search   *)
(* a step gives both ends to the owner (end "both").                       *)
(*                                                                         *)
(* In every module, X_Y is X with the plausible mistake Y in it: no part   *)
(* of the specification, but what a property is shown to notice.           *)
(***************************************************************************)
EXTENDS ResidualCounts

CONSTANTS
    Builds,         \* the settings of DICE, SIDES, MIRROR and COLUMN_GROUP to build with
    DesiredJobs,    \* options.jobs, or 8 per thread
    Words           \* by size, the words the outcome of the search is compared on

ASSUME SearchAssumption ==
    /\ Builds \subseteq Sizes \X BOOLEAN \X BOOLEAN
    /\ DesiredJobs \in Nat \ {0}
    /\ \A b \in Builds : b[2] => b[1][2] % 2 = 0

VARIABLES
    MIRROR,         \* this build: only words that read the same from both ends
    COLUMN_GROUP,   \* this build: every DICE faces from the left have DICE owners
    residual,       \* search->residual
    remaining,      \* search->remaining
    left,           \* the owners of encoding[0 .. left_depth - 1]
    right,          \* the owners from the last face inwards
    used,           \* used_labels
    stack,          \* frames of the recursion
    mode,           \* enter, try, back, replay or done
    depth,          \* prefixes.depth
    collecting,     \* build_prefixes has not finished
    prefixes,       \* prefixes.owners
    job,            \* the prefix that run_prefix searches
    found,          \* encodings given to record_configuration, in order
    internalError   \* search->internal_error

build == <<DICE, SIDES, MIRROR, COLUMN_GROUP>>
state == <<residual, remaining, left, right, used>>
vars  == <<build, state, stack, mode, depth, collecting, prefixes, job, found, internalError>>

StepFaces     == IF MIRROR THEN 2 ELSE 1
DecisionCount == FaceCount \div StepFaces
Encoding      == left \o Reverse(right)
Top           == stack[Len(stack)]

-----------------------------------------------------------------------------
(* Which owners a node may try, and at which end. *)

(* column_mask_after_owner, over the owners placed at one end. *)
MaskAfter_NeverReset(mask, owner) == mask \union {owner}
MaskAfter(mask, owner) ==
    IF mask \union {owner} = Owners THEN {} ELSE mask \union {owner}
ColumnMask(front) == FoldLeft(MaskAfter, {}, front)

(* column_fronts_share_group *)
SharedGroup ==
    /\ Len(left) + Len(right) < FaceCount
    /\ Len(left) \div DICE = (FaceCount - 1 - Len(right)) \div DICE

(* column_allowed_owner_mask, for the front given and the one facing it. *)
ColumnAllowed(front, opposite) ==
    IF ~COLUMN_GROUP THEN Owners
    ELSE Owners \ (ColumnMask(front) \union
                   (IF SharedGroup THEN ColumnMask(opposite) ELSE {}))

OwnerLimit_Unlimited == DICE
OwnerLimit == IF used < DICE THEN used + 1 ELSE DICE

LeftOwners ==
    FeasibleOwners(residual, remaining, "left", OwnerLimit) \intersect ColumnAllowed(left, right)
RightOwners ==
    FeasibleOwners(residual, remaining, "right", DICE) \intersect ColumnAllowed(right, left)

(* plan_search_end: the right end only when all labels are named and it    *)
(* has strictly fewer candidates.                                          *)
SearchRight == used = DICE /\ Cardinality(RightOwners) < Cardinality(LeftOwners)

(* plan_mirror_pairs looks at one end only: the other has equal counts. *)
PairOwners ==
    {o \in 0 .. OwnerLimit - 1 :
        /\ remaining[o] >= 2
        /\ o \in ColumnAllowed(left, right) \intersect ColumnAllowed(right, left)
        /\ PrefixFeasible(residual, o)}

Plan ==
    IF MIRROR THEN [end |-> "both", owners |-> PairOwners]
    ELSE IF SearchRight THEN [end |-> "right", owners |-> RightOwners]
    ELSE [end |-> "left", owners |-> LeftOwners]

-----------------------------------------------------------------------------
(* The moves. *)

Subtract_PairPrefixTwice(counts, owner, end) ==
    CASE end = "left"  -> SubtractPrefix(counts, owner)
      [] end = "right" -> SubtractSuffix(counts, owner)
      [] end = "both"  -> SubtractPrefix(SubtractPrefix(counts, owner), owner)
Subtract(counts, owner, end) ==
    CASE end = "left"  -> SubtractPrefix(counts, owner)
      [] end = "right" -> SubtractSuffix(counts, owner)
      [] end = "both"  -> SubtractSuffix(SubtractPrefix(counts, owner), owner)

Restore(counts, owner, end) ==
    CASE end = "left"  -> RestorePrefix(counts, owner)
      [] end = "right" -> RestoreSuffix(counts, owner)
      [] end = "both"  -> RestorePrefix(RestoreSuffix(counts, owner), owner)

(* try_owner undoes a move that leaves no owner for the opposite end;      *)
(* try_mirror_pair accepts every move of its plan.                         *)
Accepted(owner, end) ==
    LET counts == Subtract(residual, owner, end)
        rest   == [remaining EXCEPT ![owner] = @ - 1]
        facing == IF end = "left" THEN "right" ELSE "left"
    IN  \/ end = "both" \/ Len(left) + Len(right) + 1 = FaceCount
        \/ FeasibleOwners(counts, rest, facing, DICE) # {}

PlaceOwner(owner, end) ==
    /\ residual' = Subtract(residual, owner, end)
    /\ remaining' = [remaining EXCEPT ![owner] = @ - StepFaces]
    /\ left'  = (IF end \in {"left", "both"}  THEN Append(left, owner)  ELSE left)
    /\ right' = (IF end \in {"right", "both"} THEN Append(right, owner) ELSE right)
    /\ used'  = (IF end # "right" /\ owner = used THEN used + 1 ELSE used)

RemoveOwner(frame) ==
    /\ residual' = Restore(residual, frame.owner, frame.end)
    /\ remaining' = [remaining EXCEPT ![frame.owner] = @ + StepFaces]
    /\ left'  = (IF frame.end \in {"left", "both"}  THEN Front(left)  ELSE left)
    /\ right' = (IF frame.end \in {"right", "both"} THEN Front(right) ELSE right)
    /\ used'  = frame.used

-----------------------------------------------------------------------------
(* search_configurations and collect_prefixes share their recursion. *)

Init ==
    /\ \E b \in Builds :
           DICE = b[1][1] /\ SIDES = b[1][2] /\ MIRROR = b[2] /\ COLUMN_GROUP = b[3]
    /\ residual = Targets /\ remaining = [o \in Owners |-> SIDES]
    /\ left = <<>> /\ right = <<>> /\ used = 0
    /\ stack = <<>> /\ depth = 1 /\ collecting = TRUE
    /\ mode = (IF Possible THEN "enter" ELSE "done")
    /\ prefixes = <<>> /\ job = 0 /\ found = <<>> /\ internalError = FALSE

(* The owner of a frame is set by TryOwner. *)
EnterNode ==
    /\ mode = "enter"
    /\ IF collecting THEN Len(stack) < depth ELSE Len(left) + Len(right) < FaceCount
    /\ stack' = Append(stack, [end |-> Plan.end, todo |-> Plan.owners, owner |-> 0,
                               used |-> used])
    /\ mode' = "try"
    /\ UNCHANGED <<build, state, depth, collecting, prefixes, job, found, internalError>>

TryOwner ==
    /\ mode = "try" /\ Top.todo # {} /\ ~internalError
    /\ LET owner == Min(Top.todo) IN
       /\ stack' = [stack EXCEPT ![Len(stack)].todo = @ \ {owner},
                                 ![Len(stack)].owner = owner]
       /\ IF Accepted(owner, Top.end)
          THEN PlaceOwner(owner, Top.end) /\ mode' = "enter"
          ELSE UNCHANGED <<state, mode>>
    /\ UNCHANGED <<build, depth, collecting, prefixes, job, found, internalError>>

(* The loop over the owners ends, and the call returns to its caller. *)
LeaveNode ==
    /\ mode = "try" /\ (Top.todo = {} \/ internalError)
    /\ stack' = Front(stack)
    /\ mode' = "back"
    /\ UNCHANGED <<build, state, depth, collecting, prefixes, job, found, internalError>>

UndoOwner ==
    /\ mode = "back" /\ stack # <<>>
    /\ RemoveOwner(Top)
    /\ mode' = "try"
    /\ UNCHANGED <<build, stack, depth, collecting, prefixes, job, found, internalError>>

(* record_configuration verifies what the search believes to be fair. *)
Grouped(word) ==
    \A g \in 0 .. SIDES - 1 : {word[g * DICE + i] : i \in 1 .. DICE} = Owners

RecordConfiguration ==
    /\ mode = "enter" /\ ~collecting /\ Len(left) + Len(right) = FaceCount
    /\ IF /\ COLUMN_GROUP => Grouped(Encoding)
          /\ CountWays(Encoding) = Targets
          /\ \A q \in Tuples \ {<<>>} : residual[q] = 0
       THEN found' = Append(found, Encoding) /\ UNCHANGED internalError
       ELSE internalError' = TRUE /\ UNCHANGED found
    /\ mode' = "back"
    /\ UNCHANGED <<build, state, stack, depth, collecting, prefixes, job>>

-----------------------------------------------------------------------------
(* build_prefixes. *)

(* The steps from the root to the current node. *)
Steps == [i \in 1 .. Len(stack) |-> [end |-> stack[i].end, owner |-> stack[i].owner]]

CollectPrefix ==
    /\ mode = "enter" /\ collecting /\ Len(stack) = depth
    /\ prefixes' = Append(prefixes, Steps)
    /\ mode' = "back"
    /\ UNCHANGED <<build, state, stack, depth, collecting, job, found, internalError>>

EnoughPrefixes ==
    prefixes = <<>> \/ Len(prefixes) >= DesiredJobs \/ depth = DecisionCount

DeepenPrefixes ==
    /\ mode = "back" /\ stack = <<>> /\ collecting
    /\ IF EnoughPrefixes
       THEN /\ collecting' = FALSE /\ job' = 1
            /\ mode' = (IF prefixes = <<>> THEN "done" ELSE "replay")
            /\ UNCHANGED <<depth, prefixes>>
       ELSE /\ depth' = depth + 1 /\ prefixes' = <<>> /\ mode' = "enter"
            /\ UNCHANGED <<collecting, job>>
    /\ UNCHANGED <<build, state, stack, found, internalError>>

(* run_prefix: replay the steps, checking each against a fresh plan. *)
Replayable(step) ==
    step.end = Plan.end /\ step.owner \in Plan.owners /\ Accepted(step.owner, step.end)

ReplayStep ==
    /\ mode = "replay" /\ Len(stack) < depth
    /\ LET step == prefixes[job][Len(stack) + 1] IN
       IF Replayable(step)
       THEN /\ stack' = Append(stack, [end |-> step.end, todo |-> {}, owner |-> step.owner,
                                       used |-> used])
            /\ PlaceOwner(step.owner, step.end)
            /\ UNCHANGED <<mode, internalError>>
       ELSE internalError' = TRUE /\ mode' = "back" /\ UNCHANGED <<state, stack>>
    /\ UNCHANGED <<build, depth, collecting, prefixes, job, found>>

SearchPrefix ==
    /\ mode = "replay" /\ Len(stack) = depth
    /\ mode' = "enter"
    /\ UNCHANGED <<build, state, stack, depth, collecting, prefixes, job, found, internalError>>

NextPrefix ==
    /\ mode = "back" /\ stack = <<>> /\ ~collecting
    /\ IF internalError \/ job = Len(prefixes)
       THEN mode' = "done" /\ UNCHANGED job
       ELSE mode' = "replay" /\ job' = job + 1
    /\ UNCHANGED <<build, state, stack, depth, collecting, prefixes, found, internalError>>

Next ==
    \/ EnterNode \/ TryOwner \/ LeaveNode \/ UndoOwner \/ RecordConfiguration
    \/ CollectPrefix \/ DeepenPrefixes \/ ReplayStep \/ SearchPrefix \/ NextPrefix

Spec == Init /\ [][Next]_vars

-----------------------------------------------------------------------------
(* Properties. *)

(* The words this search is for. *)
Wanted(word) ==
    /\ Canonical(word)
    /\ MIRROR => word = Reverse(word)
    /\ COLUMN_GROUP => Grouped(word)

(* The ways to make q out of the two ends and the middle. *)
Cuts(q) == {c \in (0 .. Len(q)) \X (0 .. Len(q)) : c[1] <= c[2]}
Piece(q, from, to) == SubSeq(q, from + 1, to)
Pieces(begin, middle, end, q) ==
    [c \in Cuts(q) |-> begin[Piece(q, 0, c[1])] * middle[Piece(q, c[1], c[2])]
                         * end[Piece(q, c[2], Len(q))]]
Total(terms, S) == MapThenSumSet(LAMBDA x : terms[x], S)
Joined(begin, middle, end, q) == Total(Pieces(begin, middle, end, q), Cuts(q))
FacesOf(word, o) == Cardinality({i \in DOMAIN word : word[i] = o})
(* However moves at the two ends were mixed, undone and replayed, the      *)
(* state in place is what the word so far says: the counts of the middle,  *)
(* put between those of the two ends, make the targets, and none of these  *)
(* unsigned counts has wrapped (subtract_ and restore_owner); between      *)
(* mirrored pairs the count of an order is that of the reversed one, so    *)
(* that looking at one end tells what the other allows                     *)
(* (plan_mirror_pairs); no face is missing from the faces left, and the    *)
(* labels in use are those seen from the left.                             *)
StateIsExact ==
    /\ \A q \in Tuples :
           /\ Joined(CountWays(left), residual, CountWays(Reverse(right)), q) = Targets[q]
           /\ residual[q] >= 0
           /\ MIRROR => residual[q] = residual[Reverse(q)]
    /\ \A o \in Owners : remaining[o] = SIDES - FacesOf(left, o) - FacesOf(right, o)
    /\ used = Cardinality({left[i] : i \in 1 .. Len(left)})

(* Every configuration recorded is fair by the definition of fairness, of  *)
(* the kind asked for, and recorded once, over all prefixes.  Nothing that *)
(* was collected or found fails the second look the code takes at it: a    *)
(* prefix can be replayed, because the plan at each of its nodes depends   *)
(* on the moves above the node alone and not on what was tried and undone  *)
(* before (run_prefix), and what the search takes for fair passes the      *)
(* recount (verify_configuration).                                         *)
FoundAreFair ==
    /\ ~internalError
    /\ mode = "done" =>
        /\ \A i, j \in 1 .. Len(found) : found[i] = found[j] => i = j
        /\ \A i \in 1 .. Len(found) :
               /\ Wanted(found[i])
               /\ \A q \in Tuples : Occurrences(found[i], q) = Targets[q]

(* No fair word is lost to the symmetry of names, to the pruning at either *)
(* end, or between the prefixes.                                           *)
SearchIsExhaustive ==
    mode = "done" =>
        \A word \in Words[<<DICE, SIDES>>] : Wanted(word) /\ Fair(word) =>
            \E i \in 1 .. Len(found) : found[i] = word
=============================================================================
