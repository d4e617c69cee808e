-------------------------- MODULE ExtensionSearch --------------------------
(***************************************************************************)
(* modern_dice/residual_search.c with --extend-solutions: known words of   *)
(* one die less are read from a file, and a worker searches the fair words *)
(* that hold one of them as a skeleton, with all faces of a new die and    *)
(* more faces of the others between.  Words of fewer sides serve as well.  *)
(*                                                                         *)
(* The search is that of ResidualSearch but for its plan, which follows    *)
(* the skeleton from both ends.  Prefixes are collected for every base and *)
(* every place of the new die among the names, and replayed by workers     *)
(* that are told the base and the place only.                              *)
(***************************************************************************)
EXTENDS ResidualCounts

CONSTANTS
    Files,          \* by size, the encodings a solutions file may have, line by line
    DesiredJobs,    \* options.jobs, or 8 per thread
    Words           \* by size, the words the outcome of the search is compared on

ASSUME ExtensionAssumption ==
    /\ DOMAIN Files = Sizes /\ DOMAIN Words = Sizes
    /\ DesiredJobs \in Nat \ {0}

VARIABLES
    bases,          \* shared->extension_bases
    residual,       \* search->residual
    remaining,      \* search->remaining
    left,           \* the owners of encoding[0 .. left_depth - 1]
    right,          \* the owners from the last face inwards
    cursor,         \* what is left of the skeleton and of the padding
    stack,          \* frames of the recursion
    mode,           \* enter, try, back, next, replay or done
    depth,          \* prefixes.depth
    collecting,     \* build_extension_prefixes has not finished
    prefixes,       \* steps, base_indices and new_owners
    job,            \* the prefix that run_extension_prefix searches
    solutions,      \* shared->extension_solutions, a hash set
    reached,        \* history: the words remembered or met again, and from where
    internalError   \* search->internal_error

size  == <<DICE, SIDES>>
state == <<residual, remaining, left, right, cursor>>
vars  == <<DICE, SIDES, bases, state, stack, mode, depth, collecting, prefixes, job,
           solutions, reached, internalError>>

BaseDice == DICE - 1
Encoding == left \o Reverse(right)
Top      == stack[Len(stack)]

-----------------------------------------------------------------------------
(* load_extension_bases. *)

(* The labels in order of first appearance. *)
Names(text) == FoldLeft(LAMBDA names, symbol : IF Contains(names, symbol) THEN names
                                               ELSE Append(names, symbol), <<>>, text)
Relabelled(text) ==
    [face \in 1 .. Len(text) |->
        (CHOOSE i \in 1 .. Len(Names(text)) : Names(text)[i] = text[face]) - 1]

Balanced(text) ==
    LET sides == Len(text) \div BaseDice IN
    /\ Len(text) > 0 /\ Len(text) % BaseDice = 0 /\ sides <= SIDES
    /\ Len(Names(text)) = BaseDice
    /\ \A i \in 1 .. BaseDice :
           Cardinality({face \in 1 .. Len(text) : text[face] = Names(text)[i]}) = sides

SidesOf(base) == Len(base) \div BaseDice

(* extension_base_is_permutation_fair counts with the owners one higher.   *)
BaseIsFair(base) ==
    LET ways == CountWays([face \in 1 .. Len(base) |-> base[face] + 1]) IN
    /\ \A n \in 1 .. BaseDice : integer_power(SidesOf(base), n) % Factorial(n) = 0
    /\ \A q \in Tuples : 0 \notin ToSet(q) => ways[q] = Goal(SidesOf(base), Len(q))

(* A file with a line that is no configuration of the other dice is        *)
(* refused; unfair words serve when they are shorter.                      *)
Usable(file) == {line \in ToSet(file) : LET base == Relabelled(line) IN
                                        SidesOf(base) < SIDES \/ BaseIsFair(base)}

(* deduplicate_extension_bases: sorted by sides, then by owners.           *)
Precedes(a, b) ==
    \/ Len(a) < Len(b)
    \/ /\ Len(a) = Len(b)
       /\ \E i \in 1 .. Len(a) : a[i] < b[i] /\ \A j \in 1 .. i - 1 : a[j] = b[j]
LoadBases(file) ==
    IF \E line \in ToSet(file) : ~Balanced(line) THEN <<>>
    ELSE FoldLeft(LAMBDA sorted, base :
                      SelectSeq(sorted, LAMBDA b : Precedes(b, base)) \o <<base>>
                          \o SelectSeq(sorted, LAMBDA b : Precedes(base, b)),
                  <<>>, SetToSeq({Relabelled(line) : line \in Usable(file)}))

-----------------------------------------------------------------------------
(* The cursor.  The names of the base make room for that of the new die.   *)

OwnerMap_OneOff(newOwner, o) == IF o > newOwner THEN o + 1 ELSE o
OwnerMap(newOwner, o) == IF o >= newOwner THEN o + 1 ELSE o

InitialCursor(base, newOwner) ==
    [base |-> base, newOwner |-> newOwner, baseLeft |-> 0, baseRight |-> Len(bases[base]), used |-> 0,
     padding |-> [o \in Owners |-> IF o = newOwner THEN SIDES ELSE SIDES - SidesOf(bases[base])]]

(* extension_fixed_owner: who has the face of the skeleton that comes next *)
(* at this end; DICE when all are placed.                                  *)
FixedOwner(end) ==
    IF cursor.baseLeft = cursor.baseRight THEN DICE
    ELSE OwnerMap(cursor.newOwner,
                  bases[cursor.base][IF end = "left" THEN cursor.baseLeft + 1 ELSE cursor.baseRight])

LegalOwners(end) ==
    LET limit == IF end = "left" /\ cursor.used < DICE THEN cursor.used + 1 ELSE DICE IN
    {o \in 0 .. limit - 1 : cursor.padding[o] # 0 \/ o = FixedOwner(end)}

FeasibleAt(end) == LegalOwners(end) \intersect FeasibleOwners(residual, remaining, end, DICE)

(* plan_extension_end *)
SearchRight ==
    cursor.used = DICE /\ Cardinality(FeasibleAt("right")) < Cardinality(FeasibleAt("left"))
Plan == IF SearchRight THEN [end |-> "right", owners |-> FeasibleAt("right")]
        ELSE [end |-> "left", owners |-> FeasibleAt("left")]

(* apply_extension_owner: a face that the skeleton has next is always its. *)
Step(end, owner) ==
    [end |-> end, owner |-> owner, fixed |-> owner = FixedOwner(end),
     introduced |-> end = "left" /\ owner = cursor.used]
Applicable(step) == step.fixed \/ cursor.padding[step.owner] # 0

Moved(c, step, n) ==
    LET atLeft == step.end = "left" IN
    [c EXCEPT !.baseLeft  = @ + (IF step.fixed /\ atLeft THEN n ELSE 0),
              !.baseRight = @ - (IF step.fixed /\ ~atLeft THEN n ELSE 0),
              !.padding[step.owner] = @ - (IF step.fixed THEN 0 ELSE n),
              !.used = @ + (IF step.introduced THEN n ELSE 0)]

PlaceOwner(step) ==
    /\ cursor' = Moved(cursor, step, 1)
    /\ remaining' = [remaining EXCEPT ![step.owner] = @ - 1]
    /\ IF step.end = "left"
       THEN /\ residual' = SubtractPrefix(residual, step.owner)
            /\ left' = Append(left, step.owner) /\ UNCHANGED right
       ELSE /\ residual' = SubtractSuffix(residual, step.owner)
            /\ right' = Append(right, step.owner) /\ UNCHANGED left

(* undo_extension_owner, with what apply said of the step.                 *)
TakenBack_NameKept(step) == Moved(cursor, [step EXCEPT !.introduced = FALSE], -1)
TakenBack(step) == Moved(cursor, step, -1)

RemoveOwner(step) ==
    /\ cursor' = TakenBack(step)
    /\ remaining' = [remaining EXCEPT ![step.owner] = @ + 1]
    /\ IF step.end = "left"
       THEN /\ residual' = RestorePrefix(residual, step.owner)
            /\ left' = Front(left) /\ UNCHANGED right
       ELSE /\ residual' = RestoreSuffix(residual, step.owner)
            /\ right' = Front(right) /\ UNCHANGED left

-----------------------------------------------------------------------------
(* collect_extension_prefixes and search_extensions share their recursion. *)

Init ==
    /\ \E s \in Sizes : DICE = s[1] /\ SIDES = s[2]
    /\ \E file \in Files[size] : bases = LoadBases(file)
    /\ residual = Targets /\ remaining = [o \in Owners |-> SIDES]
    /\ left = <<>> /\ right = <<>> /\ stack = <<>>
    /\ depth = 0 /\ collecting = TRUE
    /\ mode = (IF Possible /\ bases # <<>> THEN "enter" ELSE "done")
    /\ cursor = (IF bases # <<>> THEN InitialCursor(1, 0) ELSE <<>>)
    /\ prefixes = <<>> /\ job = 0 /\ solutions = {} /\ reached = <<>> /\ internalError = FALSE

EnterNode ==
    /\ mode = "enter" /\ Len(left) + Len(right) < DICE * SIDES
    /\ collecting => Len(stack) < depth
    /\ \E plan \in {Plan} :
           stack' = Append(stack, [todo |-> plan.owners, step |-> [end |-> plan.end]])
    /\ mode' = "try"
    /\ UNCHANGED <<DICE, SIDES, bases, state, depth, collecting, prefixes, job, solutions,
                   reached, internalError>>

TryOwner ==
    /\ mode = "try" /\ Top.todo # {} /\ ~internalError
    /\ LET step == Step(Top.step.end, Min(Top.todo)) IN
       /\ stack' = [stack EXCEPT ![Len(stack)] = [todo |-> @.todo \ {step.owner}, step |-> step]]
       /\ IF Applicable(step)
          THEN PlaceOwner(step) /\ mode' = "enter" /\ UNCHANGED internalError
          ELSE internalError' = TRUE /\ UNCHANGED <<state, mode>>
    /\ UNCHANGED <<DICE, SIDES, bases, depth, collecting, prefixes, job, solutions, reached>>

LeaveNode ==
    /\ mode = "try" /\ (Top.todo = {} \/ internalError)
    /\ stack' = Front(stack)
    /\ mode' = "back"
    /\ UNCHANGED <<DICE, SIDES, bases, state, depth, collecting, prefixes, job, solutions,
                   reached, internalError>>

UndoOwner ==
    /\ mode = "back" /\ stack # <<>>
    /\ RemoveOwner(Top.step)
    /\ mode' = "try"
    /\ UNCHANGED <<DICE, SIDES, bases, stack, depth, collecting, prefixes, job, solutions,
                   reached, internalError>>

(* The cursor must have come to its end, too; then record_configuration    *)
(* verifies the word, and remember_extension_solution looks it up.         *)
CursorComplete == cursor.baseLeft = cursor.baseRight /\ \A o \in Owners : cursor.padding[o] = 0

RecordConfiguration ==
    /\ mode = "enter" /\ ~collecting /\ Len(left) + Len(right) = DICE * SIDES
    /\ IF /\ CursorComplete
          /\ CountWays(Encoding) = Targets
          /\ \A q \in Tuples \ {<<>>} : residual[q] = 0
       THEN /\ solutions' = solutions \union {Encoding}
            /\ reached' = Append(reached, [base |-> cursor.base, newOwner |-> cursor.newOwner,
                                           word |-> Encoding])
            /\ UNCHANGED internalError
       ELSE internalError' = TRUE /\ UNCHANGED <<solutions, reached>>
    /\ mode' = "back"
    /\ UNCHANGED <<DICE, SIDES, bases, state, stack, depth, collecting, prefixes, job>>

-----------------------------------------------------------------------------
(* build_extension_prefixes *)

CollectPrefix ==
    /\ mode = "enter" /\ collecting /\ Len(stack) = depth
    /\ prefixes' = Append(prefixes, [base |-> cursor.base, newOwner |-> cursor.newOwner,
                                     steps |-> [i \in 1 .. depth |-> stack[i].step]])
    /\ mode' = "back"
    /\ UNCHANGED <<DICE, SIDES, bases, state, stack, depth, collecting, job, solutions, reached,
                   internalError>>

(* The next place of the new die, or the next base; every turn starts with *)
(* fresh counts.                                                           *)
ResetConfiguration == residual' = Targets /\ remaining' = [o \in Owners |-> SIDES]

NextTurn ==
    /\ mode = "back" /\ stack = <<>> /\ collecting
    /\ \/ cursor.newOwner < DICE - 1 /\ cursor' = InitialCursor(cursor.base, cursor.newOwner + 1)
       \/ /\ cursor.newOwner = DICE - 1 /\ cursor.base < Len(bases)
          /\ cursor' = InitialCursor(cursor.base + 1, 0)
    /\ ResetConfiguration
    /\ mode' = "enter"
    /\ UNCHANGED <<DICE, SIDES, bases, left, right, stack, depth, collecting, prefixes, job,
                   solutions, reached, internalError>>

EnoughPrefixes ==
    prefixes = <<>> \/ Len(prefixes) >= DesiredJobs \/ depth + 1 = DICE * SIDES

DeepenPrefixes ==
    /\ mode = "back" /\ stack = <<>> /\ collecting
    /\ cursor.newOwner = DICE - 1 /\ cursor.base = Len(bases)
    /\ ResetConfiguration
    /\ IF EnoughPrefixes
       THEN /\ collecting' = FALSE
            /\ mode' = (IF prefixes = <<>> THEN "done" ELSE "next")
            /\ UNCHANGED <<cursor, depth, prefixes>>
       ELSE /\ depth' = depth + 1 /\ prefixes' = <<>> /\ mode' = "enter"
            /\ cursor' = InitialCursor(1, 0)
            /\ UNCHANGED collecting
    /\ UNCHANGED <<DICE, SIDES, bases, left, right, stack, job, solutions, reached, internalError>>

-----------------------------------------------------------------------------
(* run_extension_prefix *)

StartPrefix ==
    /\ mode = "next" /\ ~internalError /\ job < Len(prefixes)
    /\ job' = job + 1
    /\ cursor' = InitialCursor(prefixes[job'].base, prefixes[job'].newOwner)
    /\ mode' = "replay"
    /\ UNCHANGED <<DICE, SIDES, bases, residual, remaining, left, right, stack, depth, collecting,
                   prefixes, solutions, reached, internalError>>

(* Only the end and the owner of a step were kept.                         *)
ReplayStep ==
    /\ mode = "replay" /\ Len(stack) < depth
    /\ LET kept == prefixes[job].steps[Len(stack) + 1]
           step == Step(kept.end, kept.owner)
       IN  IF kept.end = Plan.end /\ kept.owner \in Plan.owners /\ Applicable(step)
           THEN /\ stack' = Append(stack, [todo |-> {}, step |-> step])
                /\ PlaceOwner(step)
                /\ UNCHANGED <<mode, internalError>>
           ELSE internalError' = TRUE /\ mode' = "back" /\ UNCHANGED <<state, stack>>
    /\ UNCHANGED <<DICE, SIDES, bases, depth, collecting, prefixes, job, solutions, reached>>

SearchPrefix ==
    /\ mode = "replay" /\ Len(stack) = depth
    /\ mode' = "enter"
    /\ UNCHANGED <<DICE, SIDES, bases, state, stack, depth, collecting, prefixes, job, solutions,
                   reached, internalError>>

PrefixDone ==
    /\ mode = "back" /\ stack = <<>> /\ ~collecting
    /\ mode' = "next"
    /\ UNCHANGED <<DICE, SIDES, bases, state, stack, depth, collecting, prefixes, job, solutions,
                   reached, internalError>>

Finish ==
    /\ mode = "next" /\ (internalError \/ job = Len(prefixes))
    /\ mode' = "done"
    /\ UNCHANGED <<DICE, SIDES, bases, state, stack, depth, collecting, prefixes, job, solutions,
                   reached, internalError>>

Next ==
    \/ EnterNode \/ TryOwner \/ LeaveNode \/ UndoOwner \/ RecordConfiguration
    \/ CollectPrefix \/ NextTurn \/ DeepenPrefixes
    \/ StartPrefix \/ ReplayStep \/ SearchPrefix \/ PrefixDone \/ Finish

Spec == Init /\ [][Next]_vars

-----------------------------------------------------------------------------
(* Properties. *)

(* The faces of a word that are not the new die's hold the base, in order. *)
Holds(word, skeleton) ==
    FoldLeft(LAMBDA n, o : IF n < Len(skeleton) /\ skeleton[n + 1] = o THEN n + 1 ELSE n, 0, word)
        = Len(skeleton)
Extends(word, base, newOwner) ==
    Holds(word, [i \in 1 .. Len(bases[base]) |-> OwnerMap(newOwner, bases[base][i])])

(* The cursor goes back and forth with the word: what is left of the       *)
(* skeleton between its two marks and the padding are the faces that are   *)
(* missing, die by die; the faces placed hold the rest of the skeleton in  *)
(* its order; and the labels in use are those seen from the left.  So it   *)
(* is, too, when a worker starts from a base index and a place of the new  *)
(* die alone, on counts it never reset (initialize_extension_cursor).      *)
CursorIsExact ==
    mode # "done" =>
        LET names == [i \in 1 .. Len(bases[cursor.base]) |->
                         OwnerMap(cursor.newOwner, bases[cursor.base][i])]
        IN  /\ \A o \in Owners :
                   /\ remaining[o] = SIDES - Cardinality({i \in 1 .. Len(Encoding) : Encoding[i] = o})
                   /\ mode \notin {"next", "back"} \/ stack # <<>> =>
                          remaining[o] = cursor.padding[o]
                              + Cardinality({i \in cursor.baseLeft + 1 .. cursor.baseRight : names[i] = o})
            /\ mode # "next" =>
                   /\ Holds(left, SubSeq(names, 1, cursor.baseLeft))
                   /\ Holds(Reverse(right), SubSeq(names, cursor.baseRight + 1, Len(names)))
                   /\ cursor.used = Cardinality(ToSet(left))

(* Every fair word that holds one of the bases is found, and no other; for *)
(* each base and each place of the new die it is met once, though the same *)
(* faces could be chosen for the skeleton in many ways; and nothing that   *)
(* was collected is refused when it is replayed.                           *)
ExtensionsAreComplete ==
    /\ ~internalError
    /\ mode = "done" /\ collecting = FALSE =>
        /\ \A i, j \in 1 .. Len(reached) : reached[i] = reached[j] => i = j
        /\ solutions = {reached[i].word : i \in 1 .. Len(reached)}
        /\ \A i \in 1 .. Len(reached) :
               /\ Canonical(reached[i].word) /\ Fair(reached[i].word)
               /\ Extends(reached[i].word, reached[i].base, reached[i].newOwner)
        /\ \A base \in 1 .. Len(bases), newOwner \in Owners, word \in Words[size] :
               Extends(word, base, newOwner) /\ Canonical(word) /\ Fair(word) =>
                   \E i \in 1 .. Len(reached) :
                       reached[i] = [base |-> base, newOwner |-> newOwner, word |-> word]
=============================================================================
