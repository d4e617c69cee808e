------------------------- MODULE ResidualInvariant --------------------------
(***************************************************************************)
(* The inductive invariant of ResidualSearch: the state in place is what   *)
(* the moves on the stack make of the fresh one, every owner a frame has   *)
(* yet to try is one that its counts admit, and every state on the way is  *)
(* exact.                                                                  *)
(***************************************************************************)
EXTENDS ResidualSearch

(* A state as a record, and what a step makes of it. *)
Fresh(d, sides) ==
    [residual |-> TargetsOf[<<d, sides>>], remaining |-> [o \in 0 .. d - 1 |-> sides],
     left |-> <<>>, right |-> <<>>, used |-> 0]
Now == [residual |-> residual, remaining |-> remaining, left |-> left, right |-> right,
        used |-> used]

Faces(end) == IF end = "both" THEN 2 ELSE 1
Moved(s, step) ==
    [residual  |-> Subtract(s.residual, step.owner, step.end),
     remaining |-> [s.remaining EXCEPT ![step.owner] = @ - Faces(step.end)],
     left  |-> IF step.end \in {"left", "both"} THEN Append(s.left, step.owner) ELSE s.left,
     right |-> IF step.end \in {"right", "both"} THEN Append(s.right, step.owner) ELSE s.right,
     used  |-> IF step.end # "right" /\ step.owner = s.used THEN s.used + 1 ELSE s.used]
StateAfter(s, frames) == FoldLeft(Moved, s, frames)

-----------------------------------------------------------------------------
(* A state is exact, with d dice of so many sides.                         *)
StateTyped(d, s) ==
    /\ s.residual \in [TuplesOf[d] -> Nat] /\ s.remaining \in [0 .. d - 1 -> Nat]
    /\ s.left \in Seq(0 .. d - 1) /\ s.right \in Seq(0 .. d - 1) /\ s.used \in 0 .. d

(* The counts of the shortest tuples are those of the faces.               *)
FacesCounted(d, sides, s) ==
    /\ s.residual[<<>>] = 1
    /\ \A o \in 0 .. d - 1 :
           /\ s.residual[<<o>>] = s.remaining[o]
           /\ s.remaining[o] = sides - FacesOf(s.left, o) - FacesOf(s.right, o)

WaysLeft(d, s)  == WaysAmong(TuplesOf[d], s.left)
WaysRight(d, s) == WaysAmong(TuplesOf[d], Reverse(s.right))
TargetsMade(d, sides, s) ==
    \A q \in TuplesOf[d] :
        Joined(WaysLeft(d, s), s.residual, WaysRight(d, s), q) = TargetsOf[<<d, sides>>][q]
Mirrored(d, mirror, s) == mirror => \A q \in TuplesOf[d] : s.residual[q] = s.residual[Reverse(q)]
NamesSeen(s) == {s.left[i] : i \in 1 .. Len(s.left)} = 0 .. s.used - 1

Exact(d, sides, mirror, s) ==
    /\ StateTyped(d, s) /\ FacesCounted(d, sides, s) /\ TargetsMade(d, sides, s)
    /\ Mirrored(d, mirror, s) /\ NamesSeen(s)

(* What the plan makes sure of.                                            *)
CanMove(d, mirror, s, owner, end) ==
    /\ owner \in 0 .. d - 1 /\ s.remaining[owner] >= Faces(end)
    /\ end \in {"left", "right", "both"} /\ (end = "both") = mirror
    /\ end = "right" => SuffixFeasible(s.residual, owner) /\ s.used = d
    /\ end # "right" => PrefixFeasible(s.residual, owner) /\ owner <= s.used

-----------------------------------------------------------------------------
(* The frames whose owners are in place, and the state below a frame.      *)
Placed    == IF mode = "try" THEN Front(stack) ELSE stack
Before(k) == StateAfter(Fresh(DICE, SIDES), SubSeq(stack, 1, k - 1))

Frames ==
    [end : {"left", "right", "both"}, todo : SUBSET Owners, owner : Owners, used : 0 .. DICE]

FrameInv(k) ==
    /\ Exact(DICE, SIDES, MIRROR, Before(k))
    /\ stack[k].used = Before(k).used /\ (stack[k].end = "both") = MIRROR
    /\ \A o \in stack[k].todo : CanMove(DICE, MIRROR, Before(k), o, stack[k].end)

TypeOK ==
    /\ <<<<DICE, SIDES>>, MIRROR, COLUMN_GROUP>> \in Builds
    /\ stack \in Seq(Frames) /\ (mode = "try" => stack # <<>>)

IInv ==
    /\ TypeOK
    /\ Now = StateAfter(Fresh(DICE, SIDES), Placed)
    /\ Exact(DICE, SIDES, MIRROR, Now)
    /\ \A k \in 1 .. Len(stack) : FrameInv(k)
=============================================================================
