---------------------------- MODULE MCWeaveStages ----------------------------
(* Small builds of WeaveStages for TLC. *)
EXTENDS WeaveStages, ColumnWords

Build(n, sides, maxWord, jobs) == [dice |-> n, sides |-> sides, maxWord |-> maxWord, jobs |-> jobs]

(* All stages; a stage that is impossible; a word too short for the        *)
(* differences of the second stage; words in which prefixes saturate.      *)
SmallBuilds ==
    {Build(4, 6, 100000, 8), Build(3, 6, 100000, 1), Build(3, 4, 1000, 2), Build(3, 5, 1000, 2),
     Build(2, 6, 255, 3), Build(2, 6, 255, 30), Build(2, 6, 255, 40), Build(2, 8, 1000, 5)}

(* Faces count from one here. *)
Shifted(w, length) == [i \in 1 .. length |-> w[i - 1]]
ReferenceWords ==
    <<2, 6>> :> AllWords(2, 6) @@ <<3, 6>> :> {Shifted(w, 18) : w \in EvenWords(3, 6)}
CompleteWords == {<<2, 6>>}
SmallLookAhead == [n \in 2 .. 4 |-> <<3, 2, 1>>[n - 1]]
=============================================================================
