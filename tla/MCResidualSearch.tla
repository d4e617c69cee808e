-------------------------- MODULE MCResidualSearch --------------------------
(* Small instances of ResidualSearch for TLC, and the words to compare on. *)
EXTENDS ResidualSearch

TwoSizes == {<<2, 8>>, <<3, 6>>}
(* The sizes with the settings of MIRROR and COLUMN_GROUP. *)
EveryBuild == TwoSizes \X BOOLEAN \X BOOLEAN

(* All words in two letters, for 2d8; for 3d6 those in groups of three, of *)
(* which the first gives the names.                                        *)
Orders == {q \in TuplesOf[3] : Len(q) = 3}
ComparedWords ==
    (<<2, 8>> :> {w \in [1 .. 16 -> 0 .. 1] : w[1] = 0}) @@
    (<<3, 6>> :> {<<0, 1, 2>> \o a \o b \o c \o d \o e :
                    a \in Orders, b \in Orders, c \in Orders, d \in Orders, e \in Orders})
=============================================================================
