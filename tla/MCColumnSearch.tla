--------------------------- MODULE MCColumnSearch ---------------------------
(* Small builds of ColumnSearch for TLC, and what to compare them with. *)
EXTENDS ColumnSearch, ColumnWords

Plain(dice, sides, mirrored) ==
    [dice |-> dice, sides |-> sides, mirrored |-> mirrored, permOnly |-> FALSE,
     highFirst |-> FALSE, template |-> {}, jobs |-> 1, rowMitm |-> FALSE, row1Mitm |-> FALSE,
     completion |-> FALSE]
With(b, template) == [b EXCEPT !.template = template]

(* A die, whole. *)
Row(die, offsets) == {<<die, c - 1, offsets[c]>> : c \in 1 .. Len(offsets)}
ThreeDice ==
    {[Plain(3, 6, 0) EXCEPT !.jobs = 10], [Plain(3, 6, 0) EXCEPT !.highFirst = TRUE, !.jobs = 40],
     [Plain(3, 6, 1) EXCEPT !.permOnly = TRUE], [Plain(3, 6, 3) EXCEPT !.highFirst = TRUE],
     Plain(2, 6, 0), Plain(3, 4, 1)}
        \union {With(Plain(3, 6, 0), template) :
                   template \in {Row(2, <<0, 2, 1, 1, 2, 0>>), Row(1, <<2, 2, 0, 0, 2, 2>>),
                                 {<<0, 3, 0>>, <<1, 3, 1>>, <<2, 1, 0>>, <<1, 0, 1>>},
                                 Row(0, <<0, 2, 1, 1, 2, 0>>) \union Row(1, <<1, 1, 2, 2, 1, 1>>),
                                 {<<0, 3, 0>>, <<1, 3, 0>>}}}
        \union {With(Plain(3, 6, 2), template) :
                   template \in {{<<1, 5, 0>>, <<2, 2, 1>>}, {<<0, 0, 0>>, <<0, 5, 0>>},
                                 {<<0, 0, 2>>, <<0, 5, 0>>, <<1, 3, 2>>}}}

FourDice(mirrored) == [Plain(4, 12, mirrored) EXCEPT !.permOnly = TRUE, !.jobs = 6]
RowSolved(mirrored) ==
    [FourDice(mirrored) EXCEPT !.rowMitm = TRUE, !.row1Mitm = TRUE, !.completion = TRUE]

(* MIRROR_COLUMNS.md: permutation-fair configurations of 4d12.             *)
Documented ==
    FourDice(6) :> 16 @@ RowSolved(6) :> 16 @@ RowSolved(4) :> 32
        @@ [RowSolved(5) EXCEPT !.row1Mitm = FALSE] :> 16

(* Words of all grids in which the dice are even in pairs.                 *)
ReferenceWords == <<2, 6>> :> EvenWords(2, 6) @@ <<3, 6>> :> EvenWords(3, 6)

(* A whole die, and a cell of another one in the mirrored half. *)
HalfGiven == With(FourDice(6), Row(2, <<2, 1, 3, 0, 0, 3>>) \union {<<0, 11, 3>>})

SmallBuilds ==
    ThreeDice \union DOMAIN Documented
        \union {[Plain(4, 12, 6) EXCEPT !.jobs = 6], HalfGiven}
=============================================================================
