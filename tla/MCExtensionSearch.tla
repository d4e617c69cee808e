------------------------- MODULE MCExtensionSearch -------------------------
(* Small solutions files for ExtensionSearch, and the words to compare on. *)
EXTENDS ExtensionSearch, ColumnWords

TwoSizes == {<<2, 4>>, <<3, 6>>}

(* One die: any number of sides, twice the same.  Two dice: an even word,  *)
(* the same under other names, a shorter one that is not even, and one     *)
(* that is not even and too long to serve; and a word of three dice.       *)
EvenWord == <<"a", "b", "b", "a", "b", "a", "a", "b", "b", "a", "a", "b">>
SmallFiles ==
    (<<2, 4>> :> {<<<<"x", "x">>, <<"a", "a", "a", "a">>, <<"b", "b">>>>}) @@
    (<<3, 6>> :>
        {<<EvenWord, <<"b", "a", "a", "b", "a", "b", "b", "a", "a", "b", "b", "a">>,
           <<"c", "d", "d", "d", "c", "c", "c", "d">>,
           <<"a", "a", "b", "b", "a", "b", "a", "b", "a", "b", "a", "b">>>>,
         <<<<"b", "a", "a", "b">>>>,
         <<EvenWord, <<"a", "b", "c">>>>})

(* For three dice, the words of grids of even dice that begin with all the *)
(* names: one that is not even is not fair.                                *)
ComparedWords ==
    (<<2, 4>> :> {w \in [1 .. 8 -> 0 .. 1] : w[1] = 0}) @@
    (<<3, 6>> :> {w \in {[i \in 1 .. 18 |-> word[i - 1]] : word \in EvenWords(3, 6)} :
                     w[1] = 0 /\ w[2] = 1})
=============================================================================
