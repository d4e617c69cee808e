----------------------------- MODULE ColumnWords -----------------------------
(* Owner words of small dice to compare the outcome of a search with.      *)
EXTENDS Integers, FiniteSets

(* All words in which each of n dice owns as many faces as it has sides.   *)
AllWords(n, sides) ==
    {w \in [1 .. n * sides -> 0 .. n - 1] :
        \A d \in 0 .. n - 1 : Cardinality({f \in 1 .. n * sides : w[f] = d}) = sides}

(* Words of grids, in which each die owns one face of every column, and    *)
(* every two dice are even.                                                *)
Columns(n) == {q \in [1 .. n -> 0 .. n - 1] : \A i, j \in 1 .. n : q[i] = q[j] => i = j}
PairsEven(columns, n, sides) ==
    \A a, b \in 1 .. n :
        a < b => Cardinality({c \in 1 .. sides : columns[c][a] < columns[c][b]}) * 2 = sides
Grids(n, sides) ==
    {columns \in [1 .. sides -> Columns(n)] : PairsEven(columns, n, sides)}
OwnerWord(columns, n, sides) ==
    [face \in 0 .. n * sides - 1 |->
        (CHOOSE i \in 1 .. n : columns[face \div n + 1][i] = face % n) - 1]
EvenWords(n, sides) == {OwnerWord(g, n, sides) : g \in Grids(n, sides)}
=============================================================================
