-------------------------- MODULE ColumnCompletion --------------------------
(***************************************************************************)
(* How many more rolls come out in one order of the dice than in another,  *)
(* and the bounds of modern_dice/column_search.c on what the dice still to *)
(* be chosen can do to that difference.                                    *)
(*                                                                         *)
(* A column is a function from the dice to their offsets in it.  A roll    *)
(* takes one column for each die; it comes out in the order word when the  *)
(* columns never fall along word and dice that share a column have their   *)
(* offsets in order.  The dice of a word that share a column are a block.  *)
(***************************************************************************)
EXTENDS Integers, Sequences, SequencesExt, FiniteSetsExt, TLC

Choose(n, k) ==
    FoldLeft(LAMBDA p, i : (p * (n - i + 1)) \div i, IF n < k THEN 0 ELSE 1,
             IF n < k THEN <<>> ELSE [i \in 1 .. k |-> i])

Bit(condition) == IF condition THEN 1 ELSE 0

(* completion_block_matches: the letters begin .. begin + length - 1 of the *)
(* word (from zero) have ascending offsets.                                 *)
Matches(offset, word, begin, length) ==
    \A i \in begin + 1 .. begin + length - 1 : offset[word[i]] < offset[word[i + 1]]

(* The blocks <<begin, length>> of two letters or more in a word of n, and *)
(* the pairs of them that do not overlap.                                  *)
BlocksOf(n) ==
    {b \in (0 .. n - 2) \X (2 .. n) : b[1] + b[2] <= n}
Blocks == [n \in 2 .. 5 |-> BlocksOf(n)]
BlockPairs == [n \in 2 .. 5 |-> {p \in BlocksOf(n) \X BlocksOf(n) : p[1][1] + p[1][2] <= p[2][1]}]

(* conditioned_unary_value: this column holds the one block of the roll.   *)
UnaryValue(sides, offset, word, c) ==
    MapThenSumSet(
        LAMBDA b : IF Matches(offset, word, b[1], b[2])
                   THEN Choose(c, b[1]) * Choose(sides - c - 1, Len(word) - b[1] - b[2])
                   ELSE 0,
        Blocks[Len(word)])

(* Two blocks, the first in column c and the second in column d > c; the   *)
(* other letters lie alone in the columns before, between and after.       *)
PairValue(sides, offsetC, offsetD, word, c, d) ==
    MapThenSumSet(
        LAMBDA p : IF /\ Matches(offsetC, word, p[1][1], p[1][2])
                      /\ Matches(offsetD, word, p[2][1], p[2][2])
                   THEN Choose(c, p[1][1])
                        * Choose(d - c - 1, p[2][1] - p[1][1] - p[1][2])
                        * Choose(sides - d - 1, Len(word) - p[2][1] - p[2][2])
                   ELSE 0,
        BlockPairs[Len(word)])

-----------------------------------------------------------------------------
(* The last row with a choice.  The dice 0 .. D - 3 are in place, and the  *)
(* letters D - 2 and D - 1 share what is left of every column.             *)

(* initialize_conditioned_completion_bounds: the words in which the dice   *)
(* in place stand together; the first one is the reference.                *)
ConditionedWords(dice) ==
    {word \in [1 .. dice -> 0 .. dice - 1] :
        /\ \A i, j \in 1 .. dice : word[i] = word[j] => i = j
        /\ \/ \A i \in 1 .. dice - 2 : word[i] < dice - 2
           \/ \A i \in 3 .. dice : word[i] < dice - 2}
Reference(dice) == [i \in 1 .. dice |-> i - 1]

(* conditioned_correlation_values: the block of the dice in place does not *)
(* depend on the choices, so the pairs separate by the other one's column. *)
CorrelationValue(sides, base, offset, word, c) ==
    IF word[1] < Len(word) - 2
    THEN MapThenSumSet(LAMBDA d : PairValue(sides, base[d], offset, word, d, c), 0 .. c - 1)
    ELSE MapThenSumSet(LAMBDA d : PairValue(sides, offset, base[d], word, c, d),
                       c + 1 .. sides - 1)

(* What column c adds to the difference of a word and the reference.       *)
ConditionedValue(sides, base, offset, word, c) ==
    LET Value(w) == UnaryValue(sides, offset, w, c) + CorrelationValue(sides, base, offset, w, c)
    IN  Value(word) - Value(Reference(Len(word)))

(* conditioned_completion_possible.  A choice is a function from the       *)
(* columns it settles, its own and the mirror of it, to their offsets.     *)
ConditionedInterval(dice, sides, choices, word) ==
    LET First(set) == CHOOSE choice \in set : TRUE
        base == [c \in 0 .. sides - 1 |->
                    LET set == CHOOSE s \in choices : c \in DOMAIN First(s) IN First(set)[c]] @@ <<>>
        value == [choice \in UNION choices |->
                     MapThenSumSet(LAMBDA c : ConditionedValue(sides, base, choice[c], word, c),
                                   DOMAIN choice)] @@ <<>>
        Sum(Of(_)) == MapThenSumSet(LAMBDA set : Of({value[choice] : choice \in set}), choices)
    IN  [low |-> Sum(Min), high |-> Sum(Max)]
ConditionedPossible(dice, sides, choices) ==
    (\A set \in choices : Cardinality(set) <= 2)
        => \A word \in ConditionedWords(dice) \ {Reference(dice)} :
               LET interval == ConditionedInterval(dice, sides, choices, word)
               IN  interval.low <= 0 /\ 0 <= interval.high
=============================================================================
