--------------------------- MODULE MCWeaveDriver ---------------------------
(* Small instances of WeaveDriver for TLC. *)
EXTENDS WeaveDriverInvariant

CONSTANTS e1, e2, e3, e4

SmallEncodings == {e1, e2, e3, e4}

(* No limit: three prefixes in strides of two, and more to print than the  *)
(* ring has places: both workers may wait; as many prefixes as a word      *)
(* counts.                                                                 *)
Unlimited ==
    [prefixCount |-> 3, maxWord |-> 3, limit |-> 0, printLimit |-> 3, vast |-> {},
     checkMayFail |-> FALSE,
     leaves |-> [p \in 0 .. 2 |-> CASE p = 0 -> <<e1>> [] p = 1 -> <<e2>> [] p = 2 -> <<e3>>]]

(* A search without end and a limit of two that is passed.                 *)
Limited ==
    [prefixCount |-> 2, maxWord |-> 2, limit |-> 2, printLimit |-> 1, vast |-> {1},
     checkMayFail |-> TRUE,
     leaves |-> [p \in 0 .. 1 |-> IF p = 0 THEN <<e1, e2>> ELSE <<e3>>]]

SmallSessions == {Unlimited, Limited}
=============================================================================
