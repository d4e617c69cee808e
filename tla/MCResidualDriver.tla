------------------------- MODULE MCResidualDriver -------------------------
(* Small instances of ResidualDriver for TLC. *)
EXTENDS ResidualDriverInvariant

CONSTANTS e1, e2, e3, e4

SmallEncodings == {e1, e2, e3, e4}

(* Two prefixes for one job, as --node-limit requires. *)
TwoPrefixes == [p \in 0 .. 1 |-> IF p = 0 THEN <<e1, e2>> ELSE <<e3>>]

(* Four prefixes for three jobs: one job has two of them; one is barren,   *)
(* and two extensions are the same configuration.                          *)
Repeated ==
    [p \in 0 .. 3 |->
        CASE p = 0 -> <<e1>> [] p = 1 -> <<e2, e3>> [] p = 2 -> <<>> [] p = 3 -> <<e1>>]

(* Extensions of two bases reach the same configuration, and the worker    *)
(* of the first one may go on to another.                                  *)
Overlapping == [p \in 0 .. 2 |-> IF p = 1 THEN <<e2, e3>> ELSE <<e1>>]
=============================================================================
