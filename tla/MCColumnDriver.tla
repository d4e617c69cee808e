--------------------------- MODULE MCColumnDriver ---------------------------
(* Small instances of ColumnDriver for TLC. *)
EXTENDS ColumnDriverInvariant

CONSTANTS e1, e2, e3, e4

SmallEncodings == {e1, e2, e3, e4}
SomeSymmetric  == {e1, e2}
SomeSubsetOnly == {e2, e4}

(* Everything goes to a file, which may fail, in batches of two.           *)
Written ==
    [capacity |-> 2, threshold |-> 2, limit |-> 0, printLimit |-> 1, vast |-> {},
     randomOrder |-> FALSE, toFile |-> TRUE, checkMayFail |-> FALSE,
     leaves |-> [p \in 0 .. 2 |-> CASE p = 0 -> <<e1>> [] p = 1 -> <<e2, e3>> [] p = 2 -> <<>>]]

(* No file and a limit: those beyond the print limit are only counted.     *)
Unlisted ==
    [capacity |-> 1, threshold |-> 1, limit |-> 3, printLimit |-> 1, vast |-> {},
     randomOrder |-> FALSE, toFile |-> FALSE, checkMayFail |-> FALSE,
     leaves |-> [p \in 0 .. 2 |-> CASE p = 0 -> <<e1>> [] p = 1 -> <<e2, e3>> [] p = 2 -> <<e4>>]]

(* One found by a worker that goes on to another, none by the other        *)
(* worker; two searches without end, and a limit.                          *)
Unending ==
    [capacity |-> 1, threshold |-> 1, limit |-> 2, printLimit |-> 1, vast |-> {0, 1},
     randomOrder |-> FALSE, toFile |-> TRUE, checkMayFail |-> TRUE,
     leaves |-> [p \in 0 .. 2 |-> CASE p = 0 -> <<e1>> [] p = 1 -> <<>> [] p = 2 -> <<e2>>]]

EndingSessions  == {Written, Unlisted}
UnendingSession == {Unending}
=============================================================================
