----------------------------- MODULE MCGoSearch -----------------------------
(* Small builds of gofirstdice.go for TLC. *)
EXTENDS GoInvariant

(* Two dice by two goroutines at a time, in four jobs and in two; three    *)
(* dice by one goroutine after the other, which find fair sets of each     *)
(* kind.                                                                   *)
SmallBuilds ==
    {[dice |-> 2, sides |-> 4, colmask |-> 3, threads |-> 2],
     [dice |-> 2, sides |-> 6, colmask |-> 2, threads |-> 2],
     [dice |-> 3, sides |-> 6, colmask |-> 2, threads |-> 1]}
=============================================================================
