---------------------------- MODULE SearchSession ----------------------------
(***************************************************************************)
(* What one session of an exhaustive search promises, whatever the number  *)
(* of threads: fair configurations are found one at a time, never twice    *)
(* and never more than the limit; and the last line names the reason the   *)
(* session ended, "complete" only when nothing is left to find.            *)
(***************************************************************************)
EXTENDS Naturals

CONSTANTS
    NodeLimited,    \* the session may end at a node limit
    MayFail,        \* resources may run out
    FailureFirst    \* a failure is named before the limit

VARIABLES
    fair,           \* the configurations an unlimited search would find
    limit,          \* the most to find, 0 for no limit
    found,          \* the configurations found so far
    count,          \* how many the program says there are
    interrupted,    \* the user asked the session to end
    verdict         \* how it ended, or "running"

vars == <<fair, limit, found, count, interrupted, verdict>>

AtLimit == limit # 0 /\ count >= limit

Init == found = {} /\ count = 0 /\ interrupted = FALSE /\ verdict = "running"

Find(configuration) ==
    /\ verdict = "running" /\ ~AtLimit
    /\ configuration \notin found
    /\ found' = found \union {configuration} /\ count' = count + 1
    /\ UNCHANGED <<fair, limit, interrupted, verdict>>

Interrupt ==
    /\ ~interrupted
    /\ interrupted' = TRUE
    /\ UNCHANGED <<fair, limit, found, count, verdict>>

Conclude ==
    /\ verdict = "running"
    /\ \/ interrupted /\ verdict' = "interrupted"
       \/ NodeLimited /\ ~interrupted /\ verdict' = "nodeLimit"
       \/ AtLimit /\ ~interrupted /\ verdict' = "solutionLimit"
       \/ found = fair /\ ~AtLimit /\ ~interrupted /\ verdict' = "complete"
       \/ MayFail /\ ~interrupted /\ (FailureFirst \/ ~AtLimit) /\ verdict' = "failed"
    /\ UNCHANGED <<fair, limit, found, count, interrupted>>

Next == Interrupt \/ Conclude \/ \E configuration \in fair : Find(configuration)

Spec == Init /\ [][Next]_vars
=============================================================================
