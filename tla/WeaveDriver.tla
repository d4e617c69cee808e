----------------------------- MODULE WeaveDriver -----------------------------
(***************************************************************************)
(* The multithreaded driver of modern_dice/weave_search.c.  Unlike that of *)
(* residual_search.c, its workers hand solutions over in a bounded ring:   *)
(* one that finds the ring full waits on solution_not_full, and only the   *)
(* main thread, which looks every 100 ms, makes room.  A job is not a      *)
(* range of prefixes but every job_count-th prefix, and the interrupt is   *)
(* polled by the workers themselves.                                       *)
(*                                                                         *)
(* The search of a stage-two prefix is abstracted to the sequence of final *)
(* configurations below it.  Critical sections of solution_mutex are       *)
(* single steps; the counters and flags are C11 atomics, and each access   *)
(* to one is a step.  A definition named X_Y is X with the plausible       *)
(* mistake Y in it and no part of the specification.                       *)
(***************************************************************************)
EXTENDS Naturals, FiniteSets, Sequences

CONSTANTS
    Threads,        \* requested_threads
    DesiredJobs,    \* options.jobs, or 8 per thread
    Capacity,       \* SOLUTION_QUEUE_CAPACITY
    Encodings,      \* the encodings a configuration can have
    Sessions,       \* what sessions search, and with which options
    MayInterrupt,   \* the user may press Ctrl-C
    CreateMayFail   \* pthread_create may fail

PrefixesOf(s) == 0 .. s.prefixCount - 1

(* The fields of a session: prefix_count and UINT64_MAX, which it cannot   *)
(* pass; for every prefix the encodings of the configurations below it;    *)
(* the prefixes whose search may never end; options.limit, 0 when there is *)
(* none, and options.print_limit; whether an internal check may fail.      *)
IsSession(s) ==
    /\ s.prefixCount \in Nat \ {0} /\ s.maxWord \in Nat /\ s.prefixCount <= s.maxWord
    /\ s.leaves \in [PrefixesOf(s) -> Seq(Encodings)]
    /\ s.vast \subseteq PrefixesOf(s)
    /\ s.limit \in Nat /\ s.printLimit \in Nat /\ s.checkMayFail \in BOOLEAN
    /\ \A p, q \in PrefixesOf(s) :
           \A i \in 1 .. Len(s.leaves[p]) : \A j \in 1 .. Len(s.leaves[q]) :
               s.leaves[p][i] = s.leaves[q][j] => p = q /\ i = j

ASSUME WeaveAssumption ==
    /\ Threads \in Nat \ {0} /\ DesiredJobs \in Nat \ {0} /\ Capacity \in Nat \ {0}
    /\ \A s \in Sessions : IsSession(s)
    /\ {MayInterrupt, CreateMayFail} \subseteq BOOLEAN

VARIABLES
    session,        \* the session at hand, which never changes
    nextJob, jobsDone, solutionTotal, activeWorkers,    \* shared_state, atomic
    stop, internalError,                                \* shared_state, atomic
    queue,          \* solution_queue from solution_head to solution_tail
    pc,             \* where each worker is
    job, prefix,    \* worker_main: job, prefix
    leaf,           \* configurations this prefix has yielded
    number,         \* claim_solution: current, then *number
    failed,         \* search->internal_error
    mainPc,         \* where main is
    created,        \* created_threads
    interrupted,    \* interrupt_requested
    exitStatus,     \* exit_status
    status,         \* the word main reports
    printed,        \* what drain_solutions has printed
    numbering,      \* history: which configuration got which number
    searched        \* history: how often each prefix was searched to its end

counters   == <<nextJob, jobsDone, solutionTotal>>
flags      == <<stop, internalError>>
workerVars == <<job, prefix, leaf, number, failed>>
mainVars   == <<created, interrupted, exitStatus, status, printed>>
history    == <<numbering, searched>>
vars       == <<session, counters, activeWorkers, flags, queue, pc, workerVars, mainPc,
                mainVars, history>>

PrefixCount == session.prefixCount
MaxWord     == session.maxWord
Leaves      == session.leaves
Vast        == session.vast
Limit       == session.limit
PrintLimit  == session.printLimit
CheckMayFail == session.checkMayFail

JobCount    == IF DesiredJobs < PrefixCount THEN DesiredJobs ELSE PrefixCount
WorkerCount == IF Threads > JobCount THEN JobCount ELSE Threads
Workers     == 1 .. Threads
Prefixes    == PrefixesOf(session)

Init ==
    /\ session \in Sessions
    /\ nextJob = 0 /\ jobsDone = 0 /\ solutionTotal = 0 /\ activeWorkers = 0
    /\ stop = FALSE /\ internalError = FALSE /\ queue = <<>>
    /\ pc = [w \in Workers |-> "absent"]
    /\ job = [w \in Workers |-> 0] /\ prefix = [w \in Workers |-> 0]
    /\ leaf = [w \in Workers |-> 0] /\ number = [w \in Workers |-> 0]
    /\ failed = [w \in Workers |-> FALSE]
    /\ mainPc = "create" /\ created = 0 /\ interrupted = FALSE
    /\ exitStatus = "success" /\ status = "running" /\ printed = <<>>
    /\ numbering = {} /\ searched = [p \in Prefixes |-> 0]

Goto(w, step) == pc' = [pc EXCEPT ![w] = step]

-----------------------------------------------------------------------------
(* worker_main: one turn of the outer loop takes one job. *)

ClaimJob(w) ==
    /\ pc[w] = "claim"
    /\ job' = [job EXCEPT ![w] = nextJob]
    /\ nextJob' = nextJob + 1
    /\ Goto(w, "check")
    /\ UNCHANGED <<session, jobsDone, solutionTotal, activeWorkers, flags, queue, prefix, leaf,
                   number, failed, mainPc, mainVars, history>>

CheckJob(w) ==
    /\ pc[w] = "check"
    /\ IF job[w] >= JobCount \/ interrupted \/ stop
       THEN Goto(w, "leave") /\ UNCHANGED <<prefix, leaf>>
       ELSE /\ prefix' = [prefix EXCEPT ![w] = job[w]]
            /\ leaf' = [leaf EXCEPT ![w] = 0]
            /\ Goto(w, "search")
    /\ UNCHANGED <<session, counters, activeWorkers, flags, queue, job, number, failed, mainPc,
                   mainVars, history>>

(* search_insertions asks this on every node, worker_main after every      *)
(* prefix and before a job counts as done.                                 *)
ShouldStop_OwnErrorOnly(w) == failed[w]
ShouldStop(w) == interrupted \/ failed[w] \/ stop

(* The next prefix of the job, unless adding job_count would overflow. *)
WouldOverflow_Unchecked(p) == FALSE
WouldOverflow(p) == p > MaxWord - JobCount
Add(p, n) == (p + n) % (MaxWord + 1)

InRange_OffByOne(p) == p + 1 < PrefixCount
InRange(p) == p < PrefixCount

NextPrefix(w) ==
    /\ pc[w] = "prefixDone"
    /\ IF \/ ShouldStop(w)
          \/ WouldOverflow(prefix[w])
          \/ ~InRange(Add(prefix[w], JobCount))
       THEN Goto(w, "jobDone") /\ UNCHANGED <<prefix, leaf>>
       ELSE /\ prefix' = [prefix EXCEPT ![w] = Add(@, JobCount)]
            /\ leaf' = [leaf EXCEPT ![w] = 0]
            /\ Goto(w, "search")
    /\ UNCHANGED <<session, counters, activeWorkers, flags, queue, job, number, failed, mainPc,
                   mainVars, history>>

CountJob(w) ==
    /\ pc[w] = "jobDone"
    /\ jobsDone' = IF ShouldStop(w) THEN jobsDone ELSE jobsDone + 1
    /\ Goto(w, "claim")
    /\ UNCHANGED <<session, nextJob, solutionTotal, activeWorkers, flags, queue, workerVars, mainPc,
                   mainVars, history>>

(* An interrupted worker tells the others, *)
Leave(w) ==
    /\ pc[w] = "leave"
    /\ stop' = (stop \/ interrupted)
    /\ Goto(w, "retire")
    /\ UNCHANGED <<session, counters, activeWorkers, internalError, queue, workerVars, mainPc,
                   mainVars, history>>

(* and is gone: nobody is signalled, the main thread will look again. *)
Deactivate == activeWorkers' = activeWorkers - 1

Retire(w) ==
    /\ pc[w] = "retire"
    /\ Deactivate
    /\ Goto(w, "exited")
    /\ UNCHANGED <<session, counters, flags, queue, workerVars, mainPc, mainVars, history>>

-----------------------------------------------------------------------------
(* search_insertions and accept_extension. *)

Found(w) == Leaves[prefix[w]][leaf[w]]

(* A node polls before anything else: the recursion unwinds. *)
PollStop(w) ==
    /\ pc[w] = "search" /\ ShouldStop(w)
    /\ Goto(w, "prefixDone")
    /\ UNCHANGED <<session, counters, activeWorkers, flags, queue, workerVars, mainPc, mainVars,
                   history>>

VisitLeaf(w) ==
    /\ pc[w] = "search" /\ ~ShouldStop(w) /\ leaf[w] < Len(Leaves[prefix[w]])
    /\ leaf' = [leaf EXCEPT ![w] = @ + 1]
    /\ Goto(w, "load")
    /\ UNCHANGED <<session, counters, activeWorkers, flags, queue, job, prefix, number, failed,
                   mainPc, mainVars, history>>

FinishPrefix(w) ==
    /\ pc[w] = "search" /\ leaf[w] = Len(Leaves[prefix[w]])
    /\ searched' = [searched EXCEPT ![prefix[w]] = @ + 1]
    /\ Goto(w, "prefixDone")
    /\ UNCHANGED <<session, counters, activeWorkers, flags, queue, workerVars, mainPc, mainVars,
                   numbering>>

(* decode_prefix, verify_configuration or prepare_stage returns false. *)
CheckFails(w) ==
    /\ CheckMayFail /\ pc[w] = "search" /\ ~ShouldStop(w)
    /\ failed' = [failed EXCEPT ![w] = TRUE]
    /\ internalError' = TRUE /\ stop' = TRUE
    /\ Goto(w, "prefixDone")
    /\ UNCHANGED <<session, counters, activeWorkers, queue, job, prefix, leaf, number, mainPc,
                   mainVars, history>>

(* claim_solution: without a limit one fetch-and-add, ... *)
AtLimit(n) == Limit # 0 /\ n >= Limit

Numbering(w, n) == numbering' = numbering \union {[number |-> n, encoding |-> Found(w)]}

FetchAndAdd(w) ==
    /\ pc[w] = "load" /\ Limit = 0
    /\ solutionTotal' = solutionTotal + 1
    /\ number' = [number EXCEPT ![w] = solutionTotal + 1]
    /\ Numbering(w, solutionTotal + 1)
    /\ Goto(w, "enqueue")
    /\ UNCHANGED <<session, nextJob, jobsDone, activeWorkers, flags, queue, job, prefix, leaf, failed,
                   mainPc, mainVars, searched>>

(* ... with one a load, the test, *)
LoadTotal(w) ==
    /\ pc[w] = "load" /\ Limit # 0
    /\ number' = [number EXCEPT ![w] = solutionTotal]
    /\ Goto(w, "exchange")
    /\ UNCHANGED <<session, counters, activeWorkers, flags, queue, job, prefix, leaf, failed, mainPc,
                   mainVars, history>>

Refuse(w) ==
    /\ pc[w] = "exchange" /\ AtLimit(number[w])
    /\ stop' = TRUE
    /\ Goto(w, "search")
    /\ UNCHANGED <<session, counters, activeWorkers, internalError, queue, workerVars, mainPc,
                   mainVars, history>>

(* and a compare-and-exchange that may also fail for no reason (_weak). *)
Unchanged(w) == solutionTotal = number[w]

CompareExchange(w) ==
    /\ pc[w] = "exchange" /\ ~AtLimit(number[w])
    /\ \/ /\ Unchanged(w)
          /\ solutionTotal' = number[w] + 1
          /\ number' = [number EXCEPT ![w] = @ + 1]
          /\ Numbering(w, number[w] + 1)
          /\ Goto(w, "enqueue")
       \/ Goto(w, "load") /\ UNCHANGED <<solutionTotal, number, numbering>>
    /\ UNCHANGED <<session, nextJob, jobsDone, activeWorkers, flags, queue, job, prefix, leaf, failed,
                   mainPc, mainVars, searched>>

(* enqueue_solution, for a number up to --print-limit. *)
ToPrint_OffByOne(w) == number[w] < PrintLimit
ToPrint(w) == number[w] <= PrintLimit

Full == Len(queue) = Capacity

Enqueue(w) ==
    /\ pc[w] = "enqueue" /\ (ToPrint(w) => ~Full)
    /\ queue' = IF ToPrint(w)
                THEN Append(queue, [number |-> number[w], encoding |-> Found(w)])
                ELSE queue
    /\ Goto(w, "limit")
    /\ UNCHANGED <<session, counters, activeWorkers, flags, workerVars, mainPc, mainVars, history>>

(* pthread_cond_wait gives up the mutex, *)
AwaitRoom(w) ==
    /\ pc[w] = "enqueue" /\ ToPrint(w) /\ Full
    /\ Goto(w, "waiting")
    /\ UNCHANGED <<session, counters, activeWorkers, flags, queue, workerVars, mainPc, mainVars,
                   history>>

(* and may return without a signal; the loop tests again. *)
SpuriousWakeup(w) ==
    /\ pc[w] = "waiting"
    /\ Goto(w, "enqueue")
    /\ UNCHANGED <<session, counters, activeWorkers, flags, queue, workerVars, mainPc, mainVars,
                   history>>

ReachLimit(w) ==
    /\ pc[w] = "limit"
    /\ stop' = (stop \/ AtLimit(number[w]))
    /\ Goto(w, "search")
    /\ UNCHANGED <<session, counters, activeWorkers, internalError, queue, workerVars, mainPc,
                   mainVars, history>>

(* What a worker does when it is given the processor. *)
WorkerStep(w) ==
    \/ ClaimJob(w) \/ CheckJob(w) \/ NextPrefix(w) \/ CountJob(w) \/ Leave(w) \/ Retire(w)
    \/ PollStop(w) \/ VisitLeaf(w) \/ FinishPrefix(w)
    \/ FetchAndAdd(w) \/ LoadTotal(w) \/ Refuse(w) \/ CompareExchange(w)
    \/ Enqueue(w) \/ AwaitRoom(w) \/ ReachLimit(w)

-----------------------------------------------------------------------------
(* main: create the workers. *)

Activate == activeWorkers' = activeWorkers + 1

CreateWorker ==
    /\ mainPc = "create"
    /\ Activate
    /\ mainPc' = "created"
    /\ UNCHANGED <<session, counters, flags, queue, pc, workerVars, mainVars, history>>

WorkerCreated ==
    /\ mainPc = "created"
    /\ created' = created + 1
    /\ pc' = [pc EXCEPT ![created + 1] = "claim"]
    /\ mainPc' = IF created + 1 < WorkerCount THEN "create" ELSE "test"
    /\ UNCHANGED <<session, counters, activeWorkers, flags, queue, workerVars, interrupted,
                   exitStatus, status, printed, history>>

CreateFails ==
    /\ CreateMayFail /\ mainPc = "created"
    /\ Deactivate
    /\ stop' = TRUE
    /\ exitStatus' = "failure"
    /\ mainPc' = IF created # 0 THEN "test" ELSE "join"
    /\ UNCHANGED <<session, counters, internalError, queue, pc, workerVars, created, interrupted,
                   status, printed, history>>

-----------------------------------------------------------------------------
(* watch_workers, which nothing wakes before its 100 ms are over. *)

TestActive ==
    /\ mainPc = "test"
    /\ mainPc' = IF activeWorkers # 0 THEN "poll" ELSE "finalDrain"
    /\ UNCHANGED <<session, counters, activeWorkers, flags, queue, pc, workerVars, mainVars, history>>

NoticeInterrupt == stop' = (stop \/ interrupted)

PollInterrupt ==
    /\ mainPc = "poll"
    /\ NoticeInterrupt
    /\ mainPc' = "drain"
    /\ UNCHANGED <<session, counters, activeWorkers, internalError, queue, pc, workerVars, mainVars,
                   history>>

Pause ==
    /\ mainPc = "pause"
    /\ mainPc' = "test"
    /\ UNCHANGED <<session, counters, activeWorkers, flags, queue, pc, workerVars, mainVars, history>>

(* drain_solutions takes one solution at a time and signals the place it   *)
(* leaves; the signal wakes one waiter if there is any.                    *)
Waiters == {w \in Workers : pc[w] = "waiting"}

SignalNotFull_Forgotten == UNCHANGED pc
SignalNotFull ==
    IF Waiters # {} THEN \E w \in Waiters : Goto(w, "enqueue") ELSE UNCHANGED pc

Draining == mainPc \in {"drain", "finalDrain", "lastDrain"}

DrainOne ==
    /\ Draining /\ queue # <<>>
    /\ queue' = Tail(queue)
    /\ printed' = Append(printed, Head(queue))
    /\ SignalNotFull
    /\ UNCHANGED <<session, counters, activeWorkers, flags, workerVars, mainPc, created, interrupted,
                   exitStatus, status, history>>

(* watch_workers drains in its loop and once behind it, main after the join. *)
Drained ==
    /\ Draining /\ queue = <<>>
    /\ mainPc' = CASE mainPc = "drain"      -> "pause"
                   [] mainPc = "finalDrain" -> "join"
                   [] mainPc = "lastDrain"  -> "assess"
    /\ UNCHANGED <<session, counters, activeWorkers, flags, queue, pc, workerVars, mainVars, history>>

-----------------------------------------------------------------------------
(* main: join and judge. *)

Joined == \A w \in Workers : w <= created => pc[w] = "exited"

JoinWorkers ==
    /\ mainPc = "join" /\ Joined
    /\ mainPc' = "lastDrain"
    /\ UNCHANGED <<session, counters, activeWorkers, flags, queue, pc, workerVars, mainVars, history>>

HitLimit == Limit # 0 /\ solutionTotal >= Limit

Assess ==
    /\ mainPc = "assess"
    /\ exitStatus' =
           IF internalError \/ (~HitLimit /\ ~interrupted /\ jobsDone # JobCount)
           THEN "failure" ELSE exitStatus
    /\ mainPc' = "report"
    /\ UNCHANGED <<session, counters, activeWorkers, flags, queue, pc, workerVars, created,
                   interrupted, status, printed, history>>

Report ==
    /\ mainPc = "report"
    /\ status' = CASE interrupted -> "interrupted"
                   [] ~interrupted /\ exitStatus = "failure" -> "failed"
                   [] ~interrupted /\ exitStatus # "failure" ->
                          IF HitLimit THEN "solutionLimit" ELSE "complete"
    /\ exitStatus' = IF interrupted /\ exitStatus = "success" THEN "sigint" ELSE exitStatus
    /\ mainPc' = "done"
    /\ UNCHANGED <<session, counters, activeWorkers, flags, queue, pc, workerVars, created,
                   interrupted, printed, history>>

MainThread ==
    \/ CreateWorker \/ WorkerCreated \/ CreateFails
    \/ TestActive \/ PollInterrupt \/ Pause \/ DrainOne \/ Drained
    \/ JoinWorkers \/ Assess \/ Report

Interrupt ==
    /\ MayInterrupt /\ ~interrupted /\ mainPc # "done"
    /\ interrupted' = TRUE
    /\ UNCHANGED <<session, counters, activeWorkers, flags, queue, pc, workerVars, mainPc, created,
                   exitStatus, status, printed, history>>

Next ==
    \/ MainThread \/ Interrupt
    \/ \E w \in Workers : WorkerStep(w) \/ CheckFails(w) \/ SpuriousWakeup(w)

Spec == Init /\ [][Next]_vars

(* The search of a vast prefix may go on for ever.                         *)
Endless == \E w \in Workers : pc[w] = "search" /\ prefix[w] \in Vast
Advance(w) == WorkerStep(w) /\ ~(prefix[w] \in Vast /\ FinishPrefix(w))

(* Every runnable thread runs on.  Nothing is assumed of failures, nor of  *)
(* spurious wakeups: a waiting worker counts on its signal.  A weak        *)
(* compare-and-exchange that is tried again and again succeeds in the end. *)
Fairness ==
    /\ WF_vars(MainThread)
    /\ \A w \in Workers :
           WF_vars(Advance(w)) /\ SF_vars(CompareExchange(w) /\ pc'[w] = "enqueue")

FairSpec == Spec /\ Fairness
-----------------------------------------------------------------------------
(* Properties. *)

WorkerSteps == {"absent", "claim", "check", "search", "prefixDone", "jobDone", "load",
                "exchange", "enqueue", "waiting", "limit", "leave", "retire", "exited"}
MainSteps == {"create", "created", "test", "poll", "drain", "pause", "finalDrain", "join",
              "lastDrain", "assess", "report", "done"}
Announcement == [number : Nat \ {0}, encoding : Encodings]

Items(q)  == {q[i] : i \in 1 .. Len(q)}
AllLeaves == UNION {Items(Leaves[p]) : p \in Prefixes}
Numbered  == {r.encoding : r \in numbering}
Depositing == {w \in Workers : pc[w] = "enqueue" /\ ToPrint(w)}
Smaller(a, b) == IF a < b THEN a ELSE b

(* Every variable keeps its type, and the ring its size. *)
TypeOK ==
    /\ session \in Sessions
    /\ nextJob \in Nat /\ jobsDone \in 0 .. JobCount /\ solutionTotal \in Nat
    /\ activeWorkers \in 0 .. WorkerCount
    /\ stop \in BOOLEAN /\ internalError \in BOOLEAN
    /\ queue \in Seq(Announcement) /\ Len(queue) <= Capacity
    /\ pc \in [Workers -> WorkerSteps]
    /\ job \in [Workers -> Nat] /\ prefix \in [Workers -> Prefixes]
    /\ leaf \in [Workers -> Nat] /\ number \in [Workers -> Nat]
    /\ failed \in [Workers -> BOOLEAN]
    /\ mainPc \in MainSteps /\ created \in 0 .. WorkerCount
    /\ interrupted \in BOOLEAN
    /\ exitStatus \in {"success", "failure", "sigint"}
    /\ status \in {"running", "complete", "interrupted", "solutionLimit", "failed"}
    /\ printed \in Seq(Announcement)
    /\ numbering \subseteq Announcement /\ searched \in [Prefixes -> Nat]

(* No worker waits for room that nobody will announce: while one waits,    *)
(* the solutions in the ring and those about to be put there fill it, so   *)
(* another removal, with its signal, is still to come (one signal per      *)
(* removal in drain_solutions, and the loop around pthread_cond_wait); and *)
(* the main thread, the only one that makes room, is still in its loop.    *)
NoStrandedWaiter ==
    Waiters # {} =>
        /\ Len(queue) + Cardinality(Depositing) >= Capacity
        /\ mainPc \notin {"finalDrain", "join", "lastDrain", "assess", "report", "done"}

(* What every step keeps of the ring and of those who wait for it: the      *)
(* types, the ring's size, and that every wait will end.                   *)
RingInvariant == TypeOK /\ NoStrandedWaiter

(* Exactly the configurations numbered up to --print-limit are printed,    *)
(* once each, through a ring smaller than their number and also after an   *)
(* interrupt or a failure.                                                 *)
PrintedExactlyOnce ==
    /\ \A i, j \in 1 .. Len(printed) : printed[i].number = printed[j].number => i = j
    /\ Items(printed) \subseteq numbering
    /\ mainPc = "done" =>
           {r.number : r \in Items(printed)} = 1 .. Smaller(solutionTotal, PrintLimit)

(* "Search complete" means that every prefix was searched to its end and   *)
(* every configuration numbered; "failed" that something did fail: jobs    *)
(* left over by an interrupt or at the limit are not taken for an error.   *)
StatusIsHonest ==
    /\ status = "complete" =>
           /\ Numbered = AllLeaves /\ \A p \in Prefixes : searched[p] = 1
           /\ created = WorkerCount /\ ~internalError
    /\ status = "failed" => internalError \/ created < WorkerCount
    /\ status = "solutionLimit" => solutionTotal = Limit

(* A session ends by itself, unless some worker is left in a search that   *)
(* never ends: no worker waits for ever at a full ring.                    *)
Termination == <>[]Endless \/ <>(mainPc = "done")

(* The interrupt, the limit and every failure end even a session whose     *)
(* search would not end by itself.                                         *)
StopEndsSession == (interrupted \/ stop) ~> (mainPc = "done")

SessionEnds == Termination /\ StopEndsSession

(* This driver implements the same session as that of residual_search.c,   *)
(* but it names a failure before the limit.                                *)
Session == INSTANCE SearchSession WITH
    fair <- AllLeaves,
    limit <- Limit,
    NodeLimited <- FALSE,
    MayFail <- CreateMayFail \/ (\E s \in Sessions : s.checkMayFail),
    FailureFirst <- TRUE,
    count <- solutionTotal,
    found <- Numbered,
    verdict <- status

SessionSpec == Session!Spec
=============================================================================
