----------------------------- MODULE ColumnDriver -----------------------------
(***************************************************************************)
(* The multithreaded driver of modern_dice/column_search.c.  Its workers   *)
(* number a solution within its class and put it into the same buffer      *)
(* under solution_mutex; the main thread swaps that buffer with the one it *)
(* wrote out last, appends the batch to the solutions file and prints what *)
(* --print-limit admits of each class.  A worker that fills the buffer up  *)
(* to the flush threshold, or that ends, signals the main thread through   *)
(* completion_mutex, which is explicit here: the main thread looks at      *)
(* workers_running and at the buffer, and then waits, while it holds it.   *)
(* Critical sections of solution_mutex are one step.                       *)
(*                                                                         *)
(* The search of a prefix is abstracted to the sequence of configurations  *)
(* that accept_configuration accepts.  The search polls stop on most of    *)
(* its nodes, so a poll may come before any of them.  A definition named   *)
(* X_Y is X with the plausible mistake Y in it.                            *)
(***************************************************************************)
EXTENDS Naturals, FiniteSets, Sequences

CONSTANTS
    Threads,        \* requested_threads
    DesiredJobs,    \* jobs asked for
    PrefixCount,    \* prefix_count
    Encodings,      \* the encodings a configuration can have
    Symmetric,      \* the encodings that are their own mirror image
    SubsetOnly,     \* those not permutation-fair, none with PERM_ONLY=1
    Sessions,       \* what sessions search, and with which options
    FullMirror,     \* FULL_MIRROR: every solution is symmetric anyway
    MayInterrupt,   \* the user may press Ctrl-C
    CreateMayFail,  \* pthread_create may fail
    FileMayFail     \* the solutions file may refuse a batch

JobCount    == IF DesiredJobs < PrefixCount THEN DesiredJobs ELSE PrefixCount
WorkerCount == IF Threads > JobCount THEN JobCount ELSE Threads
Workers     == 1 .. WorkerCount
Jobs        == 0 .. JobCount - 1
Prefixes    == 0 .. PrefixCount - 1

(* enum solution_kind *)
Kinds == {"ALL_SUBSET_PLACE_FAIR", "PERMUTATION_FAIR"}
Kind(e) == IF e \in SubsetOnly THEN "ALL_SUBSET_PLACE_FAIR" ELSE "PERMUTATION_FAIR"
Announcement == [kind : Kinds, number : Nat \ {0}, encoding : Encodings]

(* The fields of a session: the places of a buffer and the batch that is   *)
(* worth a signal (SOLUTION_QUEUE_CAPACITY and SOLUTION_FLUSH_THRESHOLD);  *)
(* for every prefix the encodings of the configurations below it; prefixes *)
(* whose search may never end; options.limit, 0 when there is none,        *)
(* print_limit, random_order, and whether there is a solutions_path;       *)
(* whether an internal check of the search may fail.                       *)
IsSession(s) ==
    /\ s.threshold \in Nat \ {0} /\ s.capacity \in Nat /\ s.threshold <= s.capacity
    /\ s.leaves \in [Prefixes -> Seq(Encodings)] /\ s.vast \subseteq Prefixes
    /\ s.limit \in Nat /\ s.printLimit \in Nat
    /\ {s.randomOrder, s.toFile, s.checkMayFail} \subseteq BOOLEAN
    /\ \A p, q \in Prefixes :
           \A i \in 1 .. Len(s.leaves[p]) : \A j \in 1 .. Len(s.leaves[q]) :
               s.leaves[p][i] = s.leaves[q][j] => p = q /\ i = j

ASSUME ColumnAssumption ==
    /\ Threads \in Nat \ {0} /\ DesiredJobs \in Nat \ {0} /\ PrefixCount \in Nat \ {0}
    /\ Symmetric \subseteq Encodings /\ SubsetOnly \subseteq Encodings
    /\ \A s \in Sessions : IsSession(s)
    /\ {FullMirror, MayInterrupt, CreateMayFail, FileMayFail} \subseteq BOOLEAN
    /\ FullMirror => Symmetric = Encodings

VARIABLES
    session,                                \* the session at hand
    jobOrder,                               \* job_order[]
    nextJob, jobsDone, limitClaims, total,  \* atomic; total[kind]: permutation_total, all_subset_total
    stop, internalError,                    \* atomic
    buffer,         \* the two buffers
    front,          \* which one is solution_queue
    count,          \* solution_count
    owner,          \* whether main holds completion_mutex
    running,        \* workers_running
    pc, job, prefix, leaf,      \* where each worker is
    claim,          \* accept_configuration: limit_claim
    mainPc,         \* where main is
    created,        \* created_threads
    seen,           \* watch_workers: running
    taken,          \* drain_solutions: count, while a batch is written,
    shown,          \* and i, while it is printed
    drainFor,       \* which of its three calls drain_solutions returns to
    interrupted,    \* sigint_requested
    fileFailed,     \* solution_file_failed
    mirrored,       \* mirror_symmetric_total
    exitStatus, status,
    file, printed,  \* what was written where
    numbering,      \* history: which configuration got which number
    searched        \* history: how often each prefix was searched to its end

atomics    == <<jobOrder, nextJob, jobsDone, limitClaims, total>>
flags      == <<stop, internalError>>
queueVars  == <<buffer, front, count>>
workerVars == <<job, prefix, leaf, claim>>
watchVars  == <<created, seen, taken, shown, drainFor>>
outputVars == <<fileFailed, mirrored, file, printed>>
reportVars == <<interrupted, exitStatus, status>>
history    == <<numbering, searched>>
vars == <<session, atomics, flags, queueVars, owner, running, pc, workerVars, mainPc,
          watchVars, outputVars, reportVars, history>>

Capacity   == session.capacity
Threshold  == session.threshold
Leaves     == session.leaves
Vast       == session.vast
Limit      == session.limit
PrintLimit == session.printLimit
ToFile     == session.toFile
RandomOrder  == session.randomOrder
CheckMayFail == session.checkMayFail

(* initialize_job_order *)
JobOrders ==
    IF RandomOrder
    THEN {f \in [Jobs -> Jobs] : \A j \in Jobs : \E i \in Jobs : f[i] = j}
    ELSE {[j \in Jobs |-> j]}

Init ==
    /\ session \in Sessions
    /\ jobOrder \in JobOrders
    /\ nextJob = 0 /\ jobsDone = 0 /\ limitClaims = 0 /\ total = [kind \in Kinds |-> 0]
    /\ stop = FALSE /\ internalError = FALSE
    /\ buffer = [b \in 0 .. 1 |-> <<>>] /\ front = 0 /\ count = 0
    /\ owner = FALSE /\ running = 0
    /\ pc = [w \in Workers |-> "absent"]
    /\ job = [w \in Workers |-> 0] /\ prefix = [w \in Workers |-> 0]
    /\ leaf = [w \in Workers |-> 0] /\ claim = [w \in Workers |-> 0]
    /\ mainPc = "create" /\ created = 0 /\ seen = 0 /\ taken = 0 /\ shown = 0 /\ drainFor = "watch"
    /\ interrupted = FALSE /\ fileFailed = FALSE /\ mirrored = 0
    /\ exitStatus = "success" /\ status = "running"
    /\ file = <<>> /\ printed = <<>>
    /\ numbering = {} /\ searched = [p \in Prefixes |-> 0]

Goto(w, step) == pc' = [pc EXCEPT ![w] = step]

-----------------------------------------------------------------------------
(* worker_main and run_job. *)

CheckStop(w) ==
    /\ pc[w] = "checkStop"
    /\ Goto(w, IF stop THEN "retire" ELSE "claimJob")
    /\ UNCHANGED <<session, atomics, flags, queueVars, owner, running, workerVars, mainPc, watchVars,
                   outputVars, reportVars, history>>

ClaimJob(w) ==
    /\ pc[w] = "claimJob"
    /\ nextJob' = nextJob + 1
    /\ IF nextJob >= JobCount \/ interrupted
       THEN /\ stop' = (stop \/ interrupted)
            /\ Goto(w, "retire")
            /\ UNCHANGED <<job, prefix>>
       ELSE /\ job' = [job EXCEPT ![w] = jobOrder[nextJob]]
            /\ prefix' = [prefix EXCEPT ![w] = jobOrder[nextJob]]
            /\ Goto(w, "enterPrefix")
            /\ UNCHANGED stop
    /\ UNCHANGED <<session, jobOrder, jobsDone, limitClaims, total, internalError, queueVars, owner,
                   running, leaf, claim, mainPc, watchVars, outputVars, reportVars, history>>

EnterPrefix(w) ==
    /\ pc[w] = "enterPrefix"
    /\ leaf' = [leaf EXCEPT ![w] = 0]
    /\ Goto(w, IF stop THEN "checkStop" ELSE "search")
    /\ UNCHANGED <<session, atomics, flags, queueVars, owner, running, job, prefix, claim, mainPc,
                   watchVars, outputVars, reportVars, history>>

(* run_job after a prefix: was it the last of the stride? *)
LastOfStride_OneEarly(p) == JobCount + 1 >= PrefixCount - p
LastOfStride(p) == JobCount >= PrefixCount - p

NextInStride_Successor(p) == p + 1
NextInStride(p) == p + JobCount

LeavePrefix(w) ==
    /\ pc[w] = "prefixDone"
    /\ IF stop
       THEN Goto(w, "checkStop") /\ UNCHANGED prefix
       ELSE IF LastOfStride(prefix[w])
            THEN Goto(w, "countJob") /\ UNCHANGED prefix
            ELSE /\ prefix' = [prefix EXCEPT ![w] = NextInStride(@)]
                 /\ Goto(w, "enterPrefix")
    /\ UNCHANGED <<session, atomics, flags, queueVars, owner, running, job, leaf, claim, mainPc,
                   watchVars, outputVars, reportVars, history>>

CountJob(w) ==
    /\ pc[w] = "countJob"
    /\ jobsDone' = jobsDone + 1
    /\ Goto(w, "checkStop")
    /\ UNCHANGED <<session, jobOrder, nextJob, limitClaims, total, flags, queueVars, owner, running,
                   workerVars, mainPc, watchVars, outputVars, reportVars, history>>

(* pthread_cond_signal(&completion_condition) *)
WakeMain == mainPc' = IF mainPc = "sleep" THEN "wake" ELSE mainPc

Retire(w) ==
    /\ pc[w] = "retire" /\ ~owner
    /\ running' = running - 1
    /\ WakeMain
    /\ Goto(w, "exited")
    /\ UNCHANGED <<session, atomics, flags, queueVars, owner, workerVars, watchVars, outputVars,
                   reportVars, history>>

-----------------------------------------------------------------------------
(* The search of a prefix, and accept_configuration. *)

Found(w) == Leaves[prefix[w]][leaf[w]]

VisitLeaf(w) ==
    /\ pc[w] = "search" /\ leaf[w] < Len(Leaves[prefix[w]])
    /\ leaf' = [leaf EXCEPT ![w] = @ + 1]
    /\ Goto(w, IF Limit # 0 THEN "claimLimit" ELSE "record")
    /\ UNCHANGED <<session, atomics, flags, queueVars, owner, running, job, prefix, claim, mainPc,
                   watchVars, outputVars, reportVars, history>>

PollStop(w) ==
    /\ pc[w] = "search" /\ stop
    /\ Goto(w, "prefixDone")
    /\ UNCHANGED <<session, atomics, flags, queueVars, owner, running, workerVars, mainPc, watchVars,
                   outputVars, reportVars, history>>

FinishPrefix(w) ==
    /\ pc[w] = "search" /\ leaf[w] = Len(Leaves[prefix[w]])
    /\ searched' = [searched EXCEPT ![prefix[w]] = @ + 1]
    /\ Goto(w, "prefixDone")
    /\ UNCHANGED <<session, atomics, flags, queueVars, owner, running, workerVars, mainPc, watchVars,
                   outputVars, reportVars, numbering>>

(* A configuration fails the check that should hold by construction. *)
CheckFails(w) ==
    /\ CheckMayFail /\ pc[w] = "search" /\ ~internalError
    /\ internalError' = TRUE /\ stop' = TRUE
    /\ UNCHANGED <<session, atomics, queueVars, owner, running, pc, workerVars, mainPc, watchVars,
                   outputVars, reportVars, history>>

(* Claims may exceed the limit; those that do are turned away. *)
Exceeds(n) == n >= Limit

ClaimLimit(w) ==
    /\ pc[w] = "claimLimit"
    /\ limitClaims' = limitClaims + 1
    /\ claim' = [claim EXCEPT ![w] = limitClaims]
    /\ Goto(w, IF Exceeds(limitClaims) THEN "turnAway" ELSE "record")
    /\ UNCHANGED <<session, jobOrder, nextJob, jobsDone, total, flags, queueVars, owner, running, job,
                   prefix, leaf, mainPc, watchVars, outputVars, reportVars, history>>

ReachLimit(w) ==
    /\ \/ pc[w] = "turnAway" /\ stop' = TRUE
       \/ pc[w] = "recorded" /\ stop' = (stop \/ (Limit # 0 /\ claim[w] + 1 >= Limit))
    /\ Goto(w, "search")
    /\ UNCHANGED <<session, atomics, internalError, queueVars, owner, running, workerVars, mainPc,
                   watchVars, outputVars, reportVars, history>>

-----------------------------------------------------------------------------
(* record_solution. *)

(* Only permutation-fair solutions are looked at for mirror symmetry; one  *)
(* that need not be written anywhere nor looked at is only counted.        *)
Suppressed(e) ==
    /\ ~ToFile /\ total[Kind(e)] >= PrintLimit
    /\ FullMirror \/ Kind(e) = "ALL_SUBSET_PLACE_FAIR"

Numbering(e) == [kind |-> Kind(e), number |-> total[Kind(e)] + 1, encoding |-> e]
TakeNumber(e) ==
    /\ total' = [total EXCEPT ![Kind(e)] = @ + 1]
    /\ numbering' = numbering \union {Numbering(e)}

LoadTotal(w) ==
    /\ pc[w] = "record"
    /\ Goto(w, IF Suppressed(Found(w)) THEN "countOnly" ELSE "enqueue")
    /\ UNCHANGED <<session, atomics, flags, queueVars, owner, running, workerVars, mainPc, watchVars,
                   outputVars, reportVars, history>>

CountOnly_Forgotten(w) ==
    /\ pc[w] = "countOnly"
    /\ Goto(w, "recorded")
    /\ UNCHANGED <<session, atomics, flags, queueVars, owner, running, workerVars, mainPc, watchVars,
                   outputVars, reportVars, history>>
CountOnly(w) ==
    /\ pc[w] = "countOnly"
    /\ TakeNumber(Found(w))
    /\ Goto(w, "recorded")
    /\ UNCHANGED <<session, jobOrder, nextJob, jobsDone, limitClaims, flags, queueVars, owner, running,
                   workerVars, mainPc, watchVars, outputVars, reportVars, searched>>

(* Number and place are given under one lock: the buffer is in order. *)
Put_Appended(entries, i, item) == Append(entries, item)
Put(entries, i, item) ==
    IF i <= Len(entries) THEN [entries EXCEPT ![i] = item] ELSE Append(entries, item)

FlushReady_Beyond(n) == n > Threshold
FlushReady(n) == n = Threshold

Enqueue(w) ==
    /\ pc[w] = "enqueue" /\ count < Capacity
    /\ TakeNumber(Found(w))
    /\ IF Suppressed(Found(w))
       THEN Goto(w, "recorded") /\ UNCHANGED <<buffer, count>>
       ELSE /\ buffer' = [buffer EXCEPT ![front] = Put(@, count + 1, Numbering(Found(w)))]
            /\ count' = count + 1
            /\ Goto(w, IF FlushReady(count + 1) THEN "flush" ELSE "recorded")
    /\ UNCHANGED <<session, jobOrder, nextJob, jobsDone, limitClaims, flags, front, owner, running,
                   workerVars, mainPc, watchVars, outputVars, reportVars, searched>>

AwaitRoom(w) ==
    /\ pc[w] = "enqueue" /\ count = Capacity
    /\ Goto(w, "waiting")
    /\ UNCHANGED <<session, atomics, flags, queueVars, owner, running, workerVars, mainPc, watchVars,
                   outputVars, reportVars, history>>

SignalFlush(w) ==
    /\ pc[w] = "flush" /\ ~owner
    /\ WakeMain
    /\ Goto(w, "recorded")
    /\ UNCHANGED <<session, atomics, flags, queueVars, owner, running, workerVars, watchVars,
                   outputVars, reportVars, history>>

WorkerStep(w) ==
    \/ CheckStop(w) \/ ClaimJob(w) \/ EnterPrefix(w) \/ LeavePrefix(w) \/ CountJob(w)
    \/ Retire(w) \/ VisitLeaf(w) \/ PollStop(w) \/ FinishPrefix(w)
    \/ ClaimLimit(w) \/ ReachLimit(w) \/ LoadTotal(w) \/ CountOnly(w) \/ Enqueue(w)
    \/ AwaitRoom(w) \/ SignalFlush(w)

-----------------------------------------------------------------------------
(* main: create the workers. *)

Activate == running' = running + 1

CreateWorker ==
    /\ mainPc = "create" /\ ~owner
    /\ Activate
    /\ mainPc' = "created"
    /\ UNCHANGED <<session, atomics, flags, queueVars, owner, pc, workerVars, watchVars, outputVars,
                   reportVars, history>>

WorkerCreated ==
    /\ mainPc = "created"
    /\ created' = created + 1
    /\ Goto(created + 1, "checkStop")
    /\ mainPc' = IF created + 1 < WorkerCount THEN "create" ELSE "lock"
    /\ UNCHANGED <<session, atomics, flags, queueVars, owner, running, workerVars, seen, taken,
                   shown, drainFor, outputVars, reportVars, history>>

CreateFails ==
    /\ CreateMayFail /\ mainPc = "created" /\ ~owner
    /\ running' = running - 1
    /\ stop' = TRUE
    /\ exitStatus' = "failure"
    /\ mainPc' = IF created # 0 THEN "lock" ELSE "join"
    /\ UNCHANGED <<session, atomics, internalError, queueVars, owner, pc, workerVars, watchVars,
                   outputVars, interrupted, status, history>>

-----------------------------------------------------------------------------
(* watch_workers. *)

LockCompletion ==
    /\ mainPc = "lock" /\ ~owner
    /\ owner' = TRUE
    /\ seen' = running
    /\ mainPc' = "test"
    /\ UNCHANGED <<session, atomics, flags, queueVars, running, pc, workerVars, created, taken,
                   shown, drainFor, outputVars, reportVars, history>>

(* solution_batch_ready *)
SolutionBatchReady == count >= Threshold

TestBatch ==
    /\ mainPc = "test"
    /\ IF seen # 0 /\ ~interrupted /\ ~SolutionBatchReady
       THEN mainPc' = "wait" /\ UNCHANGED owner
       ELSE mainPc' = "poll" /\ owner' = FALSE
    /\ UNCHANGED <<session, atomics, flags, queueVars, running, pc, workerVars, watchVars, outputVars,
                   reportVars, history>>

StartWait ==
    /\ mainPc = "wait"
    /\ owner' = FALSE
    /\ mainPc' = "sleep"
    /\ UNCHANGED <<session, atomics, flags, queueVars, running, pc, workerVars, watchVars, outputVars,
                   reportVars, history>>

(* The second is over, or pthread_cond_timedwait returns for no reason. *)
WaitExpires ==
    /\ mainPc = "sleep"
    /\ mainPc' = "wake"
    /\ UNCHANGED <<session, atomics, flags, queueVars, owner, running, pc, workerVars, watchVars,
                   outputVars, reportVars, history>>

WakeUp ==
    /\ mainPc = "wake" /\ ~owner
    /\ seen' = running
    /\ mainPc' = "poll"
    /\ UNCHANGED <<session, atomics, flags, queueVars, owner, running, pc, workerVars, created, taken,
                   shown, drainFor, outputVars, reportVars, history>>

NoticeInterrupt == stop' = (stop \/ interrupted)

PollInterrupt ==
    /\ mainPc = "poll"
    /\ NoticeInterrupt
    /\ mainPc' = "swap"
    /\ UNCHANGED <<session, atomics, internalError, queueVars, owner, running, pc, workerVars,
                   watchVars, outputVars, reportVars, history>>

-----------------------------------------------------------------------------
(* drain_solutions, called by watch_workers, behind the join and at the    *)
(* end of main.                                                            *)

AfterDrain ==
    CASE drainFor = "watch"   -> IF seen = 0 THEN "join" ELSE "lock"
      [] drainFor = "report"  -> "assess"
      [] drainFor = "cleanup" -> "done"

OtherBuffer == 1 - front

(* pthread_cond_broadcast(&solution_not_full) *)
Waiters == {w \in Workers : pc[w] = "waiting"}
WakeWaiters_Forgotten == UNCHANGED pc
WakeWaiters == pc' = [w \in Workers |-> IF pc[w] = "waiting" THEN "enqueue" ELSE pc[w]]

SwapBuffers ==
    /\ mainPc = "swap"
    /\ IF count = 0
       THEN mainPc' = AfterDrain /\ UNCHANGED <<front, count, taken, pc>>
       ELSE /\ taken' = count
            /\ front' = OtherBuffer
            /\ count' = 0
            /\ WakeWaiters
            /\ mainPc' = "append"
    /\ UNCHANGED <<session, atomics, flags, buffer, owner, running, workerVars, created, seen,
                   shown, drainFor, outputVars, reportVars, history>>

Batch == SubSeq(buffer[1 - front], 1, taken)
SymmetricIn(batch) ==
    Cardinality({i \in 1 .. Len(batch) :
        batch[i].kind = "PERMUTATION_FAIR" /\ batch[i].encoding \in Symmetric})

(* After a batch that could not be written whole the file is left alone. *)
ToAppend_AfterFailure == ToFile
ToAppend == ToFile /\ ~fileFailed

(* append_solution_batch may leave any part of the batch in the file. *)
AppendBatch ==
    /\ mainPc = "append"
    /\ mirrored' = mirrored + (IF FullMirror THEN 0 ELSE SymmetricIn(Batch))
    /\ \/ /\ file' = IF ToAppend THEN file \o Batch ELSE file
          /\ UNCHANGED <<fileFailed, internalError, stop>>
       \/ /\ FileMayFail /\ ToAppend
          /\ \E n \in 0 .. taken : file' = file \o SubSeq(Batch, 1, n)
          /\ fileFailed' = TRUE /\ internalError' = TRUE /\ stop' = TRUE
    /\ mainPc' = "print"
    /\ UNCHANGED <<session, atomics, queueVars, owner, running, pc, workerVars, watchVars, printed,
                   reportVars, history>>

ToPrint(item) == item.number <= PrintLimit

PrintNext ==
    /\ mainPc = "print"
    /\ LET item == Batch[shown + 1] IN
           printed' = IF ToPrint(item) THEN Append(printed, item) ELSE printed
    /\ IF shown + 1 < taken
       THEN shown' = shown + 1 /\ UNCHANGED <<taken, mainPc>>
       ELSE shown' = 0 /\ taken' = 0 /\ mainPc' = AfterDrain
    /\ UNCHANGED <<session, atomics, flags, queueVars, owner, running, pc, workerVars, created, seen,
                   drainFor, fileFailed, mirrored, file, reportVars, history>>

-----------------------------------------------------------------------------
(* main: join, judge and clean up. *)

JoinWorkers ==
    /\ mainPc = "join"
    /\ \A w \in 1 .. created : pc[w] = "exited"
    /\ drainFor' = "report"
    /\ mainPc' = "swap"
    /\ UNCHANGED <<session, atomics, flags, queueVars, owner, running, pc, workerVars, created, seen,
                   taken, shown, outputVars, reportVars, history>>

HitLimit == Limit # 0 /\ limitClaims >= Limit

(* search_error and incomplete_search *)
Assess ==
    /\ mainPc = "assess"
    /\ exitStatus' =
           IF internalError \/ (jobsDone # JobCount /\ ~HitLimit /\ ~interrupted)
           THEN "failure" ELSE exitStatus
    /\ mainPc' = "report"
    /\ UNCHANGED <<session, atomics, flags, queueVars, owner, running, pc, workerVars, watchVars,
                   outputVars, interrupted, status, history>>

Report ==
    /\ mainPc = "report"
    /\ status' = CASE interrupted -> "interrupted"
                   [] ~interrupted /\ exitStatus = "failure" -> "failed"
                   [] ~interrupted /\ exitStatus # "failure" ->
                          IF HitLimit THEN "solutionLimit" ELSE "complete"
    /\ mainPc' = "exit"
    /\ UNCHANGED <<session, atomics, flags, queueVars, owner, running, pc, workerVars, watchVars,
                   outputVars, interrupted, exitStatus, history>>

Exit ==
    /\ mainPc = "exit"
    /\ exitStatus' = CASE internalError -> "failure"
                       [] ~internalError ->
                              IF interrupted /\ exitStatus = "success" THEN "sigint"
                              ELSE exitStatus
    /\ drainFor' = "cleanup"
    /\ mainPc' = "swap"
    /\ UNCHANGED <<session, atomics, flags, queueVars, owner, running, pc, workerVars, created, seen,
                   taken, shown, outputVars, interrupted, status, history>>

MainThread ==
    \/ CreateWorker \/ WorkerCreated \/ CreateFails
    \/ LockCompletion \/ TestBatch \/ StartWait \/ WaitExpires \/ WakeUp \/ PollInterrupt
    \/ SwapBuffers \/ AppendBatch \/ PrintNext
    \/ JoinWorkers \/ Assess \/ Report \/ Exit

(* request_sigint_stop *)
Interrupt ==
    /\ MayInterrupt /\ ~interrupted /\ mainPc # "done"
    /\ interrupted' = TRUE
    /\ UNCHANGED <<session, atomics, flags, queueVars, owner, running, pc, workerVars, mainPc,
                   watchVars, outputVars, exitStatus, status, history>>

Next ==
    \/ MainThread \/ Interrupt
    \/ \E w \in Workers : WorkerStep(w) \/ CheckFails(w)

Spec == Init /\ [][Next]_vars

(* The search of a vast prefix may go on for ever.                         *)
Endless == \E w \in Workers : pc[w] = "search" /\ prefix[w] \in Vast
Advance(w) == WorkerStep(w) /\ ~(prefix[w] \in Vast /\ FinishPrefix(w))

(* Every runnable thread runs on and gets completion_mutex when it wants   *)
(* it again and again.  Nothing is assumed of failures.                    *)
Fairness ==
    /\ WF_vars(MainThread)
    /\ \A w \in Workers :
           WF_vars(Advance(w)) /\ SF_vars(Retire(w)) /\ SF_vars(SignalFlush(w))

FairSpec == Spec /\ Fairness
-----------------------------------------------------------------------------
(* Properties. *)

WorkerSteps == {"absent", "checkStop", "claimJob", "enterPrefix", "search", "prefixDone",
                "countJob", "claimLimit", "turnAway", "record", "countOnly", "enqueue",
                "waiting", "flush", "recorded", "retire", "exited"}
MainSteps == {"create", "created", "lock", "test", "wait", "sleep", "wake", "poll", "swap",
              "append", "print", "join", "assess", "report", "exit", "done"}

Items(q)  == {q[i] : i \in 1 .. Len(q)}
AllLeaves == UNION {Items(Leaves[p]) : p \in Prefixes}
Numbered  == {r.encoding : r \in numbering}

(* In each class one item after the other, from 1 on, none twice.          *)
Follows(a, b) == a.kind = b.kind /\ a.number = b.number + 1
Distinct(q) ==
    \A i, j \in 1 .. Len(q) : q[i].kind = q[j].kind /\ q[i].number = q[j].number => i = j
InOrder(q) ==
    /\ Distinct(q)
    /\ \A i \in 1 .. Len(q) :
           /\ q[i] \in numbering
           /\ q[i].number = 1 \/ \E j \in 1 .. i - 1 : Follows(q[i], q[j])
Recording == {w \in Workers : pc[w] \in {"record", "countOnly", "enqueue", "waiting"}}

(* Every variable keeps its type. *)
TypeOK ==
    /\ session \in Sessions
    /\ jobOrder \in [Jobs -> Jobs] /\ nextJob \in Nat /\ jobsDone \in 0 .. JobCount
    /\ limitClaims \in Nat /\ total \in [Kinds -> Nat]
    /\ stop \in BOOLEAN /\ internalError \in BOOLEAN
    /\ buffer \in [0 .. 1 -> Seq(Announcement)] /\ front \in 0 .. 1
    /\ count \in 0 .. Capacity /\ taken \in 0 .. Capacity /\ shown \in Nat
    /\ owner \in BOOLEAN /\ running \in 0 .. WorkerCount
    /\ pc \in [Workers -> WorkerSteps]
    /\ job \in [Workers -> Jobs] /\ prefix \in [Workers -> Prefixes]
    /\ leaf \in [Workers -> Nat] /\ claim \in [Workers -> Nat]
    /\ mainPc \in MainSteps /\ created \in 0 .. WorkerCount /\ seen \in 0 .. WorkerCount
    /\ drainFor \in {"watch", "report", "cleanup"}
    /\ interrupted \in BOOLEAN /\ fileFailed \in BOOLEAN /\ mirrored \in Nat
    /\ exitStatus \in {"success", "failure", "sigint"}
    /\ status \in {"running", "complete", "interrupted", "solutionLimit", "failed"}
    /\ file \in Seq(Announcement) /\ printed \in Seq(Announcement)
    /\ numbering \subseteq Announcement /\ searched \in [Prefixes -> Nat]

(* The main thread never sleeps its second out while a batch is ready or   *)
(* all workers are gone: whoever made it so has woken it, or still is to   *)
(* (the comment in record_solution: "the notification cannot be lost       *)
(* between its queue check and pthread_cond_timedwait()").                 *)
NoLostFlush ==
    mainPc = "sleep" =>
        /\ running # 0
        /\ count >= Threshold => \E w \in Workers : pc[w] = "flush"

(* A worker that waits for room in the buffer waits at a full buffer, and  *)
(* the main thread, which alone can empty it, is still there to do so.     *)
NoStrandedWaiter ==
    Waiters # {} =>
        /\ count = Capacity
        /\ drainFor = "watch" /\ mainPc # "join"
        /\ mainPc \in {"swap", "append", "print"} => seen # 0

(* What every step keeps of the buffer and of those who wait for it: the    *)
(* types, the buffer's size, and that every wait will end.                 *)
BufferInvariant == TypeOK /\ NoStrandedWaiter

(* However two buffers take turns and whichever worker comes first, the    *)
(* terminal shows the solutions of each class as 1, 2, ... in order, and   *)
(* when the program ends it has shown all that --print-limit admits and    *)
(* counted every symmetric permutation-fair one, shown or not.             *)
PrintedInOrder ==
    /\ InOrder(printed) /\ \A r \in Items(printed) : ToPrint(r)
    /\ mainPc = "done" =>
           /\ \A r \in numbering : ToPrint(r) => r \in Items(printed)
           /\ ~FullMirror => mirrored = Cardinality({r \in numbering :
                  r.kind = "PERMUTATION_FAIR" /\ r.encoding \in Symmetric})

(* The solutions file receives every solution once, each class in order,   *)
(* also those not printed and those found while the session was stopping;  *)
(* when it fails, a beginning of them, and the program says so by its      *)
(* exit status.                                                            *)
FileIsComplete ==
    /\ InOrder(file)
    /\ mainPc = "done" /\ ToFile =>
           IF fileFailed THEN exitStatus = "failure" ELSE Items(file) = numbering

(* Claims overshoot --limit, solutions do not; every solution has a number *)
(* of its own in its class, and those claimed and not yet recorded make up *)
(* the limit.                                                              *)
LimitRespected ==
    /\ Cardinality(Numbered) = Cardinality(numbering)
    /\ \A kind \in Kinds :
           /\ {r.number : r \in {s \in numbering : s.kind = kind}} = 1 .. total[kind]
           /\ Cardinality({s \in numbering : s.kind = kind}) = total[kind]
    /\ Limit # 0 =>
           /\ Cardinality(numbering) + Cardinality(Recording) =
                  IF limitClaims < Limit THEN limitClaims ELSE Limit
           /\ status = "solutionLimit" => Cardinality(numbering) = Limit

(* "complete" means that every prefix was searched to its end and every    *)
(* configuration recorded; "failed" that something did fail.               *)
StatusIsHonest ==
    /\ status = "complete" =>
           /\ Numbered = AllLeaves /\ \A p \in Prefixes : searched[p] = 1
           /\ created = WorkerCount /\ ~internalError
    /\ status = "failed" => internalError \/ created < WorkerCount

(* A session ends by itself, unless some worker is left in a search that   *)
(* never ends: no worker waits for ever for room in the buffer.            *)
Termination == <>[]Endless \/ <>(mainPc = "done")

(* The interrupt, the limit and every failure, that of the solutions file  *)
(* included, end even a session whose search would not end by itself.      *)
StopEndsSession == (interrupted \/ stop) ~> (mainPc = "done")

SessionEnds == Termination /\ StopEndsSession

(* This driver, too, implements the session of SearchSession.              *)
Session == INSTANCE SearchSession WITH
    fair <- AllLeaves,
    limit <- Limit,
    NodeLimited <- FALSE,
    MayFail <- \/ CreateMayFail \/ FileMayFail
               \/ \E s \in Sessions : s.checkMayFail,
    FailureFirst <- TRUE,
    count <- total["PERMUTATION_FAIR"] + total["ALL_SUBSET_PLACE_FAIR"],
    found <- Numbered,
    verdict <- status

SessionSpec == Session!Spec
=============================================================================
