--------------------------- MODULE ResidualDriver ---------------------------
(***************************************************************************)
(* The multithreaded driver of modern_dice/residual_search.c: main creates *)
(* the workers, watches them, joins them and reports a verdict; a worker   *)
(* draws jobs from an atomic ticket, replays and searches each prefix of   *)
(* the job, and numbers, queues and announces every fair configuration.    *)
(*                                                                         *)
(* A worker's search of a prefix is abstracted to the sequence of fair     *)
(* leaves below it (what the search itself finds is the subject of         *)
(* ResidualSearch).  The stop flag is polled only on some nodes            *)
(* (STOP_POLL_INTERVAL), so a poll may or may not happen before any leaf.  *)
(* Critical sections of solution_mutex touch nothing that is read outside  *)
(* it and are single steps; event_mutex is explicit, because the watcher   *)
(* tests active_workers and then waits while it holds it.                  *)
(*                                                                         *)
(* A definition named X_Y is X with the plausible mistake Y in it.  It is  *)
(* not part of the specification: put in the place of X it breaks one of   *)
(* the properties at the end, which shows that the property says something *)
(* about X.                                                                *)
(***************************************************************************)
EXTENDS JobRanges, FiniteSets, Sequences

CONSTANTS
    Threads,        \* options.threads
    DesiredJobs,    \* options.jobs, or 8 per thread
    PrefixCount,    \* prefixes.count
    Encodings,      \* the encodings a leaf can have
    Leaves,         \* prefix -> the encodings of the fair leaves below it
    Vast,           \* prefixes whose search may never end
    Limit,          \* options.limit, 0 when there is none
    PrintLimit,     \* options.print_limit, 0 when quiet
    RandomOrder,    \* options.random_order
    Extension,      \* options.extend_solutions_path # NULL
    NodeLimited,    \* options.node_limit # 0
    MayInterrupt,   \* the user may press Ctrl-C
    CreateMayFail,  \* pthread_create may fail
    AllocMayFail    \* malloc may fail once the workers run

JobCount    == JobCountOf(PrefixCount, DesiredJobs)
WorkerCount == WorkerCountOf(Threads, JobCount)
Workers     == 1 .. WorkerCount
Jobs        == 0 .. JobCount - 1
Prefixes    == 0 .. PrefixCount - 1
NoOne       == 0
Main        == WorkerCount + 1

(* A search is split over distinct subtrees, so without --extend-solutions *)
(* no encoding is the leaf of two prefixes; --node-limit forces one thread *)
(* and one job.                                                            *)
ASSUME DriverAssumption ==
    /\ Threads \in Nat \ {0} /\ DesiredJobs \in Nat \ {0} /\ PrefixCount \in Nat
    /\ Leaves \in [Prefixes -> Seq(Encodings)]
    /\ Vast \subseteq Prefixes
    /\ Limit \in Nat /\ PrintLimit \in Nat
    /\ {RandomOrder, Extension, NodeLimited} \subseteq BOOLEAN
    /\ {MayInterrupt, CreateMayFail, AllocMayFail} \subseteq BOOLEAN
    /\ NodeLimited => Threads = 1 /\ DesiredJobs = 1
ASSUME DistinctLeaves ==
    ~Extension =>
        \A p, q \in Prefixes : \A i \in 1 .. Len(Leaves[p]) : \A j \in 1 .. Len(Leaves[q]) :
            Leaves[p][i] = Leaves[q][j] => p = q /\ i = j

VARIABLES
    jobOrder,       \* job_order[]: slot -> job
    nextJob,        \* next_job
    jobsDone,       \* jobs_done
    configurations, \* configurations
    duplicates,     \* duplicate_configurations
    remembered,     \* extension_solutions
    active,         \* active_workers
    stop,           \* stop
    internalError,  \* internal_error
    nodeLimitHit,   \* node_limit_reached
    queue,          \* solution_head .. solution_tail
    eventOwner,     \* who holds event_mutex
    pc,             \* where each worker is
    slot,           \* worker_main: slot
    prefix,         \* run_job: prefix
    leaf,           \* leaves the search of this prefix has visited
    current,        \* reserve_solution_number: current, then the number
    failed,         \* search->internal_error
    mainPc,         \* where main is
    created,        \* created_workers
    interrupted,    \* interrupt_requested
    exitStatus,     \* exit_status
    verdict,        \* status, the word main reports
    printed,        \* what drain_solutions has printed
    numbering,      \* history: which encoding got which number
    explored,       \* history: prefixes whose search ran to its end
    completed       \* history: slots counted in jobs_done

sharedVars == <<jobOrder, nextJob, jobsDone, configurations, duplicates, remembered,
                active, stop, internalError, nodeLimitHit, queue, eventOwner>>
workerVars == <<pc, slot, prefix, leaf, current, failed>>
mainVars   == <<mainPc, created, interrupted, exitStatus, verdict, printed>>
history    == <<numbering, explored, completed>>
vars       == <<sharedVars, workerVars, mainVars, history>>

WorkerSteps == {"absent", "checkStop", "claim", "nextPrefix", "search", "remember",
                "load", "cas", "enqueue", "notify", "limit", "prefixDone", "count",
                "retire", "exited"}
InJob == {"nextPrefix", "search", "remember", "load", "cas", "enqueue", "notify",
          "limit", "prefixDone", "count"}
MainSteps == {"activate", "create", "lock", "test", "poll", "drain", "relock", "recheck",
              "wait", "sleep", "join", "errors", "unfinished", "report", "exit", "done"}
Verdicts == {"running", "complete", "interrupted", "nodeLimit", "solutionLimit", "failed"}

(* shuffle_jobs leaves some permutation of the jobs; without it, identity. *)
JobOrders ==
    IF RandomOrder
    THEN {f \in [Jobs -> Jobs] : \A j \in Jobs : \E i \in Jobs : f[i] = j}
    ELSE {[j \in Jobs |-> j]}

JobOf(w) == jobOrder[slot[w]]

Init ==
    /\ jobOrder \in JobOrders
    /\ nextJob = 0 /\ jobsDone = 0 /\ configurations = 0 /\ duplicates = 0
    /\ remembered = {} /\ active = 0 /\ queue = <<>> /\ eventOwner = NoOne
    /\ stop = FALSE /\ internalError = FALSE /\ nodeLimitHit = FALSE
    /\ pc = [w \in Workers |-> "absent"]
    /\ slot = [w \in Workers |-> 0] /\ prefix = [w \in Workers |-> 0]
    /\ leaf = [w \in Workers |-> 0] /\ current = [w \in Workers |-> 0]
    /\ failed = [w \in Workers |-> FALSE]
    /\ mainPc = (IF WorkerCount = 0 THEN "join" ELSE "activate")
    /\ created = 0 /\ interrupted = FALSE
    /\ exitStatus = "success" /\ verdict = "running" /\ printed = <<>>
    /\ numbering = {} /\ explored = {} /\ completed = {}

-----------------------------------------------------------------------------
(* worker_main: the loop test, then the ticket. *)

Goto(w, step) == pc' = [pc EXCEPT ![w] = step]

CheckStop(w) ==
    /\ pc[w] = "checkStop"
    /\ Goto(w, IF stop THEN "retire" ELSE "claim")
    /\ UNCHANGED <<sharedVars, slot, prefix, leaf, current, failed, mainVars, history>>

(* atomic_fetch_add: the value before the increment is the worker's slot. *)
Ticket_JobsDone == jobsDone
Ticket == nextJob

ClaimJob(w) ==
    /\ pc[w] = "claim"
    /\ nextJob' = nextJob + 1
    /\ IF Ticket >= JobCount
       THEN Goto(w, "retire") /\ UNCHANGED <<slot, prefix>>
       ELSE /\ Goto(w, "nextPrefix")
            /\ slot' = [slot EXCEPT ![w] = Ticket]
            /\ prefix' = [prefix EXCEPT
                              ![w] = RangeBegin(PrefixCount, JobCount, jobOrder[Ticket])]
    /\ UNCHANGED <<jobOrder, jobsDone, configurations, duplicates, remembered, active, stop,
                   internalError, nodeLimitHit, queue, eventOwner, leaf, current, failed,
                   mainVars, history>>

(* run_job: the next prefix of the range, or the job is finished. *)
NextPrefix(w) ==
    /\ pc[w] = "nextPrefix"
    /\ leaf' = [leaf EXCEPT ![w] = 0]
    /\ Goto(w, IF prefix[w] < RangeEnd(PrefixCount, JobCount, JobOf(w))
               THEN "search" ELSE "count")
    /\ UNCHANGED <<sharedVars, slot, prefix, current, failed, mainVars, history>>

CountJob(w) ==
    /\ pc[w] = "count"
    /\ jobsDone' = jobsDone + 1
    /\ completed' = completed \union {slot[w]}
    /\ Goto(w, "checkStop")
    /\ UNCHANGED <<jobOrder, nextJob, configurations, duplicates, remembered, active, stop,
                   internalError, nodeLimitHit, queue, eventOwner, slot, prefix, leaf,
                   current, failed, mainVars, numbering, explored>>

-----------------------------------------------------------------------------
(* run_prefix and search_configurations. *)

(* A leaf is reached and verified; an extension is looked up first. *)
VisitLeaf(w) ==
    /\ pc[w] = "search" /\ leaf[w] < Len(Leaves[prefix[w]])
    /\ leaf' = [leaf EXCEPT ![w] = @ + 1]
    /\ Goto(w, IF Extension THEN "remember" ELSE "load")
    /\ UNCHANGED <<sharedVars, slot, prefix, current, failed, mainVars, history>>

(* A node on which the stop flag is polled: the recursion unwinds. *)
PollStop(w) ==
    /\ pc[w] = "search" /\ stop
    /\ Goto(w, "prefixDone")
    /\ UNCHANGED <<sharedVars, slot, prefix, leaf, current, failed, mainVars, history>>

StopAtNodeLimit_FlagForgotten == stop' = TRUE /\ UNCHANGED nodeLimitHit
StopAtNodeLimit == stop' = TRUE /\ nodeLimitHit' = TRUE

HitNodeLimit(w) ==
    /\ NodeLimited /\ pc[w] = "search"
    /\ StopAtNodeLimit
    /\ Goto(w, "prefixDone")
    /\ UNCHANGED <<jobOrder, nextJob, jobsDone, configurations, duplicates, remembered,
                   active, internalError, queue, eventOwner, slot, prefix, leaf, current,
                   failed, mainVars, history>>

FinishPrefix(w) ==
    /\ pc[w] = "search" /\ leaf[w] = Len(Leaves[prefix[w]])
    /\ explored' = explored \union {prefix[w]}
    /\ Goto(w, "prefixDone")
    /\ UNCHANGED <<sharedVars, slot, prefix, leaf, current, failed, mainVars,
                   numbering, completed>>

(* search_should_stop, which run_prefix negates: a stopped job is not counted. *)
ShouldStop(w) == failed[w] \/ stop

LeavePrefix(w) ==
    /\ pc[w] = "prefixDone"
    /\ IF ShouldStop(w)
       THEN Goto(w, "retire") /\ UNCHANGED prefix
       ELSE Goto(w, "nextPrefix") /\ prefix' = [prefix EXCEPT ![w] = @ + 1]
    /\ UNCHANGED <<sharedVars, slot, leaf, current, failed, mainVars, history>>

-----------------------------------------------------------------------------
(* record_configuration. *)

Found(w) == Leaves[prefix[w]][leaf[w]]

(* A larger table for the extensions, the copy of one, or a queue node      *)
(* could not be allocated.  A table that is full grows before the lookup,   *)
(* so that an extension that is known may fail, too; when it is full is     *)
(* left open.                                                              *)
AllocFails(w) ==
    /\ AllocMayFail
    /\ \/ pc[w] = "remember"
       \/ pc[w] = "enqueue" /\ current[w] <= PrintLimit
    /\ failed' = [failed EXCEPT ![w] = TRUE]
    /\ internalError' = TRUE /\ stop' = TRUE
    /\ Goto(w, "prefixDone")
    /\ UNCHANGED <<jobOrder, nextJob, jobsDone, configurations, duplicates, remembered,
                   active, nodeLimitHit, queue, eventOwner, slot, prefix, leaf, current,
                   mainVars, history>>

Known_Never(w) == FALSE
Known(w) == Found(w) \in remembered

RememberExtension(w) ==
    /\ pc[w] = "remember"
    /\ IF Known(w)
       THEN /\ duplicates' = duplicates + 1
            /\ Goto(w, "search")
            /\ UNCHANGED remembered
       ELSE /\ remembered' = remembered \union {Found(w)}
            /\ Goto(w, "load")
            /\ UNCHANGED duplicates
    /\ UNCHANGED <<jobOrder, nextJob, jobsDone, configurations, active, stop, internalError,
                   nodeLimitHit, queue, eventOwner, slot, prefix, leaf, current, failed,
                   mainVars, history>>

(* reserve_solution_number: the load ... *)
LoadCount(w) ==
    /\ pc[w] = "load"
    /\ current' = [current EXCEPT ![w] = configurations]
    /\ Goto(w, "cas")
    /\ UNCHANGED <<sharedVars, slot, prefix, leaf, failed, mainVars, history>>

(* ... the limit test on the loaded value ... *)
AtLimit_OffByOne(n) == Limit # 0 /\ n > Limit
AtLimit(n) == Limit # 0 /\ n >= Limit

ReserveRefused(w) ==
    /\ pc[w] = "cas" /\ AtLimit(current[w])
    /\ stop' = TRUE
    /\ Goto(w, "search")
    /\ UNCHANGED <<jobOrder, nextJob, jobsDone, configurations, duplicates, remembered,
                   active, internalError, nodeLimitHit, queue, eventOwner, slot, prefix,
                   leaf, current, failed, mainVars, history>>

(* ... and the compare-and-exchange, which reloads when it loses. *)
Unchanged(w) == configurations = current[w]

CompareExchange(w) ==
    /\ pc[w] = "cas" /\ ~AtLimit(current[w])
    /\ IF Unchanged(w)
       THEN /\ configurations' = current[w] + 1
            /\ current' = [current EXCEPT ![w] = @ + 1]
            /\ numbering' = numbering \union
                   {[number |-> current[w] + 1, encoding |-> Found(w)]}
            /\ Goto(w, "enqueue")
       ELSE /\ current' = [current EXCEPT ![w] = configurations]
            /\ UNCHANGED <<configurations, numbering, pc>>
    /\ UNCHANGED <<jobOrder, nextJob, jobsDone, duplicates, remembered, active, stop,
                   internalError, nodeLimitHit, queue, eventOwner, slot, prefix, leaf,
                   failed, mainVars, explored, completed>>

(* Only a configuration that is to be printed is queued. *)
Enqueue(w) ==
    /\ pc[w] = "enqueue"
    /\ IF current[w] <= PrintLimit
       THEN /\ queue' = Append(queue, [number |-> current[w], encoding |-> Found(w)])
            /\ Goto(w, "notify")
       ELSE Goto(w, "limit") /\ UNCHANGED queue
    /\ UNCHANGED <<jobOrder, nextJob, jobsDone, configurations, duplicates, remembered,
                   active, stop, internalError, nodeLimitHit, eventOwner, slot, prefix,
                   leaf, current, failed, mainVars, history>>

(* pthread_cond_signal wakes the watcher only when it is waiting. *)
WakeWatcher == mainPc' = IF mainPc = "sleep" THEN "lock" ELSE mainPc

NotifyWatcher(w) ==
    /\ pc[w] = "notify" /\ eventOwner = NoOne
    /\ WakeWatcher
    /\ Goto(w, "limit")
    /\ UNCHANGED <<sharedVars, slot, prefix, leaf, current, failed, created, interrupted,
                   exitStatus, verdict, printed, history>>

ReachLimit(w) ==
    /\ pc[w] = "limit"
    /\ stop' = (stop \/ AtLimit(current[w]))
    /\ Goto(w, "search")
    /\ UNCHANGED <<jobOrder, nextJob, jobsDone, configurations, duplicates, remembered,
                   active, internalError, nodeLimitHit, queue, eventOwner, slot, prefix,
                   leaf, current, failed, mainVars, history>>

-----------------------------------------------------------------------------
(* The end of worker_main. *)
Deactivate_Forgotten == UNCHANGED active
Deactivate == active' = active - 1

Retire(w) ==
    /\ pc[w] = "retire" /\ eventOwner = NoOne
    /\ Deactivate
    /\ WakeWatcher
    /\ Goto(w, "exited")
    /\ UNCHANGED <<jobOrder, nextJob, jobsDone, configurations, duplicates, remembered, stop,
                   internalError, nodeLimitHit, queue, eventOwner, slot, prefix, leaf,
                   current, failed, created, interrupted, exitStatus, verdict, printed,
                   history>>

Worker(w) ==
    \/ CheckStop(w) \/ ClaimJob(w) \/ NextPrefix(w) \/ CountJob(w)
    \/ VisitLeaf(w) \/ PollStop(w) \/ HitNodeLimit(w) \/ FinishPrefix(w) \/ LeavePrefix(w)
    \/ AllocFails(w) \/ RememberExtension(w) \/ LoadCount(w) \/ ReserveRefused(w)
    \/ CompareExchange(w) \/ Enqueue(w) \/ NotifyWatcher(w) \/ ReachLimit(w) \/ Retire(w)

-----------------------------------------------------------------------------
(* main: create the workers. *)

MainGoto(step) == mainPc' = step

Activate == active' = active + 1

ActivateWorker ==
    /\ mainPc = "activate"
    /\ Activate
    /\ MainGoto("create")
    /\ UNCHANGED <<jobOrder, nextJob, jobsDone, configurations, duplicates, remembered, stop,
                   internalError, nodeLimitHit, queue, eventOwner, workerVars, created,
                   interrupted, exitStatus, verdict, printed, history>>

CreateWorker ==
    /\ mainPc = "create"
    /\ created' = created + 1
    /\ pc' = [pc EXCEPT ![created + 1] = "checkStop"]
    /\ MainGoto(IF created + 1 < WorkerCount THEN "activate" ELSE "lock")
    /\ UNCHANGED <<sharedVars, slot, prefix, leaf, current, failed, interrupted,
                   exitStatus, verdict, printed, history>>

CreateFails ==
    /\ CreateMayFail /\ mainPc = "create"
    /\ Deactivate
    /\ stop' = TRUE
    /\ exitStatus' = "failure"
    /\ MainGoto(IF created # 0 THEN "lock" ELSE "join")
    /\ UNCHANGED <<jobOrder, nextJob, jobsDone, configurations, duplicates, remembered,
                   internalError, nodeLimitHit, queue, eventOwner, workerVars, created,
                   interrupted, verdict, printed, history>>

-----------------------------------------------------------------------------
(* watch_workers. *)

LockEvent ==
    /\ eventOwner = NoOne
    /\ \/ mainPc = "lock"   /\ MainGoto("test")
       \/ mainPc = "relock" /\ MainGoto("recheck")
    /\ eventOwner' = Main
    /\ UNCHANGED <<jobOrder, nextJob, jobsDone, configurations, duplicates, remembered,
                   active, stop, internalError, nodeLimitHit, queue, workerVars, created,
                   interrupted, exitStatus, verdict, printed, history>>

TestActive ==
    /\ mainPc = "test"
    /\ eventOwner' = NoOne
    /\ MainGoto(IF active # 0 THEN "poll" ELSE "join")
    /\ UNCHANGED <<jobOrder, nextJob, jobsDone, configurations, duplicates, remembered,
                   active, stop, internalError, nodeLimitHit, queue, workerVars, created,
                   interrupted, exitStatus, verdict, printed, history>>

NoticeInterrupt_Forgotten == UNCHANGED stop
NoticeInterrupt == stop' = (stop \/ interrupted)

PollInterrupt ==
    /\ mainPc = "poll"
    /\ NoticeInterrupt
    /\ MainGoto("drain")
    /\ UNCHANGED <<jobOrder, nextJob, jobsDone, configurations, duplicates, remembered,
                   active, internalError, nodeLimitHit, queue, eventOwner, workerVars,
                   created, interrupted, exitStatus, verdict, printed, history>>

(* drain_solutions detaches the whole list, then prints it. *)
DrainSolutions_NotDetached ==
    /\ UNCHANGED queue
    /\ printed' = printed \o queue
DrainSolutions ==
    /\ queue' = <<>>
    /\ printed' = printed \o queue

WatchDrain ==
    /\ mainPc = "drain"
    /\ DrainSolutions
    /\ MainGoto("relock")
    /\ UNCHANGED <<jobOrder, nextJob, jobsDone, configurations, duplicates, remembered,
                   active, stop, internalError, nodeLimitHit, eventOwner, workerVars,
                   created, interrupted, exitStatus, verdict, history>>

(* The second look at active_workers, still under the mutex ... *)
RecheckActive ==
    /\ mainPc = "recheck"
    /\ MainGoto(IF active # 0 THEN "wait" ELSE "test")
    /\ UNCHANGED <<sharedVars, workerVars, created, interrupted, exitStatus, verdict,
                   printed, history>>

(* ... which pthread_cond_timedwait gives up as it starts to wait. *)
StartWait ==
    /\ mainPc = "wait"
    /\ eventOwner' = NoOne
    /\ MainGoto("sleep")
    /\ UNCHANGED <<jobOrder, nextJob, jobsDone, configurations, duplicates, remembered,
                   active, stop, internalError, nodeLimitHit, queue, workerVars, created,
                   interrupted, exitStatus, verdict, printed, history>>

(* At most a second later, or spuriously, the wait ends without a signal. *)
WaitExpires ==
    /\ mainPc = "sleep"
    /\ MainGoto("lock")
    /\ UNCHANGED <<sharedVars, workerVars, created, interrupted, exitStatus, verdict,
                   printed, history>>

-----------------------------------------------------------------------------
(* main: join, drain the rest, and judge the run. *)

(* pthread_join, one worker after the other.  Each is joinable, is joined   *)
(* once and by main alone: none of the errors pthread_join may return can   *)
(* occur, so the message and the exit status for them are left out.         *)
Joined == \A w \in Workers : w <= created => pc[w] = "exited"

JoinWorkers ==
    /\ mainPc = "join"
    /\ Joined
    /\ DrainSolutions
    /\ MainGoto("errors")
    /\ UNCHANGED <<jobOrder, nextJob, jobsDone, configurations, duplicates, remembered,
                   active, stop, internalError, nodeLimitHit, eventOwner, workerVars,
                   created, interrupted, exitStatus, verdict, history>>

CheckErrors ==
    /\ mainPc = "errors"
    /\ exitStatus' = IF internalError THEN "failure" ELSE exitStatus
    /\ MainGoto("unfinished")
    /\ UNCHANGED <<sharedVars, workerVars, created, interrupted, verdict, printed, history>>

LimitReached == Limit # 0 /\ configurations >= Limit

CheckUnfinished ==
    /\ mainPc = "unfinished"
    /\ exitStatus' =
           IF /\ ~interrupted /\ ~nodeLimitHit /\ ~LimitReached
              /\ exitStatus = "success" /\ jobsDone # JobCount
           THEN "failure" ELSE exitStatus
    /\ MainGoto("report")
    /\ UNCHANGED <<sharedVars, workerVars, created, interrupted, verdict, printed, history>>

Report ==
    /\ mainPc = "report"
    /\ verdict' = CASE interrupted -> "interrupted"
                    [] ~interrupted /\ nodeLimitHit -> "nodeLimit"
                    [] ~interrupted /\ ~nodeLimitHit /\ LimitReached -> "solutionLimit"
                    [] ~interrupted /\ ~nodeLimitHit /\ ~LimitReached ->
                           IF exitStatus = "success" THEN "complete" ELSE "failed"
    /\ MainGoto("exit")
    /\ UNCHANGED <<sharedVars, workerVars, created, interrupted, exitStatus, printed, history>>

Exit ==
    /\ mainPc = "exit"
    /\ exitStatus' = IF interrupted /\ exitStatus = "success" THEN "sigint" ELSE exitStatus
    /\ MainGoto("done")
    /\ UNCHANGED <<sharedVars, workerVars, created, interrupted, verdict, printed, history>>

MainThread ==
    \/ ActivateWorker \/ CreateWorker \/ CreateFails
    \/ LockEvent \/ TestActive \/ PollInterrupt \/ WatchDrain \/ RecheckActive
    \/ StartWait \/ WaitExpires
    \/ JoinWorkers \/ CheckErrors \/ CheckUnfinished \/ Report \/ Exit

(* handle_sigint runs at any moment of the session. *)
Interrupt ==
    /\ MayInterrupt /\ ~interrupted /\ mainPc # "done"
    /\ interrupted' = TRUE
    /\ UNCHANGED <<sharedVars, workerVars, mainPc, created, exitStatus, verdict, printed,
                   history>>

Next == MainThread \/ Interrupt \/ \E w \in Workers : Worker(w)

Spec == Init /\ [][Next]_vars

(* The search of a vast prefix may go on for ever.                         *)
Endless == \E w \in Workers : pc[w] = "search" /\ prefix[w] \in Vast
Advance(w) == Worker(w) /\ ~(prefix[w] \in Vast /\ FinishPrefix(w))

(* Every runnable thread is scheduled and a timed wait expires.  The       *)
(* watcher lets go of event_mutex for at least a millisecond per round, so *)
(* a worker that keeps asking for it gets it.                              *)
Fairness ==
    /\ WF_vars(MainThread)
    /\ \A w \in Workers :
           WF_vars(Advance(w)) /\ SF_vars(NotifyWatcher(w)) /\ SF_vars(Retire(w))

FairSpec == Spec /\ Fairness

-----------------------------------------------------------------------------
(* Properties. *)

Items(q)     == {q[i] : i \in 1 .. Len(q)}
AllLeaves    == UNION {Items(Leaves[p]) : p \in Prefixes}
Numbered     == {r.encoding : r \in numbering}
Reserving(w) == pc[w] \in {"load", "cas"}
Running(w)   == pc[w] \notin {"absent", "exited"}
AfterJoin    == {"errors", "unfinished", "report", "exit", "done"}
Smaller(a, b) == IF a < b THEN a ELSE b
JobPrefixes(j) == RangeBegin(PrefixCount, JobCount, j) .. RangeEnd(PrefixCount, JobCount, j) - 1
Announcement == [number : Nat \ {0}, encoding : Encodings]

(* Every variable keeps its type. *)
TypeOK ==
    /\ jobOrder \in [Jobs -> Jobs]
    /\ nextJob \in Nat /\ jobsDone \in Nat /\ configurations \in Nat /\ duplicates \in Nat
    /\ remembered \subseteq Encodings
    /\ active \in 0 .. WorkerCount
    /\ stop \in BOOLEAN /\ internalError \in BOOLEAN /\ nodeLimitHit \in BOOLEAN
    /\ queue \in Seq(Announcement) /\ printed \in Seq(Announcement)
    /\ eventOwner \in {NoOne, Main}
    /\ pc \in [Workers -> WorkerSteps]
    /\ slot \in [Workers -> Nat] /\ prefix \in [Workers -> Nat]
    /\ leaf \in [Workers -> Nat] /\ current \in [Workers -> Nat]
    /\ failed \in [Workers -> BOOLEAN]
    /\ mainPc \in MainSteps /\ created \in 0 .. WorkerCount
    /\ interrupted \in BOOLEAN
    /\ exitStatus \in {"success", "failure", "sigint"} /\ verdict \in Verdicts
    /\ numbering \subseteq Announcement
    /\ explored \subseteq Prefixes /\ completed \subseteq Jobs

(* --limit N: however many workers race on the counter, the configurations *)
(* counted never exceed N, and a session that says it stopped at the       *)
(* solution limit has counted exactly N (reserve_solution_number).         *)
LimitRespected ==
    /\ Limit # 0 => configurations <= Limit
    /\ verdict = "solutionLimit" => configurations = Limit

(* The numbers given to configurations are 1, 2, ... with no gap, and no   *)
(* number is given twice, whoever wins the compare-and-exchange.           *)
NumbersAreDense ==
    /\ {r.number : r \in numbering} = 1 .. configurations
    /\ \A r, s \in numbering : r.number = s.number => r = s

(* No configuration is given two numbers, even when --extend-solutions     *)
(* reaches it from two bases at the same time (remember_extension_solution *)
(* comes before the reservation).                                          *)
NumberedOnce == \A r, s \in numbering : r.encoding = s.encoding => r = s

(* A job is searched by one worker at most, and never again once it is     *)
(* counted in jobs_done (the ticket of worker_main).                       *)
JobExclusive ==
    \A w \in Workers : pc[w] \in InJob =>
        /\ slot[w] \notin completed
        /\ \A v \in Workers \ {w} : pc[v] \in InJob => slot[v] # slot[w]

(* jobs_done counts only jobs all of whose prefixes were searched to the   *)
(* end and every leaf numbered: a worker whose recursion was cut short by  *)
(* stop, or whose reservation was refused, never counts its job (run_job   *)
(* returns what search_should_stop says after each prefix).  An extension  *)
(* that another worker has remembered may be counted on before that worker *)
(* has its number; it then gets the number or stops the session.           *)
CountedJobIsSearched ==
    /\ jobsDone = Cardinality(completed)
    /\ \A s \in completed : \A p \in JobPrefixes(jobOrder[s]) :
           /\ p \in explored
           /\ \A e \in Items(Leaves[p]) :
                  \/ e \in Numbered
                  \/ Extension /\ (stop \/ \E v \in Workers : Reserving(v) /\ Found(v) = e)

(* "Search complete" is only reported when every prefix was searched and   *)
(* every fair configuration has its number; no worker failed.              *)
CompleteIsExhaustive ==
    verdict = "complete" =>
        /\ explored = Prefixes
        /\ Numbered = AllLeaves
        /\ ~internalError /\ created = WorkerCount

(* "Search ended before every job completed" never happens: when main      *)
(* finds jobs missing, an interrupt, a limit, an error or a worker that    *)
(* could not be created explains it.                                       *)
NoSpuriousFailure ==
    /\ exitStatus = "failure" => internalError \/ created < WorkerCount
    /\ verdict = "failed" => internalError \/ created < WorkerCount

(* active_workers is exactly the number of threads that still run, plus    *)
(* the one main is about to create, so the watcher's loop ends neither     *)
(* before the last worker nor after it.                                    *)
ActiveCountExact ==
    active = Cardinality({w \in Workers : Running(w)}) + (IF mainPc = "create" THEN 1 ELSE 0)

(* The last worker's signal is never lost: the watcher is not left waiting *)
(* for its timeout when no worker is active any more (the second test of   *)
(* active_workers in watch_workers is made under event_mutex).             *)
NoLostWakeup == mainPc \in {"wait", "sleep"} => active > 0

(* Nothing is printed twice; and when main is done, unless memory ran out, *)
(* exactly the configurations numbered up to --print-limit were printed,   *)
(* though workers queue them in any order and the watcher detaches the     *)
(* list while they do.                                                     *)
PrintedExactlyOnce ==
    /\ \A i, j \in 1 .. Len(printed) : printed[i].number = printed[j].number => i = j
    /\ Items(printed) \subseteq numbering
    /\ mainPc = "done" /\ ~internalError =>
           {r.number : r \in Items(printed)} = 1 .. Smaller(configurations, PrintLimit)

(* Once main has joined its workers nothing it reads changes any more: the *)
(* totals, jobs_done and flags of the report are final.                    *)
ReportIsFinal ==
    [][(mainPc \in AfterJoin) =>
           UNCHANGED <<sharedVars, workerVars, printed, history>>]_vars

(* A session ends by itself, however workers are created, fail or are      *)
(* interrupted, unless some worker is left in a search that never ends:    *)
(* no thread waits for ever for another, and the watcher sees the last go. *)
Termination == <>[]Endless \/ <>(mainPc = "done")

(* Ctrl-C, the last configuration of the limit, a failed allocation and a  *)
(* worker that cannot be created each end the session, even one whose      *)
(* search would never end by itself: stop reaches every worker and the     *)
(* watcher, asleep or not, sees them go, at latest a second after it last  *)
(* looked.                                                                 *)
StopEndsSession == (interrupted \/ stop) ~> (mainPc = "done")

SessionEnds == Termination /\ StopEndsSession

(* The driver implements the session a user is promised.                   *)
Session == INSTANCE SearchSession WITH
    fair <- AllLeaves,
    limit <- Limit,
    MayFail <- AllocMayFail \/ CreateMayFail,
    FailureFirst <- FALSE,
    count <- configurations,
    found <- Numbered

SessionSpec == Session!Spec
=============================================================================
